-------------------------- MODULE AccountingProofs --------------------------
(***************************************************************************)
(* Proofs about what must add up: first what Total computes; then, with    *)
(* it, the escrow of the marketplace, the vault of the payments, the       *)
(* stakes and the votes; then the sequencer node, whose bonds are added up *)
(* in the same way, with its chunks and the blocks it builds.              *)
(***************************************************************************)
EXTENDS Contracts, FortifiedNode, FiniteSetTheorems, TLAPS

-----------------------------------------------------------------------------
(* Total.                                                                    *)

Pick(s) == CHOOSE x \in s : TRUE

(* What Total asks of the function that adds f up over the subsets of S.     *)
Adds(f, S, g) ==
    g = [s \in SUBSET S |-> IF s = {} THEN 0 ELSE g[s \ {Pick(s)}] + f[Pick(s)]]

(* A set of subsets of S that has every subset whose proper subsets it has   *)
(* has them all.                                                             *)
LEMMA SubsetInduction ==
    ASSUME NEW S, IsFiniteSet(S), NEW Q \in SUBSET (SUBSET S),
           \A T \in SUBSET S : (\A U \in SUBSET T : U # T => U \in Q) => T \in Q
    PROVE  Q = SUBSET S
<1> DEFINE F == (SUBSET S) \ Q
<1> SUFFICES ASSUME F # {} PROVE FALSE
  OBVIOUS
<1>1. F \subseteq FiniteSubsetsOf(S)
  BY FS_Subset DEF FiniteSubsetsOf
<1>2. IsWellFoundedOn(StrictSubsetOrdering(S), FiniteSubsetsOf(S))
  BY FS_StrictSubsetOrderingWellFounded
<1> HIDE DEF F
<1>3. PICK T \in F : \A U \in F : <<U, T>> \notin StrictSubsetOrdering(S)
  BY <1>1, <1>2, WFMin
<1>4. T \in SUBSET S /\ T \notin Q
  BY <1>3 DEF F
<1>5. ASSUME NEW U \in SUBSET T, U # T, U \notin Q PROVE FALSE
  <2>1. U \in F /\ U \subseteq S
    BY <1>4, <1>5 DEF F
  <2>2. <<U, T>> \in StrictSubsetOrdering(S)
    BY <1>4, <1>5, <2>1 DEF StrictSubsetOrdering
  <2> QED
    BY <2>1, <2>2, <1>3
<1> QED
  BY <1>4, <1>5

LEMMA PickIn == ASSUME NEW S, S # {} PROVE Pick(S) \in S
BY DEF Pick

LEMMA AddsValue ==
    ASSUME NEW f, NEW S, NEW g, Adds(f, S, g)
    PROVE  \A T \in SUBSET S :
               g[T] = IF T = {} THEN 0 ELSE g[T \ {Pick(T)}] + f[Pick(T)]
BY Zenon DEF Adds

(* Two of them agree where both are defined.                                 *)
LEMMA AddsAgree ==
    ASSUME NEW f, NEW S, IsFiniteSet(S), NEW T \in SUBSET S,
           NEW g, Adds(f, T, g), NEW h, Adds(f, S, h)
    PROVE  \A U \in SUBSET T : g[U] = h[U]
<1> DEFINE Q == {U \in SUBSET T : g[U] = h[U]}
<1>1. IsFiniteSet(T)
  BY FS_Subset
<1>2. ASSUME NEW U \in SUBSET T, \A W \in SUBSET U : W # U => W \in Q
      PROVE  U \in Q
  <2>1. /\ g[U] = IF U = {} THEN 0 ELSE g[U \ {Pick(U)}] + f[Pick(U)]
        /\ h[U] = IF U = {} THEN 0 ELSE h[U \ {Pick(U)}] + f[Pick(U)]
    BY AddsValue
  <2>2. CASE U = {}
    BY <2>1, <2>2
  <2>3. CASE U # {}
    <3>1. U \ {Pick(U)} \in Q
      BY <1>2, <2>3, PickIn
    <3> QED
      BY <2>1, <2>3, <3>1
  <2> QED
    BY <2>2, <2>3
<1>3. Q \in SUBSET (SUBSET T)
  OBVIOUS
<1> HIDE DEF Q
<1>4. Q = SUBSET T
  BY <1>1, <1>2, <1>3, SubsetInduction
<1> QED
  BY <1>4 DEF Q

LEMMA TotalChoice ==
    ASSUME NEW f, NEW S
    PROVE  Total(f, S) = (CHOOSE g : Adds(f, S, g))[S]
BY Zenon DEF Total, FoldSet, MapThenFoldSet, Adds, Pick

LEMMA TotalIs ==
    ASSUME NEW f, NEW S, NEW g, Adds(f, S, g), IsFiniteSet(S)
    PROVE  Total(f, S) = g[S]
<1> DEFINE h == CHOOSE k : Adds(f, S, k)
<1>1. Adds(f, S, h)
  BY Zenon
<1>2. Total(f, S) = h[S]
  BY TotalChoice, Zenon
<1> HIDE DEF h
<1>3. \A U \in SUBSET S : h[U] = g[U]
  BY <1>1, AddsAgree
<1> QED
  BY <1>2, <1>3

LEMMA AddsExists ==
    ASSUME NEW f, NEW S, IsFiniteSet(S)
    PROVE  \E g : Adds(f, S, g)
<1> DEFINE Q == {T \in SUBSET S : \E g : Adds(f, T, g)}
<1>1. ASSUME NEW T \in SUBSET S, \A U \in SUBSET T : U # T => U \in Q
      PROVE  T \in Q
  <2> DEFINE G == [U \in SUBSET T |->
                      IF U = {} THEN 0 ELSE Total(f, U \ {Pick(U)}) + f[Pick(U)]]
  <2>1. ASSUME NEW V \in SUBSET T, V # T PROVE G[V] = Total(f, V)
    <3>1. PICK h : Adds(f, V, h)
      BY <1>1, <2>1
    <3>2. IsFiniteSet(V)
      BY FS_Subset
    <3>3. Total(f, V) = h[V]
      BY <3>1, <3>2, TotalIs
    <3>4. h[V] = IF V = {} THEN 0 ELSE h[V \ {Pick(V)}] + f[Pick(V)]
      BY <3>1, AddsValue
    <3>5. CASE V = {}
      BY <3>3, <3>4, <3>5
    <3>6. CASE V # {}
      <4> DEFINE W == V \ {Pick(V)}
      <4>1. W \in SUBSET T /\ W # T /\ W \in SUBSET V
        BY <3>6, PickIn
      <4>2. PICK k : Adds(f, W, k)
        BY <1>1, <4>1
      <4>3. IsFiniteSet(W)
        BY <4>1, FS_Subset
      <4>4. Total(f, W) = k[W]
        BY <4>2, <4>3, TotalIs
      <4>5. k[W] = h[W]
        <5> HIDE DEF W
        <5>1. \A X \in SUBSET W : k[X] = h[X]
          BY <3>1, <3>2, <4>1, <4>2, AddsAgree
        <5> QED
          BY <5>1
      <4> QED
        BY <3>3, <3>4, <3>6, <4>4, <4>5
    <3> QED
      BY <3>5, <3>6
  <2>2. ASSUME NEW U \in SUBSET T, U # {}
        PROVE  Total(f, U \ {Pick(U)}) = G[U \ {Pick(U)}]
    <3>1. U \ {Pick(U)} \in SUBSET T /\ U \ {Pick(U)} # T
      BY <2>2, PickIn
    <3> HIDE DEF G
    <3> QED
      BY <2>1, <3>1
  <2>3. Adds(f, T, G)
    <3>1. \A U \in SUBSET T :
              (IF U = {} THEN 0 ELSE Total(f, U \ {Pick(U)}) + f[Pick(U)])
              = IF U = {} THEN 0 ELSE G[U \ {Pick(U)}] + f[Pick(U)]
      <4> HIDE DEF G
      <4> QED
        BY <2>2
    <3>2. G = [U \in SUBSET T |-> IF U = {} THEN 0 ELSE G[U \ {Pick(U)}] + f[Pick(U)]]
      BY <3>1, Zenon
    <3> HIDE DEF G
    <3> QED
      BY <3>2, Zenon DEF Adds
  <2> HIDE DEF G
  <2> QED
    BY <2>3
<1>2. Q \in SUBSET (SUBSET S)
  OBVIOUS
<1> HIDE DEF Q
<1>3. Q = SUBSET S
  BY <1>1, <1>2, SubsetInduction
<1> QED
  BY <1>3 DEF Q

LEMMA TotalUnfold ==
    ASSUME NEW f, NEW S, IsFiniteSet(S)
    PROVE  Total(f, S) = IF S = {} THEN 0
                         ELSE Total(f, S \ {Pick(S)}) + f[Pick(S)]
<1> DEFINE T == S \ {Pick(S)}
<1>1. PICK g : Adds(f, S, g)
  BY AddsExists
<1>2. T \in SUBSET S /\ IsFiniteSet(T)
  BY FS_Subset
<1>3. PICK h : Adds(f, T, h)
  BY <1>2, AddsExists
<1>4. Total(f, S) = g[S] /\ Total(f, T) = h[T]
  BY <1>1, <1>2, <1>3, TotalIs
<1>5. g[S] = IF S = {} THEN 0 ELSE g[T] + f[Pick(S)]
  BY <1>1, AddsValue
<1> HIDE DEF T
<1>6. h[T] = g[T]
  <2>1. \A R \in SUBSET S : \A p : Adds(f, R, p) => \A U \in SUBSET R : p[U] = g[U]
    BY <1>1, AddsAgree, SMTT(20)
  <2>2. \A U \in SUBSET T : h[U] = g[U]
    BY <1>2, <1>3, <2>1
  <2> QED
    BY <2>2
<1> QED
  BY <1>4, <1>5, <1>6 DEF T

LEMMA TotalEmpty == ASSUME NEW f PROVE Total(f, {}) = 0
<1>1. IsFiniteSet({})
  BY FS_EmptySet
<1> QED
  BY <1>1, TotalUnfold

LEMMA TotalPick ==
    ASSUME NEW f, NEW S, IsFiniteSet(S), S # {}
    PROVE  Total(f, S) = Total(f, S \ {Pick(S)}) + f[Pick(S)]
BY TotalUnfold

LEMMA TotalInt ==
    ASSUME NEW S, IsFiniteSet(S), NEW f, \A x \in S : f[x] \in Int
    PROVE  Total(f, S) \in Int
<1> DEFINE Q == {T \in SUBSET S : Total(f, T) \in Int}
<1>1. ASSUME NEW T \in SUBSET S, \A U \in SUBSET T : U # T => U \in Q
      PROVE  T \in Q
  <2>1. CASE T = {}
    BY <2>1, TotalEmpty
  <2>2. CASE T # {}
    <3>1. IsFiniteSet(T)
      BY FS_Subset
    <3>2. Total(f, T) = Total(f, T \ {Pick(T)}) + f[Pick(T)]
      BY <2>2, <3>1, TotalPick
    <3>3. Pick(T) \in S /\ T \ {Pick(T)} \in Q
      BY <1>1, <2>2, PickIn
    <3> QED
      BY <3>2, <3>3
  <2> QED
    BY <2>1, <2>2
<1>2. Q \in SUBSET (SUBSET S)
  OBVIOUS
<1> HIDE DEF Q
<1>3. Q = SUBSET S
  BY <1>1, <1>2, SubsetInduction
<1> QED
  BY <1>3 DEF Q

(* The order in which it takes the elements does not matter.                 *)
LEMMA TotalRemove ==
    ASSUME NEW S, IsFiniteSet(S), NEW f, \A x \in S : f[x] \in Int
    PROVE  \A x \in S : Total(f, S) = Total(f, S \ {x}) + f[x]
<1> DEFINE Q == {T \in SUBSET S : \A x \in T : Total(f, T) = Total(f, T \ {x}) + f[x]}
<1>1. ASSUME NEW T \in SUBSET S, \A U \in SUBSET T : U # T => U \in Q
      PROVE  T \in Q
  <2> SUFFICES ASSUME NEW x \in T PROVE Total(f, T) = Total(f, T \ {x}) + f[x]
    OBVIOUS
  <2> DEFINE c == Pick(T)
             V == (T \ {c}) \ {x}
  <2>1. IsFiniteSet(T)
    BY FS_Subset
  <2>2. c \in T
    BY PickIn
  <2>3. Total(f, T) = Total(f, T \ {c}) + f[c]
    BY <2>1, TotalPick
  <2>4. CASE x = c
    BY <2>3, <2>4
  <2>5. CASE x # c
    <3> HIDE DEF c
    <3>1. T \ {c} \in Q /\ T \ {x} \in Q
      BY <1>1, <2>2
    <3>2. x \in T \ {c} /\ c \in T \ {x} /\ V = (T \ {x}) \ {c}
      BY <2>2, <2>5
    <3>3. Total(f, T \ {c}) = Total(f, V) + f[x]
      BY <3>1, <3>2
    <3>4. Total(f, T \ {x}) = Total(f, (T \ {x}) \ {c}) + f[c]
      BY <3>1, <3>2
    <3>5. Total(f, T \ {x}) = Total(f, V) + f[c]
      BY <3>2, <3>4, Zenon
    <3>6. IsFiniteSet(V) /\ V \subseteq S
      BY FS_Subset
    <3>7. Total(f, V) \in Int /\ f[x] \in Int /\ f[c] \in Int
      <4> HIDE DEF V
      <4> QED
        BY <2>2, <3>6, TotalInt
    <3> QED
      BY <2>3, <3>3, <3>5, <3>7
  <2> QED
    BY <2>4, <2>5
<1>2. Q \in SUBSET (SUBSET S)
  OBVIOUS
<1> HIDE DEF Q
<1>3. Q = SUBSET S
  BY <1>1, <1>2, SubsetInduction
<1> QED
  BY <1>3 DEF Q

LEMMA TotalSame ==
    ASSUME NEW S, IsFiniteSet(S), NEW f, NEW g, \A x \in S : f[x] = g[x]
    PROVE  Total(f, S) = Total(g, S)
<1> DEFINE Q == {T \in SUBSET S : Total(f, T) = Total(g, T)}
<1>1. ASSUME NEW T \in SUBSET S, \A U \in SUBSET T : U # T => U \in Q
      PROVE  T \in Q
  <2>1. CASE T = {}
    BY <2>1, TotalEmpty
  <2>2. CASE T # {}
    <3>1. IsFiniteSet(T)
      BY FS_Subset
    <3>2. /\ Total(f, T) = Total(f, T \ {Pick(T)}) + f[Pick(T)]
          /\ Total(g, T) = Total(g, T \ {Pick(T)}) + g[Pick(T)]
      BY <2>2, <3>1, TotalPick
    <3>3. Pick(T) \in S /\ T \ {Pick(T)} \in Q
      BY <1>1, <2>2, PickIn
    <3> QED
      BY <3>2, <3>3
  <2> QED
    BY <2>1, <2>2
<1>2. Q \in SUBSET (SUBSET S)
  OBVIOUS
<1> HIDE DEF Q
<1>3. Q = SUBSET S
  BY <1>1, <1>2, SubsetInduction
<1> QED
  BY <1>3 DEF Q

(* An element more, an element less, an element of another value.            *)
LEMMA TotalGrow ==
    ASSUME NEW T, IsFiniteSet(T), NEW x \in T, NEW S, S = T \ {x}, NEW f, NEW g,
           \A y \in S : f[y] \in Int /\ g[y] = f[y], g[x] \in Int
    PROVE  Total(g, T) = Total(f, S) + g[x]
<1>1. \A y \in T : g[y] \in Int
  OBVIOUS
<1>2. Total(g, T) = Total(g, S) + g[x]
  BY <1>1, TotalRemove
<1>3. IsFiniteSet(S)
  BY FS_RemoveElement
<1>4. Total(f, S) = Total(g, S)
  BY <1>3, TotalSame
<1> QED
  BY <1>2, <1>4

LEMMA TotalShrink ==
    ASSUME NEW S, IsFiniteSet(S), NEW x \in S, NEW T, T = S \ {x}, NEW f, NEW g,
           \A y \in S : f[y] \in Int, \A y \in T : g[y] = f[y]
    PROVE  Total(g, T) = Total(f, S) - f[x]
<1>1. IsFiniteSet(T)
  BY FS_RemoveElement
<1>2. Total(f, S) = Total(f, T) + f[x]
  BY TotalRemove
<1>3. Total(f, T) = Total(g, T)
  BY <1>1, TotalSame
<1>4. Total(f, T) \in Int
  BY <1>1, TotalInt
<1> QED
  BY <1>2, <1>3, <1>4

LEMMA TotalChange ==
    ASSUME NEW S, IsFiniteSet(S), NEW x \in S, NEW f, NEW g,
           \A y \in S : f[y] \in Int /\ g[y] \in Int, \A y \in S \ {x} : g[y] = f[y]
    PROVE  Total(g, S) = Total(f, S) - f[x] + g[x]
<1>1. Total(g, S \ {x}) = Total(f, S) - f[x]
  BY TotalShrink
<1>2. Total(g, S) = Total(g, S \ {x}) + g[x]
  BY TotalRemove
<1> QED
  BY <1>1, <1>2

-----------------------------------------------------------------------------
(* The marketplace.                                                          *)

TaskSet == [creator : Users, solver : Users \cup {"nobody"},
            capability : Capabilities, reward : Nat, token : Tokens,
            status : Statuses, deadline : Nat]
PayoutSet == [creator : Nat, solver : Nat, fee : Nat]

LEMMA MarketTypes ==
    MarketTypeOK <=>
        /\ tasks \in Seq(TaskSet) /\ payout \in Seq(PayoutSet)
        /\ Len(payout) = Len(tasks) /\ marketFee \in 0 .. 1000
        /\ escrow \in [Tokens -> Nat] /\ surplus \in [Tokens -> Nat]
BY DEF MarketTypeOK, TaskSet, PayoutSet

LEMMA MarketTypesNext ==
    MarketTypeOK' <=>
        /\ tasks' \in Seq(TaskSet) /\ payout' \in Seq(PayoutSet)
        /\ Len(payout') = Len(tasks') /\ marketFee' \in 0 .. 1000
        /\ escrow' \in [Tokens -> Nat] /\ surplus' \in [Tokens -> Nat]
BY DEF MarketTypeOK, TaskSet, PayoutSet

LEMMA MarketFeeBound ==
    ASSUME MarketTypeOK
    PROVE  marketFee \in Nat /\ marketFee <= 1000
<1>1. marketFee \in 0 .. 1000
  BY MarketTypes, Zenon
<1> QED
  BY <1>1, SMTT(30)

LEMMA HeldFinite ==
    ASSUME MarketTypeOK
    PROVE  /\ DOMAIN tasks = 1 .. Len(tasks) /\ DOMAIN payout = DOMAIN tasks
           /\ \A t \in Tokens : IsFiniteSet(Held(t)) /\ Held(t) \subseteq DOMAIN tasks
           /\ \A i \in DOMAIN tasks : RewardOf[i] \in Nat /\ RewardOf[i] = tasks[i].reward
<1>1. DOMAIN tasks = 1 .. Len(tasks) /\ DOMAIN payout = DOMAIN tasks /\ Len(tasks) \in Nat
  BY DEF MarketTypeOK
<1>2. IsFiniteSet(DOMAIN tasks)
  BY <1>1, FS_Interval
<1>3. ASSUME NEW t \in Tokens PROVE IsFiniteSet(Held(t)) /\ Held(t) \subseteq DOMAIN tasks
  <2>1. Held(t) \subseteq DOMAIN tasks
    BY DEF Held
  <2> QED
    BY <1>2, <2>1, FS_Subset
<1>4. ASSUME NEW i \in DOMAIN tasks PROVE RewardOf[i] \in Nat /\ RewardOf[i] = tasks[i].reward
  <2>1. tasks[i] \in TaskSet
    BY <1>1, MarketTypes
  <2> QED
    BY <2>1 DEF RewardOf, TaskSet
<1> QED
  BY <1>1, <1>3, <1>4

(* At most a tenth of a reward is the platform's.                            *)
LEMMA FeeBound ==
    ASSUME NEW r \in Nat, NEW b \in Nat, b <= 1000
    PROVE  BasisPoints(r, b) \in Nat /\ BasisPoints(r, b) * 10 <= r
<1>1. r * b \in Nat /\ r * b <= r * 1000
  OBVIOUS
<1> DEFINE p == r * b
<1> HIDE DEF p
<1>2. p \in Nat /\ p <= r * 1000
  BY <1>1 DEF p
<1>3. p \div 10000 \in Nat /\ (p \div 10000) * 10000 <= p
  BY <1>2
<1> QED
  BY <1>2, <1>3 DEF BasisPoints, p

LEMMA MarketInitInv == ASSUME MarketInit PROVE MarketInv
<1>1. tasks = <<>> /\ payout = <<>> /\ marketFee = 250
  BY DEF MarketInit
<1>2. MarketTypeOK
  BY <1>1 DEF MarketTypeOK, MarketInit
<1>3. ASSUME NEW t \in Tokens PROVE escrow[t] = surplus[t] + Total(RewardOf, Held(t))
  <2>1. Held(t) = {}
    BY <1>1 DEF Held
  <2>2. Total(RewardOf, {}) = 0
    BY TotalEmpty
  <2>3. Total(RewardOf, Held(t)) = 0
    BY <2>1, <2>2, Zenon
  <2> QED
    BY <2>3 DEF MarketInit
<1>4. \A i \in DOMAIN tasks : PaidOnce(i)
  BY <1>1
<1> QED
  BY <1>2, <1>3, <1>4 DEF MarketInv, EscrowExact

LEMMA MarketFrame ==
    ASSUME MarketInv, UNCHANGED marketVars PROVE MarketInv'
<1>1. /\ tasks' = tasks /\ payout' = payout /\ marketFee' = marketFee
      /\ escrow' = escrow /\ surplus' = surplus
  BY DEF marketVars
<1>2. MarketTypeOK'
  BY <1>1 DEF MarketInv, MarketTypeOK
<1>3. RewardOf' = RewardOf /\ \A t \in Tokens : Held(t)' = Held(t)
  BY <1>1 DEF RewardOf, Held
<1>4. ASSUME NEW t \in Tokens
      PROVE  escrow'[t] = surplus'[t] + Total(RewardOf', Held(t)')
  <2>1. Total(RewardOf', Held(t)') = Total(RewardOf, Held(t))
    BY <1>3, Zenon
  <2> QED
    BY <1>1, <2>1 DEF MarketInv, EscrowExact
<1>5. \A i \in DOMAIN tasks' : PaidOnce(i)'
  BY <1>1 DEF MarketInv, EscrowExact, PaidOnce
<1> QED
  BY <1>2, <1>4, <1>5 DEF MarketInv, EscrowExact

(* The record of one task changes, but for its reward and its token.         *)
TaskChanges(i) ==
    /\ MarketTypeOK /\ MarketTypeOK' /\ DOMAIN tasks' = DOMAIN tasks /\ i \in DOMAIN tasks
    /\ \A j \in DOMAIN tasks : j # i => tasks'[j] = tasks[j]
    /\ tasks'[i].reward = tasks[i].reward /\ tasks'[i].token = tasks[i].token

LEMMA SameRewards == ASSUME NEW i, TaskChanges(i) PROVE RewardOf' = RewardOf
BY DEF TaskChanges, RewardOf

LEMMA SameHeld ==
    ASSUME NEW i, TaskChanges(i),
           (tasks'[i].status \in {"Open", "Accepted"}) <=> (tasks[i].status \in {"Open", "Accepted"})
    PROVE  \A t \in Tokens : Held(t)' = Held(t)
BY DEF TaskChanges, Held

LEMMA LessHeld ==
    ASSUME NEW i, TaskChanges(i), tasks[i].status \in {"Open", "Accepted"},
           tasks'[i].status \notin {"Open", "Accepted"}
    PROVE  /\ i \in Held(tasks[i].token)
           /\ \A t \in Tokens : Held(t)' = IF t = tasks[i].token THEN Held(t) \ {i} ELSE Held(t)
BY DEF TaskChanges, Held

(* A task is created.                                                        *)
LEMMA CreateTaskInv ==
    ASSUME MarketInv, NEW u \in Users, NEW cap \in Capabilities, NEW r \in Rewards,
           NEW x \in {0, 1}, NEW t \in Tokens, NEW d \in Deadlines,
           CreateTask(u, cap, r, r + x, t, d)
    PROVE  MarketInv'
<1> DEFINE n == Len(tasks) + 1
           new == [creator |-> u, solver |-> "nobody", capability |-> cap, reward |-> r,
                   token |-> t, status |-> "Open", deadline |-> d]
<1>1. /\ tasks' = Append(tasks, new) /\ payout' = Append(payout, NoPayout)
      /\ escrow' = [escrow EXCEPT ![t] = @ + (r + x)]
      /\ surplus' = [surplus EXCEPT ![t] = @ + (r + x) - r]
      /\ marketFee' = marketFee /\ r \in Nat /\ x \in Nat /\ d \in Nat
  BY MarketAssumption, ClockAssumption DEF CreateTask
<1>2. /\ tasks \in Seq(TaskSet) /\ payout \in Seq(PayoutSet) /\ Len(payout) = Len(tasks)
      /\ marketFee \in 0 .. 1000 /\ escrow \in [Tokens -> Nat] /\ surplus \in [Tokens -> Nat]
  BY MarketTypes DEF MarketInv
<1>3. new \in TaskSet /\ NoPayout \in PayoutSet
  BY <1>1 DEF TaskSet, PayoutSet, NoPayout, Statuses
<1>4. MarketTypeOK'
  <2>1. tasks' \in Seq(TaskSet) /\ payout' \in Seq(PayoutSet) /\ Len(payout') = Len(tasks')
    BY <1>1, <1>2, <1>3
  <2>2. escrow[t] + (r + x) \in Nat /\ surplus[t] + (r + x) - r \in Nat
    BY <1>1, <1>2
  <2>3. escrow' \in [Tokens -> Nat] /\ surplus' \in [Tokens -> Nat]
    BY <1>1, <1>2, <2>2
  <2> QED
    BY <1>1, <1>2, <2>1, <2>3, MarketTypesNext
<1>5. /\ DOMAIN tasks = 1 .. Len(tasks) /\ DOMAIN tasks' = DOMAIN tasks \cup {n}
      /\ n \notin DOMAIN tasks /\ tasks'[n] = new /\ payout'[n] = NoPayout
      /\ \A j \in DOMAIN tasks : tasks'[j] = tasks[j] /\ payout'[j] = payout[j]
  <2> HIDE DEF new
  <2> QED
    BY <1>1, <1>2, <1>3
<1>6. /\ Held(t)' = Held(t) \cup {n} /\ n \notin Held(t)
      /\ \A s \in Tokens \ {t} : Held(s)' = Held(s)
  BY <1>5 DEF Held
<1>7. /\ \A j \in DOMAIN tasks : RewardOf'[j] = RewardOf[j] /\ RewardOf[j] \in Nat
      /\ RewardOf'[n] = r
  BY <1>5, HeldFinite DEF RewardOf, MarketInv
<1> HIDE DEF n, new
<1>8. \A s \in Tokens : IsFiniteSet(Held(s)) /\ Held(s) \subseteq DOMAIN tasks
  BY HeldFinite DEF MarketInv
<1>9. \A s \in Tokens : escrow[s] = surplus[s] + Total(RewardOf, Held(s))
  BY DEF MarketInv, EscrowExact
<1>10. Total(RewardOf', Held(t)') = Total(RewardOf, Held(t)) + r
  <2>1. n \in Held(t)' /\ Held(t) = Held(t)' \ {n} /\ IsFiniteSet(Held(t)')
    BY <1>6, <1>8, FS_AddElement
  <2>2. \A y \in Held(t) : RewardOf[y] \in Int /\ RewardOf'[y] = RewardOf[y]
    BY <1>7, <1>8
  <2>3. RewardOf'[n] \in Int
    BY <1>1, <1>7
  <2>4. Total(RewardOf', Held(t)') = Total(RewardOf, Held(t)) + RewardOf'[n]
    BY <2>1, <2>2, <2>3, TotalGrow
  <2> QED
    BY <2>4, <1>7
<1>11. ASSUME NEW s \in Tokens
       PROVE  escrow'[s] = surplus'[s] + Total(RewardOf', Held(s)')
  <2>1. Total(RewardOf, Held(s)) \in Int
    BY <1>7, <1>8, TotalInt
  <2>2. CASE s = t
    BY <1>1, <1>2, <1>9, <1>10, <2>1, <2>2
  <2>3. CASE s # t
    <3>1. Held(s)' = Held(s)
      BY <1>6, <2>3
    <3>2. Total(RewardOf', Held(s)) = Total(RewardOf, Held(s))
      BY <1>7, <1>8, TotalSame
    <3>3. Total(RewardOf', Held(s)') = Total(RewardOf, Held(s))
      BY <3>1, <3>2, Zenon
    <3> QED
      BY <1>1, <1>2, <1>9, <2>3, <3>3
  <2> QED
    BY <2>2, <2>3
<1>12. ASSUME NEW j \in DOMAIN tasks' PROVE PaidOnce(j)'
  <2>1. CASE j = n
    BY <1>5, <2>1 DEF PaidOnce, new
  <2>2. CASE j \in DOMAIN tasks
    <3>1. PaidOnce(j)
      BY <2>2 DEF MarketInv, EscrowExact
    <3> QED
      BY <1>5, <2>2, <3>1 DEF PaidOnce
  <2> QED
    BY <1>5, <2>1, <2>2
<1> QED
  BY <1>4, <1>11, <1>12 DEF MarketInv, EscrowExact

LEMMA RecordChange ==
    ASSUME MarketTypeOK, NEW i \in DOMAIN tasks, NEW new \in TaskSet,
           new.reward = tasks[i].reward, new.token = tasks[i].token,
           tasks' = [tasks EXCEPT ![i] = new], MarketTypeOK'
    PROVE  TaskChanges(i) /\ tasks'[i] = new
<1>1. tasks \in Seq(TaskSet) /\ tasks' \in Seq(TaskSet)
  BY MarketTypes, MarketTypesNext
<1>2. /\ DOMAIN tasks' = DOMAIN tasks /\ tasks'[i] = new
      /\ \A j \in DOMAIN tasks : j # i => tasks'[j] = tasks[j]
  BY <1>1
<1> QED
  BY <1>2 DEF TaskChanges

(* The guards and the two changes of the status that move no money.          *)
LEMMA StatusInv ==
    ASSUME MarketInv, NEW i \in DOMAIN tasks, TaskChanges(i),
           UNCHANGED <<escrow, surplus, payout>>, PaidOnce(i)',
           (tasks'[i].status \in {"Open", "Accepted"}) <=> (tasks[i].status \in {"Open", "Accepted"})
    PROVE  MarketInv'
<1>1. MarketTypeOK'
  BY DEF TaskChanges
<1>2. RewardOf' = RewardOf /\ \A t \in Tokens : Held(t)' = Held(t)
  BY SameRewards, SameHeld
<1>3. ASSUME NEW t \in Tokens
      PROVE  escrow'[t] = surplus'[t] + Total(RewardOf', Held(t)')
  <2>1. Total(RewardOf', Held(t)') = Total(RewardOf, Held(t))
    BY <1>2, Zenon
  <2> QED
    BY <2>1 DEF MarketInv, EscrowExact
<1>4. ASSUME NEW j \in DOMAIN tasks' PROVE PaidOnce(j)'
  <2>1. CASE j # i
    <3>1. PaidOnce(j) /\ tasks'[j] = tasks[j] /\ payout' = payout
      BY <2>1 DEF MarketInv, EscrowExact, TaskChanges
    <3> QED
      BY <3>1 DEF PaidOnce
  <2> QED
    BY <2>1
<1> QED
  BY <1>1, <1>3, <1>4 DEF MarketInv, EscrowExact

(* The reward of task i, all of it, leaves the escrow.                       *)
LEMMA PaidInv ==
    ASSUME MarketInv, NEW i \in DOMAIN tasks, TaskChanges(i), PaidOnce(i)',
           tasks[i].status \in {"Open", "Accepted"},
           tasks'[i].status \notin {"Open", "Accepted"},
           escrow' = [escrow EXCEPT ![tasks[i].token] = @ - tasks[i].reward],
           surplus' = surplus, \A j \in DOMAIN tasks : j # i => payout'[j] = payout[j]
    PROVE  MarketInv'
<1> DEFINE t == tasks[i].token
           r == tasks[i].reward
<1>1. MarketTypeOK'
  BY DEF TaskChanges
<1>2. /\ RewardOf' = RewardOf /\ i \in Held(t)
      /\ \A s \in Tokens : Held(s)' = IF s = t THEN Held(s) \ {i} ELSE Held(s)
  BY SameRewards, LessHeld
<1>3. t \in Tokens /\ r \in Nat /\ RewardOf[i] = r
  <2>1. tasks[i] \in TaskSet
    BY MarketTypes, HeldFinite DEF MarketInv
  <2> QED
    BY <2>1 DEF TaskSet, RewardOf
<1>4. escrow \in [Tokens -> Nat] /\ surplus \in [Tokens -> Nat]
  BY DEF MarketInv, MarketTypeOK
<1> HIDE DEF t, r
<1>5. escrow' = [escrow EXCEPT ![t] = @ - r]
  BY DEF t, r
<1>6. ASSUME NEW s \in Tokens
      PROVE  escrow'[s] = surplus'[s] + Total(RewardOf', Held(s)')
  <2>1. escrow[s] = surplus[s] + Total(RewardOf, Held(s))
    BY DEF MarketInv, EscrowExact
  <2>2. IsFiniteSet(Held(s)) /\ \A y \in Held(s) : RewardOf[y] \in Int
    BY HeldFinite DEF MarketInv
  <2>3. Total(RewardOf, Held(s)) \in Int
    BY <2>2, TotalInt
  <2>4. CASE s = t
    <3>1. Held(s)' = Held(s) \ {i} /\ i \in Held(s)
      BY <1>2, <2>4
    <3>2. \A y \in Held(s)' : RewardOf'[y] = RewardOf[y]
      BY <1>2
    <3>3. Total(RewardOf', Held(s)') = Total(RewardOf, Held(s)) - RewardOf[i]
      BY <2>2, <3>1, <3>2, TotalShrink
    <3> QED
      BY <1>3, <1>4, <1>5, <2>1, <2>3, <2>4, <3>3
  <2>5. CASE s # t
    <3>1. Total(RewardOf', Held(s)') = Total(RewardOf, Held(s))
      BY <1>2, <2>5, Zenon
    <3> QED
      BY <1>4, <1>5, <2>1, <2>5, <3>1
  <2> QED
    BY <2>4, <2>5
<1>7. ASSUME NEW j \in DOMAIN tasks' PROVE PaidOnce(j)'
  <2>1. CASE j # i
    <3>1. PaidOnce(j) /\ tasks'[j] = tasks[j] /\ payout'[j] = payout[j]
      BY <1>7, <2>1 DEF MarketInv, EscrowExact, TaskChanges
    <3> QED
      BY <3>1 DEF PaidOnce
  <2> QED
    BY <2>1
<1> QED
  BY <1>1, <1>6, <1>7 DEF MarketInv, EscrowExact

LEMMA AcceptTaskInv ==
    ASSUME MarketInv, NEW u \in Users, NEW i \in 1 .. Len(tasks), AcceptTask(u, i)
    PROVE  MarketInv'
<1> DEFINE new == [tasks[i] EXCEPT !.solver = u, !.status = "Accepted"]
<1>1. /\ tasks[i].status = "Open" /\ tasks' = [tasks EXCEPT ![i] = new]
      /\ marketFee' = marketFee /\ escrow' = escrow /\ surplus' = surplus /\ payout' = payout
  BY DEF AcceptTask
<1>2. i \in DOMAIN tasks /\ tasks[i] \in TaskSet /\ MarketTypeOK /\ PaidOnce(i)
  BY MarketTypes, HeldFinite DEF MarketInv, EscrowExact
<1>3. /\ new \in TaskSet /\ new.status = "Accepted"
      /\ new.reward = tasks[i].reward /\ new.token = tasks[i].token
  BY <1>2 DEF TaskSet, Statuses
<1> HIDE DEF new
<1>4. MarketTypeOK'
  <2>1. tasks' \in Seq(TaskSet) /\ Len(tasks') = Len(tasks)
    BY <1>1, <1>2, <1>3, MarketTypes
  <2> QED
    BY <1>1, <1>2, <2>1, MarketTypes, MarketTypesNext
<1>5. TaskChanges(i) /\ tasks'[i] = new
  BY <1>1, <1>2, <1>3, <1>4, RecordChange
<1>6. PaidOnce(i)'
  BY <1>1, <1>2, <1>3, <1>5 DEF PaidOnce
<1> QED
  BY <1>1, <1>2, <1>3, <1>5, <1>6, StatusInv

LEMMA DisputeTaskInv ==
    ASSUME MarketInv, NEW u \in Users, NEW i \in 1 .. Len(tasks), DisputeTask(u, i)
    PROVE  MarketInv'
<1> DEFINE new == [tasks[i] EXCEPT !.status = "Disputed"]
<1>1. /\ tasks[i].status = "Completed" /\ tasks' = [tasks EXCEPT ![i] = new]
      /\ marketFee' = marketFee /\ escrow' = escrow /\ surplus' = surplus /\ payout' = payout
  BY DEF DisputeTask
<1>2. i \in DOMAIN tasks /\ tasks[i] \in TaskSet /\ MarketTypeOK /\ PaidOnce(i)
  BY MarketTypes, HeldFinite DEF MarketInv, EscrowExact
<1>3. /\ new \in TaskSet /\ new.status = "Disputed" /\ new.solver = tasks[i].solver
      /\ new.reward = tasks[i].reward /\ new.token = tasks[i].token
  BY <1>2 DEF TaskSet, Statuses
<1> HIDE DEF new
<1>4. MarketTypeOK'
  <2>1. tasks' \in Seq(TaskSet) /\ Len(tasks') = Len(tasks)
    BY <1>1, <1>2, <1>3, MarketTypes
  <2> QED
    BY <1>1, <1>2, <2>1, MarketTypes, MarketTypesNext
<1>5. TaskChanges(i) /\ tasks'[i] = new
  BY <1>1, <1>2, <1>3, <1>4, RecordChange
<1>6. PaidOnce(i)'
  BY <1>1, <1>2, <1>3, <1>5 DEF PaidOnce
<1> QED
  BY <1>1, <1>2, <1>3, <1>5, <1>6, StatusInv

(* What Pay leaves, of natural amounts.                                      *)
LEMMA PayTypes ==
    ASSUME MarketInv, NEW i \in DOMAIN tasks, NEW c \in Nat, NEW s \in Nat, NEW f \in Nat,
           Pay(i, c, s, f), payout[i] = NoPayout, c + s + f = tasks[i].reward
    PROVE  /\ payout' \in Seq(PayoutSet) /\ Len(payout') = Len(payout)
           /\ payout'[i] = [creator |-> c, solver |-> s, fee |-> f]
           /\ \A j \in DOMAIN tasks : j # i => payout'[j] = payout[j]
           /\ escrow' \in [Tokens -> Nat]
           /\ escrow' = [escrow EXCEPT ![tasks[i].token] = @ - tasks[i].reward]
           /\ marketFee' = marketFee /\ surplus' = surplus
<1> DEFINE p == [creator |-> c, solver |-> s, fee |-> f]
<1>1. /\ escrow[tasks[i].token] >= tasks[i].reward
      /\ escrow' = [escrow EXCEPT ![tasks[i].token] = @ - tasks[i].reward]
      /\ marketFee' = marketFee /\ surplus' = surplus
  BY DEF Pay
<1>2. payout' = [payout EXCEPT ![i] = p]
  <2>1. payout[i].creator + c = c /\ payout[i].solver + s = s /\ payout[i].fee + f = f
    BY DEF NoPayout
  <2> QED
    BY <2>1 DEF Pay
<1>3. p \in PayoutSet
  BY DEF PayoutSet
<1>4. payout \in Seq(PayoutSet) /\ i \in DOMAIN payout /\ DOMAIN payout = DOMAIN tasks
  BY MarketTypes, HeldFinite DEF MarketInv
<1> HIDE DEF p
<1>5. /\ payout' \in Seq(PayoutSet) /\ Len(payout') = Len(payout) /\ payout'[i] = p
      /\ \A j \in DOMAIN tasks : j # i => payout'[j] = payout[j]
  BY <1>2, <1>3, <1>4
<1>6. tasks[i] \in TaskSet
  BY MarketTypes, HeldFinite DEF MarketInv
<1>7. escrow' \in [Tokens -> Nat]
  <2>1. tasks[i].reward \in Nat /\ tasks[i].token \in Tokens
    BY <1>6 DEF TaskSet
  <2>2. escrow \in [Tokens -> Nat]
    BY DEF MarketInv, MarketTypeOK
  <2> QED
    BY <1>1, <2>1, <2>2
<1> QED
  BY <1>1, <1>5, <1>7 DEF p

LEMMA CompleteTaskInv ==
    ASSUME MarketInv, NEW u \in Users, NEW i \in 1 .. Len(tasks), CompleteTask(u, i)
    PROVE  MarketInv'
<1> DEFINE new == [tasks[i] EXCEPT !.status = "Completed"]
           r == tasks[i].reward
           cut == BasisPoints(r, marketFee)
<1>1. /\ tasks[i].status = "Accepted" /\ u = tasks[i].solver
      /\ tasks' = [tasks EXCEPT ![i] = new] /\ Pay(i, 0, r - cut, cut)
  BY DEF CompleteTask, DistributeReward
<1>2. i \in DOMAIN tasks /\ tasks[i] \in TaskSet /\ MarketTypeOK /\ PaidOnce(i)
  BY MarketTypes, HeldFinite DEF MarketInv, EscrowExact
<1>3. r \in Nat
  BY <1>2 DEF TaskSet
<1>4. cut \in Nat /\ cut * 10 <= r
  BY <1>2, <1>3, MarketFeeBound, FeeBound
<1> HIDE DEF cut
<1>5. payout[i] = NoPayout
  BY <1>1, <1>2 DEF PaidOnce
<1>6. r - cut \in Nat /\ 0 + (r - cut) + cut = r
  BY <1>3, <1>4
<1>7. /\ payout' \in Seq(PayoutSet) /\ Len(payout') = Len(payout)
      /\ payout'[i] = [creator |-> 0, solver |-> r - cut, fee |-> cut]
      /\ \A j \in DOMAIN tasks : j # i => payout'[j] = payout[j]
      /\ escrow' \in [Tokens -> Nat]
      /\ escrow' = [escrow EXCEPT ![tasks[i].token] = @ - r]
      /\ marketFee' = marketFee /\ surplus' = surplus
  BY <1>1, <1>2, <1>4, <1>5, <1>6, PayTypes
<1>8. /\ new \in TaskSet /\ new.status = "Completed" /\ new.solver = u
      /\ new.reward = r /\ new.token = tasks[i].token
  BY <1>1, <1>2 DEF TaskSet, Statuses
<1> HIDE DEF new
<1>9. MarketTypeOK'
  <2>1. tasks' \in Seq(TaskSet) /\ Len(tasks') = Len(tasks)
    BY <1>1, <1>2, <1>8, MarketTypes
  <2> QED
    BY <1>2, <1>7, <2>1 DEF MarketTypeOK, TaskSet, PayoutSet
<1>10. TaskChanges(i) /\ tasks'[i] = new
  BY <1>1, <1>2, <1>8, <1>9, RecordChange
<1>11. PaidOnce(i)'
  BY <1>4, <1>6, <1>7, <1>8, <1>10 DEF PaidOnce
<1> QED
  BY <1>1, <1>2, <1>7, <1>8, <1>10, <1>11, PaidInv

LEMMA CancelTaskInv ==
    ASSUME MarketInv, NEW u \in Users, NEW i \in 1 .. Len(tasks), CancelTask(u, i)
    PROVE  MarketInv'
<1> DEFINE new == [tasks[i] EXCEPT !.status = "Cancelled"]
           r == tasks[i].reward
<1>1. /\ tasks[i].status = "Open"
      /\ tasks' = [tasks EXCEPT ![i] = new] /\ Pay(i, r, 0, 0)
  BY DEF CancelTask
<1>2. i \in DOMAIN tasks /\ tasks[i] \in TaskSet /\ MarketTypeOK /\ PaidOnce(i)
  BY MarketTypes, HeldFinite DEF MarketInv, EscrowExact
<1>3. r \in Nat /\ r + 0 + 0 = r
  BY <1>2 DEF TaskSet
<1>4. payout[i] = NoPayout
  BY <1>1, <1>2 DEF PaidOnce
<1>5. /\ payout' \in Seq(PayoutSet) /\ Len(payout') = Len(payout)
      /\ payout'[i] = [creator |-> r, solver |-> 0, fee |-> 0]
      /\ \A j \in DOMAIN tasks : j # i => payout'[j] = payout[j]
      /\ escrow' \in [Tokens -> Nat]
      /\ escrow' = [escrow EXCEPT ![tasks[i].token] = @ - r]
      /\ marketFee' = marketFee /\ surplus' = surplus
  BY <1>1, <1>2, <1>3, <1>4, PayTypes
<1>6. /\ new \in TaskSet /\ new.status = "Cancelled"
      /\ new.reward = r /\ new.token = tasks[i].token
  BY <1>1, <1>2 DEF TaskSet, Statuses
<1> HIDE DEF new
<1>7. MarketTypeOK'
  <2>1. tasks' \in Seq(TaskSet) /\ Len(tasks') = Len(tasks)
    BY <1>1, <1>2, <1>6, MarketTypes
  <2> QED
    BY <1>2, <1>5, <2>1, MarketTypes, MarketTypesNext
<1>8. TaskChanges(i) /\ tasks'[i] = new
  BY <1>1, <1>2, <1>6, <1>7, RecordChange
<1>9. PaidOnce(i)'
  BY <1>5, <1>6, <1>8 DEF PaidOnce
<1> QED
  BY <1>1, <1>2, <1>5, <1>6, <1>8, <1>9, PaidInv

LEMMA MarketStep == ASSUME MarketInv, MarketNext PROVE MarketInv'
<1>1. CASE UNCHANGED marketVars
  BY <1>1, MarketFrame
<1>2. ASSUME NEW bps \in MarketFees, SetMarketFee(bps) PROVE MarketInv'
  <2>1. /\ tasks' = tasks /\ payout' = payout /\ marketFee' \in 0 .. 1000
        /\ escrow' = escrow /\ surplus' = surplus
    BY <1>2, MarketAssumption DEF SetMarketFee
  <2>2. MarketTypeOK'
    BY <2>1 DEF MarketInv, MarketTypeOK
  <2>3. RewardOf' = RewardOf /\ \A t \in Tokens : Held(t)' = Held(t)
    BY <2>1 DEF RewardOf, Held
  <2>4. ASSUME NEW t \in Tokens
        PROVE  escrow'[t] = surplus'[t] + Total(RewardOf', Held(t)')
    <3>1. Total(RewardOf', Held(t)') = Total(RewardOf, Held(t))
      BY <2>3, Zenon
    <3> QED
      BY <2>1, <3>1 DEF MarketInv, EscrowExact
  <2>5. \A i \in DOMAIN tasks' : PaidOnce(i)'
    BY <2>1 DEF MarketInv, EscrowExact, PaidOnce
  <2> QED
    BY <2>2, <2>4, <2>5 DEF MarketInv, EscrowExact
<1>3. ASSUME NEW a \in Users, NEW caps \in SUBSET Capabilities,
             RegisterAgent(a, caps) \/ RegisterAgentWithProof(a, caps) \/ UpdateAgent(a, caps)
      PROVE  UNCHANGED marketVars
  BY <1>3 DEF RegisterAgent, RegisterAgentWithProof, UpdateAgent, SetAgent
<1>4. ASSUME NEW a \in Users, DeactivateAgent(a) PROVE UNCHANGED marketVars
  BY <1>4 DEF DeactivateAgent
<1> QED
  BY <1>1, <1>2, <1>3, <1>4, CreateTaskInv, AcceptTaskInv, CompleteTaskInv, DisputeTaskInv,
     CancelTaskInv DEF MarketNext

-----------------------------------------------------------------------------
(* The payments.                                                             *)

PaymentSet == [payer : Users, agent : Users, amount : Nat, token : Tokens,
               deadline : Nat, released : BOOLEAN, disputed : BOOLEAN]
SettledSet == [to : {"none", "agent", "payer"}, at : Nat, fee : Nat, proof : BOOLEAN]

LEMMA PaymentTypes ==
    PaymentTypeOK <=>
        /\ registered \subseteq Users /\ totalEarned \in [Users -> Int]
        /\ payments \in Seq(PaymentSet) /\ settled \in Seq(SettledSet)
        /\ Len(settled) = Len(payments) /\ paymentFee \in Nat
        /\ vault \in [Tokens -> Nat] /\ withdrawn \in [Tokens -> Nat] /\ now \in Nat
BY DEF PaymentTypeOK, PaymentSet, SettledSet

LEMMA PaymentElements ==
    ASSUME PaymentTypeOK
    PROVE  /\ DOMAIN payments = 1 .. Len(payments) /\ DOMAIN settled = DOMAIN payments
           /\ \A i \in DOMAIN payments : payments[i] \in PaymentSet /\ settled[i] \in SettledSet
BY PaymentTypes

LEMMA PaymentSums ==
    ASSUME PaymentTypeOK
    PROVE  /\ \A t \in Tokens : IsFiniteSet(Locked(t)) /\ Locked(t) \subseteq DOMAIN payments
           /\ \A a \in Users : IsFiniteSet(ReleasedTo(a)) /\ ReleasedTo(a) \subseteq DOMAIN payments
           /\ \A i \in DOMAIN payments :
                  /\ AmountOf[i] \in Int /\ AmountOf[i] = payments[i].amount
                  /\ EarningOf[i] \in Int /\ EarningOf[i] = payments[i].amount - settled[i].fee
<1>1. IsFiniteSet(DOMAIN payments)
  <2>1. DOMAIN payments = 1 .. Len(payments) /\ Len(payments) \in Nat
    BY PaymentTypes
  <2> QED
    BY <2>1, FS_Interval
<1>2. ASSUME NEW t \in Tokens PROVE IsFiniteSet(Locked(t)) /\ Locked(t) \subseteq DOMAIN payments
  <2>1. Locked(t) \subseteq DOMAIN payments
    BY DEF Locked
  <2> QED
    BY <1>1, <2>1, FS_Subset
<1>3. ASSUME NEW a \in Users
      PROVE  IsFiniteSet(ReleasedTo(a)) /\ ReleasedTo(a) \subseteq DOMAIN payments
  <2>1. ReleasedTo(a) \subseteq DOMAIN payments
    BY DEF ReleasedTo
  <2> QED
    BY <1>1, <2>1, FS_Subset
<1>4. ASSUME NEW i \in DOMAIN payments
      PROVE  /\ AmountOf[i] \in Int /\ AmountOf[i] = payments[i].amount
             /\ EarningOf[i] \in Int /\ EarningOf[i] = payments[i].amount - settled[i].fee
  <2>1. payments[i] \in PaymentSet /\ settled[i] \in SettledSet
    BY PaymentElements
  <2>2. payments[i].amount \in Nat /\ settled[i].fee \in Nat
    BY <2>1 DEF PaymentSet, SettledSet
  <2> QED
    BY <2>2 DEF AmountOf, EarningOf
<1> QED
  BY <1>2, <1>3, <1>4

LEMMA PaymentInitInv == ASSUME PaymentInit, now = 0 PROVE PaymentInv
<1>1. /\ payments = <<>> /\ settled = <<>> /\ registered = {} /\ paymentFee = 100
      /\ totalEarned = [a \in Users |-> 0] /\ vault = [t \in Tokens |-> 0]
      /\ withdrawn = [t \in Tokens |-> 0]
  BY DEF PaymentInit
<1>2. PaymentTypeOK
  BY <1>1 DEF PaymentTypeOK
<1>3. \A f : Total(f, {}) = 0
  BY TotalEmpty
<1>4. ASSUME NEW t \in Tokens PROVE vault[t] + withdrawn[t] = Total(AmountOf, Locked(t))
  <2>1. Locked(t) = {}
    BY <1>1 DEF Locked
  <2>2. Total(AmountOf, Locked(t)) = 0
    BY <1>3, <2>1, Zenon
  <2> QED
    BY <1>1, <2>2
<1>5. ASSUME NEW a \in Users PROVE totalEarned[a] = Total(EarningOf, ReleasedTo(a))
  <2>1. ReleasedTo(a) = {}
    BY <1>1 DEF ReleasedTo
  <2>2. Total(EarningOf, ReleasedTo(a)) = 0
    BY <1>3, <2>1, Zenon
  <2> QED
    BY <1>1, <2>2
<1>6. \A i \in DOMAIN payments : SettledOnce(i)
  BY <1>1
<1> QED
  BY <1>2, <1>4, <1>5, <1>6 DEF PaymentInv, PaymentsExact

(* Neither a payment nor what is settled of it changes, but for disputes of  *)
(* what is open, and the vault only by a withdrawal.                         *)
LEMMA PaymentFrame ==
    ASSUME PaymentInv, PaymentTypeOK', settled' = settled, totalEarned' = totalEarned,
           DOMAIN payments' = DOMAIN payments,
           \A i \in DOMAIN payments :
               /\ payments'[i].amount = payments[i].amount
               /\ payments'[i].token = payments[i].token
               /\ payments'[i].agent = payments[i].agent
               /\ payments'[i].deadline = payments[i].deadline
               /\ payments'[i].released = payments[i].released
               /\ payments'[i].released => payments'[i].disputed = payments[i].disputed,
           \A t \in Tokens : vault'[t] + withdrawn'[t] = vault[t] + withdrawn[t]
    PROVE  PaymentInv'
<1>1. AmountOf' = AmountOf /\ EarningOf' = EarningOf
  BY DEF AmountOf, EarningOf
<1>2. \A t \in Tokens : Locked(t)' = Locked(t)
  BY DEF Locked
<1>3. \A a \in Users : ReleasedTo(a)' = ReleasedTo(a)
  BY DEF ReleasedTo
<1>4. ASSUME NEW t \in Tokens
      PROVE  vault'[t] + withdrawn'[t] = Total(AmountOf', Locked(t)')
  <2>1. Total(AmountOf', Locked(t)') = Total(AmountOf, Locked(t))
    BY <1>1, <1>2, Zenon
  <2> QED
    BY <2>1 DEF PaymentInv, PaymentsExact
<1>5. ASSUME NEW a \in Users
      PROVE  totalEarned'[a] = Total(EarningOf', ReleasedTo(a)')
  <2>1. Total(EarningOf', ReleasedTo(a)') = Total(EarningOf, ReleasedTo(a))
    BY <1>1, <1>3, Zenon
  <2> QED
    BY <2>1 DEF PaymentInv, PaymentsExact
<1>6. ASSUME NEW i \in DOMAIN payments' PROVE SettledOnce(i)'
  <2>1. SettledOnce(i)
    BY <1>6 DEF PaymentInv, PaymentsExact
  <2>2. settled[i] \in SettledSet /\ payments[i] \in PaymentSet
    BY <1>6, PaymentElements DEF PaymentInv
  <2> QED
    BY <1>6, <2>1, <2>2 DEF SettledOnce, SettledSet, PaymentSet
<1> QED
  BY <1>4, <1>5, <1>6 DEF PaymentInv, PaymentsExact

LEMMA CreatePaymentInv ==
    ASSUME PaymentInv, NEW u \in Users, NEW a \in Users, NEW m \in Amounts, NEW t \in Tokens,
           NEW d \in Deadlines, CreatePayment(u, a, m, t, d), now' = now
    PROVE  PaymentInv'
<1> DEFINE n == Len(payments) + 1
           new == [payer |-> u, agent |-> a, amount |-> m, token |-> t, deadline |-> d,
                   released |-> FALSE, disputed |-> FALSE]
<1>1. /\ payments' = Append(payments, new) /\ settled' = Append(settled, Unsettled)
      /\ vault' = [vault EXCEPT ![t] = @ + m] /\ registered' = registered
      /\ totalEarned' = totalEarned /\ paymentFee' = paymentFee /\ withdrawn' = withdrawn
      /\ m \in Nat /\ d \in Nat
  BY PaymentAssumption, ClockAssumption DEF CreatePayment
<1>2. /\ registered \subseteq Users /\ totalEarned \in [Users -> Int]
      /\ payments \in Seq(PaymentSet) /\ settled \in Seq(SettledSet)
      /\ Len(settled) = Len(payments) /\ paymentFee \in Nat
      /\ vault \in [Tokens -> Nat] /\ withdrawn \in [Tokens -> Nat] /\ now \in Nat
  BY PaymentTypes DEF PaymentInv
<1>3. /\ new \in PaymentSet /\ Unsettled \in SettledSet /\ Unsettled.to = "none"
      /\ new.amount = m /\ new.token = t /\ ~new.released
  BY <1>1 DEF PaymentSet, SettledSet, Unsettled
<1> HIDE DEF new
<1>4. PaymentTypeOK'
  <2>1. /\ payments' \in Seq(PaymentSet) /\ settled' \in Seq(SettledSet)
        /\ Len(settled') = Len(payments')
    BY <1>1, <1>2, <1>3
  <2>2. vault' \in [Tokens -> Nat]
    BY <1>1, <1>2
  <2> QED
    BY <1>1, <1>2, <2>1, <2>2 DEF PaymentTypeOK, PaymentSet, SettledSet
<1>5. /\ DOMAIN payments = 1 .. Len(payments) /\ DOMAIN payments' = DOMAIN payments \cup {n}
      /\ n \notin DOMAIN payments /\ payments'[n] = new /\ settled'[n] = Unsettled
      /\ \A j \in DOMAIN payments : payments'[j] = payments[j] /\ settled'[j] = settled[j]
  BY <1>1, <1>2, <1>3
<1> HIDE DEF n
<1>6. /\ Locked(t)' = Locked(t) \cup {n} /\ n \notin Locked(t)
      /\ \A s \in Tokens \ {t} : Locked(s)' = Locked(s)
  BY <1>3, <1>5 DEF Locked
<1>7. \A b \in Users : ReleasedTo(b)' = ReleasedTo(b)
  BY <1>3, <1>5 DEF ReleasedTo
<1>8. /\ \A j \in DOMAIN payments : AmountOf'[j] = AmountOf[j] /\ EarningOf'[j] = EarningOf[j]
      /\ AmountOf'[n] = m
  BY <1>3, <1>5 DEF AmountOf, EarningOf
<1>9. /\ \A s \in Tokens : IsFiniteSet(Locked(s)) /\ Locked(s) \subseteq DOMAIN payments
      /\ \A b \in Users : IsFiniteSet(ReleasedTo(b)) /\ ReleasedTo(b) \subseteq DOMAIN payments
      /\ \A j \in DOMAIN payments : AmountOf[j] \in Int /\ EarningOf[j] \in Int
  BY PaymentSums DEF PaymentInv
<1>10. Total(AmountOf', Locked(t)') = Total(AmountOf, Locked(t)) + m
  <2>1. n \in Locked(t)' /\ Locked(t) = Locked(t)' \ {n} /\ IsFiniteSet(Locked(t)')
    BY <1>6, <1>9, FS_AddElement
  <2>2. \A y \in Locked(t) : AmountOf[y] \in Int /\ AmountOf'[y] = AmountOf[y]
    BY <1>8, <1>9
  <2>3. AmountOf'[n] \in Int
    BY <1>1, <1>8
  <2>4. Total(AmountOf', Locked(t)') = Total(AmountOf, Locked(t)) + AmountOf'[n]
    BY <2>1, <2>2, <2>3, TotalGrow
  <2> QED
    BY <2>4, <1>8
<1>11. ASSUME NEW s \in Tokens
       PROVE  vault'[s] + withdrawn'[s] = Total(AmountOf', Locked(s)')
  <2>1. Total(AmountOf, Locked(s)) \in Int
    BY <1>9, TotalInt
  <2>2. vault[s] + withdrawn[s] = Total(AmountOf, Locked(s))
    BY DEF PaymentInv, PaymentsExact
  <2>3. CASE s = t
    BY <1>1, <1>2, <1>10, <2>1, <2>2, <2>3
  <2>4. CASE s # t
    <3>1. Locked(s)' = Locked(s)
      BY <1>6, <2>4
    <3>2. Total(AmountOf', Locked(s)) = Total(AmountOf, Locked(s))
      BY <1>8, <1>9, TotalSame
    <3>3. Total(AmountOf', Locked(s)') = Total(AmountOf, Locked(s))
      BY <3>1, <3>2, Zenon
    <3> QED
      BY <1>1, <1>2, <2>2, <2>4, <3>3
  <2> QED
    BY <2>3, <2>4
<1>12. ASSUME NEW b \in Users PROVE totalEarned'[b] = Total(EarningOf', ReleasedTo(b)')
  <2>1. Total(EarningOf', ReleasedTo(b)) = Total(EarningOf, ReleasedTo(b))
    BY <1>8, <1>9, TotalSame
  <2>2. Total(EarningOf', ReleasedTo(b)') = Total(EarningOf, ReleasedTo(b))
    BY <1>7, <2>1, Zenon
  <2> QED
    BY <1>1, <2>2 DEF PaymentInv, PaymentsExact
<1>13. ASSUME NEW j \in DOMAIN payments' PROVE SettledOnce(j)'
  <2>1. CASE j = n
    BY <1>3, <1>5, <2>1 DEF SettledOnce, Unsettled
  <2>2. CASE j \in DOMAIN payments
    <3>1. SettledOnce(j)
      BY <2>2 DEF PaymentInv, PaymentsExact
    <3> QED
      BY <1>5, <2>2, <3>1 DEF SettledOnce
  <2> QED
    BY <1>5, <2>1, <2>2
<1> QED
  BY <1>4, <1>11, <1>12, <1>13 DEF PaymentInv, PaymentsExact

(* A payment that is open is settled, to the agent or back to the payer.     *)
LEMMA SettleInv ==
    ASSUME PaymentInv, NEW i \in 1 .. Len(payments), NEW to \in {"agent", "payer"},
           NEW cut \in Nat, NEW proof \in BOOLEAN, ~payments[i].released,
           Settle(i, to, cut, proof), now' = now,
           totalEarned' = IF to = "agent"
                          THEN [totalEarned EXCEPT ![payments[i].agent] =
                                    @ + payments[i].amount - cut]
                          ELSE totalEarned,
           to = "agent" => proof /\ now <= payments[i].deadline /\ ~payments[i].disputed,
           to = "payer" => now > payments[i].deadline
    PROVE  PaymentInv'
<1> DEFINE p == payments[i]
           new == [p EXCEPT !.released = TRUE]
           s == [to |-> to, at |-> now, fee |-> cut, proof |-> proof]
<1>1. /\ vault[p.token] >= p.amount
      /\ vault' = [vault EXCEPT ![p.token] = @ - p.amount]
      /\ payments' = [payments EXCEPT ![i] = new] /\ settled' = [settled EXCEPT ![i] = s]
      /\ registered' = registered /\ paymentFee' = paymentFee /\ withdrawn' = withdrawn
  BY DEF Settle
<1>2. /\ registered \subseteq Users /\ totalEarned \in [Users -> Int]
      /\ payments \in Seq(PaymentSet) /\ settled \in Seq(SettledSet)
      /\ Len(settled) = Len(payments) /\ paymentFee \in Nat
      /\ vault \in [Tokens -> Nat] /\ withdrawn \in [Tokens -> Nat] /\ now \in Nat
      /\ i \in DOMAIN payments /\ DOMAIN settled = DOMAIN payments
      /\ DOMAIN payments = 1 .. Len(payments)
  BY PaymentTypes, PaymentElements DEF PaymentInv
<1>3. p \in PaymentSet
  BY PaymentElements DEF PaymentInv
<1>4. /\ p.agent \in Users /\ p.amount \in Nat /\ p.token \in Tokens /\ ~p.released
      /\ new \in PaymentSet /\ new.released /\ new.agent = p.agent /\ new.amount = p.amount
      /\ new.token = p.token /\ new.deadline = p.deadline /\ new.disputed = p.disputed
  BY <1>3 DEF PaymentSet
<1>5. s \in SettledSet /\ s.to = to /\ s.at = now /\ s.fee = cut /\ s.proof = proof
  BY <1>2 DEF SettledSet
<1> HIDE DEF new, s
<1>6. PaymentTypeOK'
  <2>1. /\ payments' \in Seq(PaymentSet) /\ settled' \in Seq(SettledSet)
        /\ Len(settled') = Len(payments')
    BY <1>1, <1>2, <1>4, <1>5
  <2>2. vault' \in [Tokens -> Nat]
    BY <1>1, <1>2, <1>4
  <2>3. totalEarned' \in [Users -> Int]
    BY <1>2, <1>4
  <2> QED
    BY <1>1, <1>2, <2>1, <2>2, <2>3 DEF PaymentTypeOK, PaymentSet, SettledSet
<1>7. /\ DOMAIN payments' = DOMAIN payments /\ payments'[i] = new /\ settled'[i] = s
      /\ \A j \in DOMAIN payments : j # i =>
             payments'[j] = payments[j] /\ settled'[j] = settled[j]
  BY <1>1, <1>2
<1>8. SettledOnce(i)
  BY <1>2 DEF PaymentInv, PaymentsExact
<1>9. /\ i \in Locked(p.token)
      /\ \A t \in Tokens : Locked(t)' = IF t = p.token THEN Locked(t) \ {i} ELSE Locked(t)
  BY <1>2, <1>4, <1>7 DEF Locked
<1>10. /\ i \notin ReleasedTo(p.agent)
       /\ \A b \in Users : ReleasedTo(b)' = IF b = p.agent /\ to = "agent"
                                            THEN ReleasedTo(b) \cup {i} ELSE ReleasedTo(b)
  <2>1. settled[i].to = "none"
    BY <1>4, <1>8, PaymentElements, <1>2 DEF SettledOnce, SettledSet, PaymentInv
  <2> QED
    BY <1>2, <1>4, <1>5, <1>7, <2>1 DEF ReleasedTo
<1>11. /\ \A j \in DOMAIN payments : AmountOf'[j] = AmountOf[j]
       /\ \A j \in DOMAIN payments : j # i => EarningOf'[j] = EarningOf[j]
       /\ EarningOf'[i] = p.amount - cut /\ AmountOf[i] = p.amount
  BY <1>2, <1>4, <1>5, <1>7 DEF AmountOf, EarningOf
<1>12. /\ \A t \in Tokens : IsFiniteSet(Locked(t)) /\ Locked(t) \subseteq DOMAIN payments
       /\ \A b \in Users : IsFiniteSet(ReleasedTo(b)) /\ ReleasedTo(b) \subseteq DOMAIN payments
       /\ \A j \in DOMAIN payments : AmountOf[j] \in Int /\ EarningOf[j] \in Int
  BY PaymentSums DEF PaymentInv
<1> HIDE DEF p
<1>13. ASSUME NEW t \in Tokens
       PROVE  vault'[t] + withdrawn'[t] = Total(AmountOf', Locked(t)')
  <2>1. Total(AmountOf, Locked(t)) \in Int
    BY <1>12, TotalInt
  <2>2. vault[t] + withdrawn[t] = Total(AmountOf, Locked(t))
    BY DEF PaymentInv, PaymentsExact
  <2>3. CASE t = p.token
    <3>1. Locked(t)' = Locked(t) \ {i} /\ i \in Locked(t)
      BY <1>9, <2>3
    <3>2. /\ \A y \in Locked(t) : AmountOf[y] \in Int
          /\ \A y \in Locked(t)' : AmountOf'[y] = AmountOf[y]
      BY <1>11, <1>12, <3>1
    <3>3. Total(AmountOf', Locked(t)') = Total(AmountOf, Locked(t)) - AmountOf[i]
      BY <1>12, <3>1, <3>2, TotalShrink
    <3> QED
      BY <1>1, <1>2, <1>4, <1>11, <2>1, <2>2, <2>3, <3>3
  <2>4. CASE t # p.token
    <3>1. Total(AmountOf', Locked(t)) = Total(AmountOf, Locked(t))
      BY <1>11, <1>12, TotalSame
    <3>2. Locked(t)' = Locked(t)
      BY <1>9, <2>4
    <3>3. Total(AmountOf', Locked(t)') = Total(AmountOf, Locked(t))
      BY <3>1, <3>2, Zenon
    <3> QED
      BY <1>1, <1>2, <2>2, <2>4, <3>3
  <2> QED
    BY <2>3, <2>4
<1>14. ASSUME NEW b \in Users PROVE totalEarned'[b] = Total(EarningOf', ReleasedTo(b)')
  <2>1. totalEarned[b] = Total(EarningOf, ReleasedTo(b))
    BY DEF PaymentInv, PaymentsExact
  <2>2. CASE b = p.agent /\ to = "agent"
    <3>1. ReleasedTo(b)' = ReleasedTo(b) \cup {i} /\ i \notin ReleasedTo(b)
      BY <1>10, <2>2
    <3>2. /\ i \in ReleasedTo(b)' /\ ReleasedTo(b) = ReleasedTo(b)' \ {i}
          /\ IsFiniteSet(ReleasedTo(b)')
      BY <1>12, <3>1, FS_AddElement
    <3>3. \A y \in ReleasedTo(b) : EarningOf[y] \in Int /\ EarningOf'[y] = EarningOf[y]
      BY <1>11, <1>12, <3>1
    <3>4. EarningOf'[i] \in Int
      BY <1>4, <1>11
    <3>5. Total(EarningOf', ReleasedTo(b)') = Total(EarningOf, ReleasedTo(b)) + EarningOf'[i]
      BY <3>2, <3>3, <3>4, TotalGrow
    <3>6. totalEarned'[b] = totalEarned[b] + p.amount - cut /\ totalEarned[b] \in Int
      BY <1>2, <2>2 DEF p
    <3> QED
      BY <1>4, <1>11, <2>1, <3>5, <3>6
  <2>3. CASE ~(b = p.agent /\ to = "agent")
    <3>1. ReleasedTo(b)' = ReleasedTo(b) /\ i \notin ReleasedTo(b)
      <4>1. ReleasedTo(b)' = ReleasedTo(b)
        BY <1>10, <2>3
      <4>2. i \in ReleasedTo(b) => b = p.agent
        BY DEF ReleasedTo, p
      <4> QED
        BY <1>10, <4>1, <4>2
    <3>2. \A y \in ReleasedTo(b) : EarningOf[y] = EarningOf'[y]
      BY <1>11, <1>12, <3>1
    <3>3. Total(EarningOf', ReleasedTo(b)) = Total(EarningOf, ReleasedTo(b))
      BY <1>12, <3>2, TotalSame
    <3>4. Total(EarningOf', ReleasedTo(b)') = Total(EarningOf, ReleasedTo(b))
      BY <3>1, <3>3, Zenon
    <3>5. totalEarned'[b] = totalEarned[b]
      BY <1>2, <2>3 DEF p
    <3> QED
      BY <2>1, <3>4, <3>5
  <2> QED
    BY <2>2, <2>3
<1>15. ASSUME NEW j \in DOMAIN payments' PROVE SettledOnce(j)'
  <2>1. CASE j = i
    BY <1>4, <1>5, <1>7, <2>1 DEF SettledOnce, p
  <2>2. CASE j # i
    <3>1. SettledOnce(j) /\ payments'[j] = payments[j] /\ settled'[j] = settled[j]
      BY <1>7, <1>15, <2>2 DEF PaymentInv, PaymentsExact
    <3> QED
      BY <3>1 DEF SettledOnce
  <2> QED
    BY <2>1, <2>2
<1> QED
  BY <1>6, <1>13, <1>14, <1>15 DEF PaymentInv, PaymentsExact

LEMMA ReleasePaymentInv ==
    ASSUME PaymentInv, NEW u \in Users, NEW i \in 1 .. Len(payments), NEW right \in BOOLEAN,
           ReleasePayment(u, i, right), now' = now
    PROVE  PaymentInv'
<1> DEFINE cut == BasisPoints(payments[i].amount, paymentFee)
<1>1. payments[i] \in PaymentSet /\ now \in Nat /\ paymentFee \in Nat
  BY PaymentTypes, PaymentElements DEF PaymentInv
<1>2. payments[i].amount \in Nat /\ payments[i].deadline \in Nat
  BY <1>1 DEF PaymentSet
<1>3. cut \in Nat
  <2>1. payments[i].amount * paymentFee \in Nat
    BY <1>1, <1>2
  <2> QED
    BY <2>1 DEF BasisPoints
<1>4. /\ ~payments[i].released /\ ~payments[i].disputed /\ now <= payments[i].deadline
      /\ Settle(i, "agent", cut, right)
      /\ totalEarned' = [totalEarned EXCEPT ![payments[i].agent] = @ + payments[i].amount - cut]
      /\ right \/ now > payments[i].deadline
  BY DEF ReleasePayment, ConditionAccepted
<1> HIDE DEF cut
<1>5. right
  BY <1>1, <1>2, <1>4
<1> QED
  BY <1>3, <1>4, <1>5, SettleInv

LEMMA RefundPaymentInv ==
    ASSUME PaymentInv, NEW u \in Users, NEW i \in 1 .. Len(payments),
           RefundPayment(u, i), now' = now
    PROVE  PaymentInv'
BY SettleInv DEF RefundPayment

LEMMA DisputePaymentInv ==
    ASSUME PaymentInv, NEW u \in Users, NEW i \in 1 .. Len(payments),
           DisputePayment(u, i), now' = now
    PROVE  PaymentInv'
<1> DEFINE new == [payments[i] EXCEPT !.disputed = TRUE]
<1>1. /\ ~payments[i].released /\ payments' = [payments EXCEPT ![i] = new]
      /\ registered' = registered /\ totalEarned' = totalEarned /\ paymentFee' = paymentFee
      /\ vault' = vault /\ withdrawn' = withdrawn /\ settled' = settled
  BY DEF DisputePayment
<1>2. payments[i] \in PaymentSet /\ i \in DOMAIN payments /\ PaymentTypeOK
  BY PaymentElements DEF PaymentInv
<1>3. /\ new \in PaymentSet /\ new.released = payments[i].released
      /\ new.amount = payments[i].amount /\ new.token = payments[i].token
      /\ new.agent = payments[i].agent /\ new.deadline = payments[i].deadline
  BY <1>2 DEF PaymentSet
<1> HIDE DEF new
<1>4. PaymentTypeOK'
  <2>1. payments' \in Seq(PaymentSet) /\ Len(payments') = Len(payments)
    BY <1>1, <1>2, <1>3, PaymentTypes
  <2> QED
    BY <1>1, <1>2, <2>1 DEF PaymentTypeOK, PaymentSet
<1>5. /\ DOMAIN payments' = DOMAIN payments /\ payments'[i] = new
      /\ \A j \in DOMAIN payments : j # i => payments'[j] = payments[j]
  BY <1>1, <1>2
<1> QED
  BY <1>1, <1>3, <1>4, <1>5, PaymentFrame

LEMMA PaymentStep == ASSUME PaymentInv, PaymentNext, now' = now PROVE PaymentInv'
<1>1. ASSUME payments' = payments, settled' = settled, totalEarned' = totalEarned,
             registered' \subseteq Users, paymentFee' \in Nat,
             vault' \in [Tokens -> Nat], withdrawn' \in [Tokens -> Nat],
             \A t \in Tokens : vault'[t] + withdrawn'[t] = vault[t] + withdrawn[t]
      PROVE  PaymentInv'
  <2>1. PaymentTypeOK'
    BY <1>1 DEF PaymentInv, PaymentTypeOK
  <2> QED
    BY <1>1, <2>1, PaymentFrame
<1>2. /\ registered \subseteq Users /\ paymentFee \in Nat
      /\ vault \in [Tokens -> Nat] /\ withdrawn \in [Tokens -> Nat]
  BY DEF PaymentInv, PaymentTypeOK
<1>3. ASSUME NEW u \in Users, RegisterPayee(u) PROVE PaymentInv'
  BY <1>1, <1>2, <1>3 DEF RegisterPayee
<1>4. ASSUME NEW u, NEW bps \in PaymentFees, SetPaymentFee(u, bps) PROVE PaymentInv'
  <2>1. bps \in Nat
    BY PaymentAssumption
  <2> QED
    BY <1>1, <1>2, <1>4, <2>1 DEF SetPaymentFee
<1>5. ASSUME NEW u, NEW w, SetPlatformWallet(u, w) PROVE PaymentInv'
  BY <1>1, <1>2, <1>5 DEF SetPlatformWallet
<1>6. ASSUME NEW u, NEW t \in Tokens, NEW n \in Amounts, EmergencyWithdraw(u, t, n)
      PROVE  PaymentInv'
  <2>1. /\ n <= vault[t] /\ n \in Nat /\ vault' = [vault EXCEPT ![t] = @ - n]
        /\ withdrawn' = [withdrawn EXCEPT ![t] = @ + n]
    BY <1>6, PaymentAssumption DEF EmergencyWithdraw
  <2>2. vault' \in [Tokens -> Nat] /\ withdrawn' \in [Tokens -> Nat]
    BY <1>2, <2>1
  <2>3. \A s \in Tokens : vault'[s] + withdrawn'[s] = vault[s] + withdrawn[s]
    BY <1>2, <2>1
  <2> QED
    BY <1>1, <1>2, <1>6, <2>2, <2>3 DEF EmergencyWithdraw
<1> QED
  BY <1>3, <1>4, <1>5, <1>6, CreatePaymentInv, ReleasePaymentInv, RefundPaymentInv,
     DisputePaymentInv DEF PaymentNext

-----------------------------------------------------------------------------
(* The stakes.                                                               *)

ReputationInv == ReputationTypeOK /\ StakesBacked

StakeSet == [amount : Nat, unlockTime : Nat, active : BOOLEAN]

LEMMA StakeTypes ==
    ASSUME ReputationTypeOK, NEW a \in Users
    PROVE  /\ stakes[a] \in StakeSet /\ stakes[a].amount \in Nat
           /\ StakeOf[a] = stakes[a].amount
BY DEF ReputationTypeOK, StakeSet, StakeOf

SlashRange == 0 .. 10000

LEMMA ReputationTypes ==
    ReputationTypeOK <=>
        /\ score \in [Users -> Nat] /\ staked \in [Users -> Nat]
        /\ stakes \in [Users -> StakeSet] /\ totalStaked \in Int
        /\ slashPercentage \in SlashRange /\ now \in Nat
BY DEF ReputationTypeOK, StakeSet, SlashRange

LEMMA ReputationTypesNext ==
    ReputationTypeOK' <=>
        /\ score' \in [Users -> Nat] /\ staked' \in [Users -> Nat]
        /\ stakes' \in [Users -> StakeSet] /\ totalStaked' \in Int
        /\ slashPercentage' \in SlashRange /\ now' \in Nat
BY DEF ReputationTypeOK, StakeSet, SlashRange

(* All of an amount is the most that is slashed of it.                       *)
LEMMA SlashBound ==
    ASSUME NEW n \in Nat, NEW b \in Nat, b <= 10000
    PROVE  BasisPoints(n, b) \in Nat /\ BasisPoints(n, b) <= n
<1>1. n * b \in Nat /\ n * b <= n * 10000
  OBVIOUS
<1> DEFINE p == n * b
<1> HIDE DEF p
<1>2. p \in Nat /\ p <= n * 10000
  BY <1>1 DEF p
<1>3. p \div 10000 \in Nat /\ (p \div 10000) * 10000 <= p
  BY <1>2
<1>4. p \div 10000 <= n
  BY <1>2, <1>3
<1> QED
  BY <1>3, <1>4 DEF BasisPoints, p

LEMMA LeastIn ==
    ASSUME NEW S \in SUBSET Nat, S # {}
    PROVE  Min(S) \in S /\ \A k \in S : Min(S) <= k
<1>1. PICK m \in S : \A k \in S : m <= k
  <2> DEFINE F == {0 .. m : m \in S}
  <2>1. F \subseteq FiniteSubsetsOf(Nat)
    <3>1. \A m \in S : IsFiniteSet(0 .. m) /\ 0 .. m \subseteq Nat
      BY FS_Interval
    <3> QED
      BY <3>1 DEF FiniteSubsetsOf
  <2>2. F # {}
    OBVIOUS
  <2>3. IsWellFoundedOn(StrictSubsetOrdering(Nat), FiniteSubsetsOf(Nat))
    BY FS_StrictSubsetOrderingWellFounded
  <2> HIDE DEF F
  <2>4. PICK x \in F : \A y \in F : <<y, x>> \notin StrictSubsetOrdering(Nat)
    BY <2>1, <2>2, <2>3, WFMin
  <2>5. PICK m \in S : x = 0 .. m
    BY DEF F
  <2>6. ASSUME NEW k \in S, k < m PROVE FALSE
    <3>1. 0 .. k \in F /\ 0 .. k \subseteq 0 .. m /\ m \notin 0 .. k /\ m \in 0 .. m
      BY <2>6 DEF F
    <3>2. <<0 .. k, x>> \in StrictSubsetOrdering(Nat)
      BY <2>5, <3>1 DEF StrictSubsetOrdering
    <3> QED
      BY <3>1, <3>2, <2>4
  <2> QED
    BY <2>6
<1> QED
  BY <1>1 DEF Min

LEMMA ReputationInitInv == ASSUME ReputationInit, now = 0 PROVE ReputationInv
<1>1. /\ score = [a \in Users |-> 0] /\ staked = [a \in Users |-> 0]
      /\ stakes = [a \in Users |-> [amount |-> 0, unlockTime |-> 0, active |-> FALSE]]
      /\ totalStaked = 0 /\ stakePool = 0 /\ slashPercentage = Min(SlashPercentages)
  BY DEF ReputationInit
<1>2. slashPercentage \in 0 .. 10000
  <2>1. PICK p \in SlashPercentages : p <= 10000
    BY ReputationAssumption
  <2>2. SlashPercentages \in SUBSET Nat /\ SlashPercentages # {}
    BY ReputationAssumption
  <2>3. slashPercentage \in Nat /\ slashPercentage <= p /\ p \in Nat
    BY <1>1, <2>2, LeastIn
  <2> QED
    BY <2>1, <2>3, SMTT(20)
<1>3. ReputationTypeOK
  <2>1. score \in [Users -> Nat] /\ staked \in [Users -> Nat]
    BY <1>1
  <2>2. stakes \in [Users -> [amount : Nat, unlockTime : Nat, active : BOOLEAN]]
    BY <1>1
  <2>3. totalStaked \in Int /\ now \in Nat
    BY <1>1
  <2> QED
    BY <1>2, <2>1, <2>2, <2>3 DEF ReputationTypeOK
<1>4. totalStaked = Total(StakeOf, Users)
  <2> DEFINE Q == {T \in SUBSET Users : Total(StakeOf, T) = 0}
  <2>1. ASSUME NEW T \in SUBSET Users, \A U \in SUBSET T : U # T => U \in Q
        PROVE  T \in Q
    <3>1. CASE T = {}
      BY <3>1, TotalEmpty
    <3>2. CASE T # {}
      <4>1. IsFiniteSet(T)
        BY ClockAssumption, FS_Subset
      <4>2. Total(StakeOf, T) = Total(StakeOf, T \ {Pick(T)}) + StakeOf[Pick(T)]
        BY <3>2, <4>1, TotalPick
      <4>3. Pick(T) \in Users /\ T \ {Pick(T)} \in Q
        BY <2>1, <3>2, PickIn
      <4>4. StakeOf[Pick(T)] = 0
        BY <1>1, <4>3 DEF StakeOf
      <4> QED
        BY <4>2, <4>3, <4>4
    <3> QED
      BY <3>1, <3>2
  <2>2. Q \in SUBSET (SUBSET Users)
    OBVIOUS
  <2> HIDE DEF Q
  <2>3. Q = SUBSET Users
    BY <2>1, <2>2, ClockAssumption, SubsetInduction
  <2>4. Users \in Q
    BY <2>3
  <2> QED
    BY <1>1, <2>4 DEF Q
<1> QED
  BY <1>1, <1>3, <1>4 DEF ReputationInv, StakesBacked

LEMMA SameStakes ==
    ASSUME ReputationInv, ReputationTypeOK', stakes' = stakes, stakePool' = stakePool,
           totalStaked' = totalStaked,
           \A a \in Users : a \notin reset' => a \notin reset /\ staked'[a] = staked[a]
    PROVE  ReputationInv'
<1>1. StakeOf' = StakeOf
  BY DEF StakeOf
<1>2. Total(StakeOf', Users) = Total(StakeOf, Users)
  BY <1>1, Zenon
<1> QED
  BY <1>2 DEF ReputationInv, StakesBacked

LEMMA SetStakeInv ==
    ASSUME ReputationInv, NEW a \in Users, NEW s \in StakeSet, s.amount > 0 => s.active,
           SetStake(a, s), now' = now
    PROVE  ReputationInv'
<1> DEFINE change == s.amount - stakes[a].amount
<1>1. /\ stakes' = [stakes EXCEPT ![a] = s] /\ staked' = [staked EXCEPT ![a] = s.amount]
      /\ totalStaked' = totalStaked + change /\ stakePool' = stakePool + change
      /\ reset' = reset \ {a} /\ score' = score /\ slashPercentage' = slashPercentage
  BY DEF SetStake
<1>2. /\ score \in [Users -> Nat] /\ staked \in [Users -> Nat] /\ stakes \in [Users -> StakeSet]
      /\ totalStaked \in Int /\ slashPercentage \in SlashRange /\ now \in Nat
  BY DEF ReputationInv, ReputationTypeOK, StakeSet, SlashRange
<1>3. s.amount \in Nat
  BY DEF StakeSet
<1>4. stakes[a].amount \in Nat /\ \A b \in Users : StakeOf[b] \in Int
  BY StakeTypes DEF ReputationInv
<1>5. ReputationTypeOK'
  <2>1. stakes' \in [Users -> StakeSet] /\ staked' \in [Users -> Nat] /\ totalStaked' \in Int
    BY <1>1, <1>2, <1>3, <1>4
  <2> QED
    BY <1>1, <1>2, <2>1, ReputationTypes, ReputationTypesNext
<1>6. /\ stakes'[a] = s /\ staked'[a] = s.amount
      /\ \A b \in Users \ {a} : stakes'[b] = stakes[b] /\ staked'[b] = staked[b]
  BY <1>1, <1>2
<1>7. /\ StakeOf'[a] = s.amount /\ StakeOf[a] = stakes[a].amount
      /\ \A b \in Users \ {a} : StakeOf'[b] = StakeOf[b]
  BY <1>6 DEF StakeOf
<1>8. \A b \in Users : StakeOf[b] \in Int /\ StakeOf'[b] \in Int
  BY <1>3, <1>4, <1>7
<1>9. Total(StakeOf', Users) = Total(StakeOf, Users) - StakeOf[a] + StakeOf'[a]
  BY <1>7, <1>8, ClockAssumption, TotalChange
<1>10. Total(StakeOf, Users) \in Int
  BY <1>8, ClockAssumption, TotalInt
<1>11. totalStaked = Total(StakeOf, Users) /\ stakePool = totalStaked
  BY DEF ReputationInv, StakesBacked
<1>12. totalStaked' = Total(StakeOf', Users) /\ stakePool' = totalStaked'
  BY <1>1, <1>2, <1>3, <1>4, <1>7, <1>9, <1>10, <1>11
<1>13. ASSUME NEW b \in Users
       PROVE  /\ stakes'[b].amount > 0 => stakes'[b].active
              /\ b \notin reset' => staked'[b] = stakes'[b].amount
  <2>1. CASE b = a
    BY <1>6, <2>1
  <2>2. CASE b # a
    <3>1. /\ stakes[b].amount > 0 => stakes[b].active
          /\ b \notin reset => staked[b] = stakes[b].amount
      BY DEF ReputationInv, StakesBacked
    <3> QED
      BY <1>1, <1>6, <2>2, <3>1
  <2> QED
    BY <2>1, <2>2
<1> QED
  BY <1>5, <1>12, <1>13 DEF ReputationInv, StakesBacked

LEMMA StakeInv ==
    ASSUME ReputationInv, NEW a \in Users, NEW n \in StakeAmounts, NEW l \in Locks,
           Stake(a, n, l), now' = now
    PROVE  ReputationInv'
<1> DEFINE s == [amount |-> stakes[a].amount + n, unlockTime |-> now + l, active |-> TRUE]
<1>1. SetStake(a, s)
  BY DEF Stake
<1>2. stakes[a].amount \in Nat /\ n \in Nat /\ l \in Nat /\ now \in Nat
  <2>1. ReputationTypeOK
    BY DEF ReputationInv
  <2>2. stakes[a].amount \in Nat
    BY <2>1, StakeTypes
  <2>3. now \in Nat
    BY <2>1 DEF ReputationTypeOK
  <2> QED
    BY <2>2, <2>3, ReputationAssumption
<1>3. s \in StakeSet /\ s.active
  BY <1>2 DEF StakeSet
<1> HIDE DEF s
<1> QED
  BY <1>1, <1>3, SetStakeInv

LEMMA UnstakeInv ==
    ASSUME ReputationInv, NEW a \in Users, NEW n \in StakeAmounts, Unstake(a, n), now' = now
    PROVE  ReputationInv'
<1> DEFINE s == [stakes[a] EXCEPT !.amount = @ - n, !.active = stakes[a].amount # n]
<1>1. SetStake(a, s) /\ stakes[a].amount >= n
  BY DEF Unstake
<1>2. stakes[a] \in StakeSet /\ stakes[a].amount \in Nat /\ n \in Nat
  <2>1. stakes[a] \in StakeSet /\ stakes[a].amount \in Nat
    BY StakeTypes DEF ReputationInv
  <2> QED
    BY <2>1, ReputationAssumption
<1>3. stakes[a].amount - n \in Nat
  BY <1>1, <1>2
<1>4. s \in StakeSet /\ s.amount = stakes[a].amount - n
  BY <1>2, <1>3 DEF StakeSet
<1>5. stakes[a].amount # n => s.active
  BY <1>2 DEF StakeSet
<1> HIDE DEF s
<1>6. s.amount > 0 => s.active
  BY <1>2, <1>4, <1>5
<1> QED
  BY <1>1, <1>4, <1>6, SetStakeInv

LEMMA SlashInv ==
    ASSUME ReputationInv, NEW a \in Users, NEW n \in StakeAmounts, Slash(a, n), now' = now
    PROVE  ReputationInv'
<1> DEFINE slashed == BasisPoints(n, slashPercentage)
           s == [stakes[a] EXCEPT !.amount = @ - slashed]
<1>1. SetStake(a, s) /\ stakes[a].amount >= n /\ stakes[a].active
  BY DEF Slash
<1>2. /\ stakes[a] \in StakeSet /\ stakes[a].amount \in Nat /\ n \in Nat
      /\ slashPercentage \in 0 .. 10000
  <2>1. ReputationTypeOK
    BY DEF ReputationInv
  <2>2. stakes[a] \in StakeSet /\ stakes[a].amount \in Nat
    BY <2>1, StakeTypes
  <2>3. slashPercentage \in 0 .. 10000
    BY <2>1 DEF ReputationTypeOK
  <2> QED
    BY <2>2, <2>3, ReputationAssumption
<1>3. slashed \in Nat /\ slashed <= n
  <2>1. n \in Nat /\ slashPercentage \in Nat /\ slashPercentage <= 10000
    BY <1>2, SMTT(30)
  <2> QED
    BY <2>1, SlashBound
<1> HIDE DEF slashed
<1>4. stakes[a].amount - slashed \in Nat
  BY <1>1, <1>2, <1>3
<1>5. s \in StakeSet /\ s.active
  BY <1>1, <1>2, <1>4 DEF StakeSet
<1> HIDE DEF s
<1> QED
  BY <1>1, <1>5, SetStakeInv

LEMMA ReputationStep == ASSUME ReputationInv, ReputationNext, now' = now PROVE ReputationInv'
<1>1. /\ score \in [Users -> Nat] /\ staked \in [Users -> Nat]
      /\ slashPercentage \in 0 .. 10000 /\ now \in Nat
  BY DEF ReputationInv, ReputationTypeOK
<1>2. ASSUME score' \in [Users -> Nat], UNCHANGED scoreless PROVE ReputationInv'
  <2>1. /\ staked' = staked /\ stakes' = stakes /\ totalStaked' = totalStaked
        /\ slashPercentage' = slashPercentage /\ stakePool' = stakePool /\ reset' = reset
    BY <1>2 DEF scoreless
  <2>2. ReputationTypeOK'
    BY <1>2, <2>1 DEF ReputationInv, ReputationTypeOK
  <2> QED
    BY <2>1, <2>2, SameStakes
<1>3. ASSUME NEW a \in Users, InitializeReputation(a) PROVE ReputationInv'
  <2>1. /\ score' = [score EXCEPT ![a] = BaseReputation] /\ staked' = [staked EXCEPT ![a] = 0]
        /\ reset' = reset \cup {a} /\ stakes' = stakes /\ totalStaked' = totalStaked
        /\ slashPercentage' = slashPercentage /\ stakePool' = stakePool
    BY <1>3 DEF InitializeReputation
  <2>2. score' \in [Users -> Nat] /\ staked' \in [Users -> Nat]
    BY <1>1, <2>1, ReputationAssumption
  <2>3. ReputationTypeOK'
    <3>1. ReputationTypeOK
      BY DEF ReputationInv
    <3> QED
      BY <2>1, <2>2, <3>1, ReputationTypes, ReputationTypesNext
  <2>4. \A b \in Users : b \notin reset' => b \notin reset /\ staked'[b] = staked[b]
    BY <1>1, <2>1
  <2> QED
    BY <2>1, <2>3, <2>4, SameStakes
<1>4. ASSUME NEW a \in Users, NEW c \in Int, UpdateReputation(a, c) PROVE ReputationInv'
  <2>1. /\ UNCHANGED scoreless
        /\ score' = [score EXCEPT ![a] = IF score[a] + c > 0 THEN score[a] + c ELSE 0]
    BY <1>4 DEF UpdateReputation
  <2>2. score' \in [Users -> Nat]
    <3>1. score[a] \in Nat
      BY <1>1
    <3>2. (IF score[a] + c > 0 THEN score[a] + c ELSE 0) \in Nat
      BY <1>4, <3>1
    <3> QED
      BY <1>1, <2>1, <3>2
  <2> QED
    BY <1>2, <2>1, <2>2
<1>5. ASSUME NEW a \in Users, NEW n \in Nat, RecordReward(a, n) PROVE ReputationInv'
  <2>1. UNCHANGED scoreless /\ score' \in [Users -> Nat]
    BY <1>1, <1>5 DEF RecordReward
  <2> QED
    BY <1>2, <2>1
<1>6. ASSUME NEW a \in Users, NEW n \in Nat, RecordFailure(a, n) PROVE ReputationInv'
  <2>1. UNCHANGED scoreless /\ score' \in [Users -> Nat]
    BY <1>1, <1>6 DEF RecordFailure
  <2> QED
    BY <1>2, <2>1
<1>7. ASSUME NEW n, SetMaxStake(n) PROVE ReputationInv'
  <2>1. /\ score' = score /\ staked' = staked /\ stakes' = stakes
        /\ totalStaked' = totalStaked /\ stakePool' = stakePool
        /\ slashPercentage' = slashPercentage /\ reset' = reset
    BY <1>7 DEF SetMaxStake
  <2>2. ReputationTypeOK'
    <3>1. ReputationTypeOK
      BY DEF ReputationInv
    <3> QED
      BY <2>1, <3>1, ReputationTypes, ReputationTypesNext
  <2> QED
    BY <2>1, <2>2, SameStakes
<1>8. ASSUME NEW p \in SlashPercentages, SetSlashPercentage(p) PROVE ReputationInv'
  <2>1. /\ score' = score /\ staked' = staked /\ stakes' = stakes
        /\ totalStaked' = totalStaked /\ stakePool' = stakePool
        /\ slashPercentage' \in SlashRange /\ reset' = reset
    BY <1>8, ReputationAssumption, SMTT(20) DEF SetSlashPercentage, SlashRange
  <2>2. ReputationTypeOK'
    <3>1. ReputationTypeOK
      BY DEF ReputationInv
    <3> QED
      BY <2>1, <3>1, ReputationTypes, ReputationTypesNext
  <2> QED
    BY <2>1, <2>2, SameStakes
<1>9. /\ \A n \in ScoreRewards : n \in Nat /\ n \in Int
      /\ \A n \in ScorePenalties : n \in Nat /\ -n \in Int
  BY ReputationAssumption
<1> QED
  BY <1>3, <1>4, <1>5, <1>6, <1>7, <1>8, <1>9, StakeInv, UnstakeInv, SlashInv DEF ReputationNext

-----------------------------------------------------------------------------
(* The votes.                                                                *)

VotingInv == GovernanceTypeOK /\ VotesCounted

ProposalSet == [startBlock : Nat, endBlock : Nat, tally : [Supports -> Nat],
                state : {"Pending", "Queued", "Executed"}, executedAt : Nat]
VoteSet == [support : Supports \cup {"none"}, power : Nat, at : Nat]

LEMMA GovernanceTypes ==
    GovernanceTypeOK <=>
        /\ proposals \in Seq(ProposalSet)
        /\ \A i \in DOMAIN proposals : proposals[i].startBlock <= proposals[i].endBlock
        /\ votes \in Seq([Users -> VoteSet]) /\ Len(votes) = Len(proposals)
        /\ votingDelay \in Nat /\ votingPeriod \in Nat /\ quorumPercentage \in Nat
BY DEF GovernanceTypeOK, ProposalSet, VoteSet

(* Proposal i is counted.                                                    *)
Counted(i) ==
    LET p == proposals[i] IN
    /\ \A s \in Supports : p.tally[s] = Total(PowerOf(i), VotersFor(i, s))
    /\ \A u \in Users : votes[i][u] # NotVoted => votes[i][u].at \in p.startBlock .. p.endBlock
    /\ p.state = "Executed" =>
          p.executedAt > p.endBlock /\ p.tally["for"] > p.tally["against"]

LEMMA AllCounted == VotesCounted <=> \A i \in DOMAIN proposals : Counted(i)
BY DEF VotesCounted, Counted

LEMMA ProposalElements ==
    ASSUME GovernanceTypeOK
    PROVE  /\ DOMAIN proposals = 1 .. Len(proposals) /\ DOMAIN votes = DOMAIN proposals
           /\ \A i \in DOMAIN proposals :
                  /\ proposals[i] \in ProposalSet /\ votes[i] \in [Users -> VoteSet]
                  /\ proposals[i].startBlock <= proposals[i].endBlock
BY GovernanceTypes

LEMMA VotingInitInv == ASSUME GovernanceInit PROVE VotingInv
<1>1. /\ proposals = <<>> /\ votes = <<>> /\ votingDelay = Min(VotingDelays)
      /\ votingPeriod = Min(VotingPeriods) /\ quorumPercentage = Min(Quorums)
  BY DEF GovernanceInit
<1>2. votingDelay \in Nat /\ votingPeriod \in Nat /\ quorumPercentage \in Nat
  <2>1. /\ Min(VotingDelays) \in VotingDelays /\ Min(VotingPeriods) \in VotingPeriods
        /\ Min(Quorums) \in Quorums
    BY GovernanceAssumption, LeastIn
  <2> QED
    BY <1>1, <2>1, GovernanceAssumption
<1>3. GovernanceTypeOK
  BY <1>1, <1>2 DEF GovernanceTypeOK
<1> QED
  BY <1>1, <1>3 DEF VotingInv, VotesCounted

(* Proposals keep their votes, and but for one of them their records.        *)
LEMMA CountedFrame ==
    ASSUME NEW i \in DOMAIN proposals, Counted(i), proposals'[i] = proposals[i],
           votes'[i] = votes[i]
    PROVE  Counted(i)'
<1>1. PowerOf(i)' = PowerOf(i)
  BY DEF PowerOf
<1>2. \A s \in Supports : VotersFor(i, s)' = VotersFor(i, s)
  BY DEF VotersFor
<1>3. ASSUME NEW s \in Supports
      PROVE  proposals'[i].tally[s] = Total(PowerOf(i)', VotersFor(i, s)')
  <2>1. Total(PowerOf(i)', VotersFor(i, s)') = Total(PowerOf(i), VotersFor(i, s))
    BY <1>1, <1>2, Zenon
  <2> QED
    BY <2>1 DEF Counted
<1> QED
  BY <1>3 DEF Counted

LEMMA ConfigureInv ==
    ASSUME VotingInv, proposals' = proposals, votes' = votes,
           votingDelay' \in Nat, votingPeriod' \in Nat, quorumPercentage' \in Nat
    PROVE  VotingInv'
<1>1. GovernanceTypeOK'
  BY DEF VotingInv, GovernanceTypeOK
<1>2. \A i \in DOMAIN proposals' : Counted(i)'
  BY CountedFrame, AllCounted DEF VotingInv
<1> QED
  BY <1>1, <1>2, AllCounted DEF VotingInv, VotesCounted, Counted

LEMMA CreateProposalInv ==
    ASSUME VotingInv, CreateProposal, now \in Nat
    PROVE  VotingInv'
<1>0. PICK n : n = Len(proposals) + 1
  OBVIOUS
<1> DEFINE new == [startBlock |-> now + votingDelay,
                   endBlock |-> now + votingDelay + votingPeriod,
                   tally |-> [s \in Supports |-> 0], state |-> "Pending", executedAt |-> 0]
           none == [u \in Users |-> NotVoted]
<1>1. /\ proposals' = Append(proposals, new) /\ votes' = Append(votes, none)
      /\ votingDelay' = votingDelay /\ votingPeriod' = votingPeriod
      /\ quorumPercentage' = quorumPercentage
  BY DEF CreateProposal, settings
<1>2. /\ proposals \in Seq(ProposalSet) /\ votes \in Seq([Users -> VoteSet])
      /\ Len(votes) = Len(proposals)
      /\ \A i \in DOMAIN proposals : proposals[i].startBlock <= proposals[i].endBlock
      /\ votingDelay \in Nat /\ votingPeriod \in Nat /\ quorumPercentage \in Nat
  BY GovernanceTypes DEF VotingInv
<1>3. /\ new \in ProposalSet /\ new.startBlock <= new.endBlock /\ new.state = "Pending"
      /\ \A s \in Supports : new.tally[s] = 0
  BY <1>2 DEF ProposalSet
<1>4. none \in [Users -> VoteSet] /\ \A u \in Users : none[u] = NotVoted
  BY DEF VoteSet, NotVoted
<1> HIDE DEF new, none
<1>5. /\ proposals' \in Seq(ProposalSet) /\ votes' \in Seq([Users -> VoteSet])
      /\ Len(votes') = Len(proposals') /\ DOMAIN proposals' = DOMAIN proposals \cup {n}
      /\ proposals'[n] = new /\ votes'[n] = none
      /\ \A i \in DOMAIN proposals : proposals'[i] = proposals[i] /\ votes'[i] = votes[i]
  BY <1>0, <1>1, <1>2, <1>3, <1>4
<1>6. GovernanceTypeOK'
  <2>1. \A i \in DOMAIN proposals' : proposals'[i].startBlock <= proposals'[i].endBlock
    BY <1>2, <1>3, <1>5
  <2> QED
    BY <1>1, <1>2, <1>5, <2>1 DEF GovernanceTypeOK, ProposalSet, VoteSet
<1>7. Counted(n)'
  <2>1. ASSUME NEW s \in Supports
        PROVE  proposals'[n].tally[s] = Total(PowerOf(n)', VotersFor(n, s)')
    <3>1. VotersFor(n, s)' = {}
      BY <1>4, <1>5 DEF VotersFor, NotVoted, Supports
    <3>2. \A f : Total(f, {}) = 0
      BY TotalEmpty
    <3>3. Total(PowerOf(n)', VotersFor(n, s)') = 0
      BY <3>1, <3>2, Zenon
    <3> QED
      BY <1>3, <1>5, <3>3
  <2>2. \A u \in Users : votes'[n][u] = NotVoted
    BY <1>4, <1>5
  <2>3. proposals'[n].state # "Executed"
    BY <1>3, <1>5
  <2> QED
    BY <2>1, <2>2, <2>3 DEF Counted
<1>8. \A i \in DOMAIN proposals' : Counted(i)'
  BY <1>5, <1>7, CountedFrame, AllCounted DEF VotingInv
<1> QED
  BY <1>6, <1>8 DEF VotingInv, VotesCounted, Counted

(* The state of a proposal that is not executed.                             *)
LEMMA StateCases ==
    ASSUME VotingInv, now \in Nat, NEW i \in DOMAIN proposals
    PROVE  /\ GetProposalState(i) = "Active" =>
                  /\ proposals[i].state # "Executed"
                  /\ now \in proposals[i].startBlock .. proposals[i].endBlock
           /\ GetProposalState(i) = "Succeeded" =>
                  /\ proposals[i].state # "Executed" /\ now > proposals[i].endBlock
                  /\ proposals[i].tally["for"] > proposals[i].tally["against"]
<1> DEFINE p == proposals[i]
<1>1. p \in ProposalSet /\ p.startBlock <= p.endBlock
  BY ProposalElements DEF VotingInv
<1>2. p.startBlock \in Nat /\ p.endBlock \in Nat
  BY <1>1 DEF ProposalSet
<1>3. CASE p.state = "Executed"
  BY <1>3 DEF GetProposalState
<1>4. CASE p.state # "Executed"
  <2>1. CASE now < p.startBlock
    <3>1. ~(now \in p.startBlock .. p.endBlock) /\ ~(now > p.endBlock)
      BY <1>1, <1>2, <2>1
    <3>2. GetProposalState(i) = "Pending"
      BY <1>4, <2>1, <3>1 DEF GetProposalState
    <3> QED
      BY <3>2
  <2>2. CASE now \in p.startBlock .. p.endBlock
    <3>1. ~(now < p.startBlock) /\ ~(now > p.endBlock)
      BY <1>1, <1>2, <2>2
    <3>2. GetProposalState(i) = "Active"
      BY <1>4, <2>2, <3>1 DEF GetProposalState
    <3> QED
      BY <1>4, <2>2, <3>2
  <2>3. CASE now > p.endBlock
    <3>1. ~(now < p.startBlock) /\ ~(now \in p.startBlock .. p.endBlock)
      BY <1>1, <1>2, <2>3
    <3>2. GetProposalState(i) = IF Votes(p) >= Quorum /\ p.tally["for"] > p.tally["against"]
                                THEN "Succeeded" ELSE "Defeated"
      BY <1>4, <2>3, <3>1 DEF GetProposalState
    <3> QED
      BY <1>4, <2>3, <3>2
  <2> QED
    BY <1>2, <2>1, <2>2, <2>3
<1> QED
  BY <1>3, <1>4

LEMMA PowerType == ASSUME ReputationTypeOK, NEW u \in Users PROVE Power(u) \in Nat
<1>1. score[u] \in Nat /\ staked[u] \in Nat
  BY DEF ReputationTypeOK
<1>2. staked[u] \div StakeUnit \in Nat
  <2>1. StakeUnit \in Nat /\ StakeUnit > 0
    BY ReputationAssumption
  <2> QED
    BY <1>1, <2>1
<1>3. GetVotingPower(u) \in Nat
  BY <1>1, <1>2 DEF GetVotingPower
<1> QED
  BY <1>3 DEF Power

(* The vote of u is one more for its support, with its power.                *)
LEMMA CastVoteInv ==
    ASSUME VotingInv, ReputationTypeOK, now \in Nat, NEW u \in Users,
           NEW i \in 1 .. Len(proposals), NEW support \in Supports, CastVote(u, i, support)
    PROVE  VotingInv'
<1>0. PICK w \in Nat : w = Power(u)
  BY PowerType
<1> DEFINE v == [support |-> support, power |-> w, at |-> now]
           new == [proposals[i] EXCEPT !.tally[support] = @ + w]
           ballots == [votes[i] EXCEPT ![u] = v]
<1>1. /\ GetProposalState(i) = "Active" /\ votes[i][u] = NotVoted
      /\ votes' = [votes EXCEPT ![i] = ballots] /\ proposals' = [proposals EXCEPT ![i] = new]
      /\ votingDelay' = votingDelay /\ votingPeriod' = votingPeriod
      /\ quorumPercentage' = quorumPercentage
  BY <1>0 DEF CastVote, settings
<1>2. /\ proposals \in Seq(ProposalSet) /\ votes \in Seq([Users -> VoteSet])
      /\ Len(votes) = Len(proposals)
      /\ \A j \in DOMAIN proposals : proposals[j].startBlock <= proposals[j].endBlock
      /\ votingDelay \in Nat /\ votingPeriod \in Nat /\ quorumPercentage \in Nat
  BY GovernanceTypes DEF VotingInv
<1>3. /\ i \in DOMAIN proposals /\ DOMAIN votes = DOMAIN proposals
      /\ proposals[i] \in ProposalSet /\ votes[i] \in [Users -> VoteSet]
  BY ProposalElements DEF VotingInv
<1>4. /\ proposals[i].state # "Executed"
      /\ now \in proposals[i].startBlock .. proposals[i].endBlock
  BY <1>1, <1>3, StateCases
<1>5. /\ v \in VoteSet /\ v.support = support /\ v.power = w /\ v.at = now
  BY DEF VoteSet
<1> HIDE DEF v
<1>6. /\ ballots \in [Users -> VoteSet] /\ ballots[u] = v
      /\ \A b \in Users \ {u} : ballots[b] = votes[i][b]
  BY <1>3, <1>5
<1> HIDE DEF ballots
<1>7. /\ new \in ProposalSet /\ new.startBlock = proposals[i].startBlock
      /\ new.endBlock = proposals[i].endBlock /\ new.state = proposals[i].state
      /\ new.tally = [proposals[i].tally EXCEPT ![support] = @ + w]
      /\ proposals[i].tally \in [Supports -> Nat]
  <2>1. proposals[i].tally \in [Supports -> Nat]
    BY <1>3 DEF ProposalSet
  <2>2. [proposals[i].tally EXCEPT ![support] = @ + w] \in [Supports -> Nat]
    BY <2>1
  <2>3. new = [proposals[i] EXCEPT !.tally = [proposals[i].tally EXCEPT ![support] = @ + w]]
    BY DEF ProposalSet
  <2> QED
    BY <1>3, <2>1, <2>2, <2>3 DEF ProposalSet
<1> HIDE DEF new
<1>8. /\ proposals' \in Seq(ProposalSet) /\ votes' \in Seq([Users -> VoteSet])
      /\ Len(votes') = Len(proposals') /\ DOMAIN proposals' = DOMAIN proposals
      /\ proposals'[i] = new /\ votes'[i] = ballots
      /\ \A j \in DOMAIN proposals : j # i =>
             proposals'[j] = proposals[j] /\ votes'[j] = votes[j]
  BY <1>1, <1>2, <1>3, <1>6, <1>7
<1>9. GovernanceTypeOK'
  <2>1. \A j \in DOMAIN proposals' : proposals'[j].startBlock <= proposals'[j].endBlock
    BY <1>2, <1>7, <1>8
  <2> QED
    BY <1>1, <1>2, <1>8, <2>1 DEF GovernanceTypeOK, ProposalSet, VoteSet
<1>10. Counted(i)
  BY <1>3, AllCounted DEF VotingInv
<1>11. /\ u \notin VotersFor(i, support) /\ \A s \in Supports : u \notin VotersFor(i, s)
       /\ VotersFor(i, support)' = VotersFor(i, support) \cup {u}
       /\ \A s \in Supports \ {support} : VotersFor(i, s)' = VotersFor(i, s)
  BY <1>1, <1>5, <1>6, <1>8 DEF VotersFor, NotVoted, Supports
<1>12. /\ PowerOf(i)'[u] = w
       /\ \A b \in Users : PowerOf(i)[b] \in Int
       /\ \A b \in Users \ {u} : PowerOf(i)'[b] = PowerOf(i)[b]
  <2>1. votes'[i] = ballots /\ ballots[u].power = w
    BY <1>5, <1>6, <1>8
  <2>2. /\ \A b \in Users : PowerOf(i)[b] = votes[i][b].power
        /\ \A b \in Users : PowerOf(i)'[b] = ballots[b].power
    BY <2>1 DEF PowerOf
  <2>3. \A b \in Users : votes[i][b].power \in Int
    BY <1>3 DEF VoteSet
  <2> QED
    BY <1>6, <2>1, <2>2, <2>3
<1>13. \A s \in Supports : IsFiniteSet(VotersFor(i, s)) /\ VotersFor(i, s) \subseteq Users
  <2>1. \A s \in Supports : VotersFor(i, s) \subseteq Users
    BY DEF VotersFor
  <2> QED
    BY <2>1, ClockAssumption, FS_Subset
<1>14. ASSUME NEW s \in Supports
       PROVE  proposals'[i].tally[s] = Total(PowerOf(i)', VotersFor(i, s)')
  <2>1. proposals[i].tally[s] = Total(PowerOf(i), VotersFor(i, s))
    BY <1>10 DEF Counted
  <2>2. CASE s = support
    <3>1. VotersFor(i, s)' = VotersFor(i, s) \cup {u} /\ u \notin VotersFor(i, s)
      BY <1>11, <2>2
    <3>2. /\ u \in VotersFor(i, s)' /\ VotersFor(i, s) = VotersFor(i, s)' \ {u}
          /\ IsFiniteSet(VotersFor(i, s)')
      BY <1>13, <3>1, FS_AddElement
    <3>3. \A y \in VotersFor(i, s) : PowerOf(i)[y] \in Int /\ PowerOf(i)'[y] = PowerOf(i)[y]
      BY <1>12, <1>13, <3>1
    <3>4. PowerOf(i)'[u] \in Int
      BY <1>12
    <3>5. Total(PowerOf(i)', VotersFor(i, s)') =
              Total(PowerOf(i), VotersFor(i, s)) + PowerOf(i)'[u]
      BY <3>2, <3>3, <3>4, TotalGrow
    <3>6. proposals'[i].tally[s] = proposals[i].tally[s] + w
      BY <1>7, <1>8, <2>2
    <3> QED
      BY <1>12, <2>1, <3>5, <3>6
  <2>3. CASE s # support
    <3>1. VotersFor(i, s)' = VotersFor(i, s)
      BY <1>11, <2>3
    <3>2. \A y \in VotersFor(i, s) : PowerOf(i)'[y] = PowerOf(i)[y]
      BY <1>11, <1>12, <1>13
    <3>3. Total(PowerOf(i)', VotersFor(i, s)) = Total(PowerOf(i), VotersFor(i, s))
      BY <1>13, <3>2, TotalSame
    <3>4. Total(PowerOf(i)', VotersFor(i, s)') = Total(PowerOf(i), VotersFor(i, s))
      BY <3>1, <3>3, Zenon
    <3>5. proposals'[i].tally[s] = proposals[i].tally[s]
      BY <1>7, <1>8, <2>3
    <3> QED
      BY <2>1, <3>4, <3>5
  <2> QED
    BY <2>2, <2>3
<1>15. ASSUME NEW b \in Users, votes'[i][b] # NotVoted
       PROVE  votes'[i][b].at \in proposals'[i].startBlock .. proposals'[i].endBlock
  <2>1. CASE b = u
    BY <1>4, <1>5, <1>6, <1>7, <1>8, <2>1
  <2>2. CASE b # u
    BY <1>6, <1>7, <1>8, <1>10, <1>15, <2>2 DEF Counted
  <2> QED
    BY <2>1, <2>2
<1>16. Counted(i)'
  BY <1>4, <1>7, <1>8, <1>14, <1>15 DEF Counted
<1>17. \A j \in DOMAIN proposals' : Counted(j)'
  BY <1>8, <1>16, CountedFrame, AllCounted DEF VotingInv
<1> QED
  BY <1>9, <1>17 DEF VotingInv, VotesCounted, Counted

(* Queueing and execution change the state of a proposal that succeeded.     *)
LEMMA SucceededInv ==
    ASSUME VotingInv, now \in Nat, NEW i \in 1 .. Len(proposals),
           QueueProposal(i) \/ ExecuteProposal(i)
    PROVE  VotingInv'
<1>1. PICK state \in {"Queued", "Executed"}, at \in Nat :
          /\ proposals' = [proposals EXCEPT ![i] =
                              [proposals[i] EXCEPT !.state = state, !.executedAt = at]]
          /\ state = "Executed" => at = now
  <2>1. proposals[i] \in ProposalSet
    BY ProposalElements DEF VotingInv
  <2>2. /\ proposals[i].executedAt \in Nat
        /\ [proposals[i] EXCEPT !.state = "Queued"] =
               [proposals[i] EXCEPT !.state = "Queued", !.executedAt = proposals[i].executedAt]
    BY <2>1 DEF ProposalSet
  <2>3. CASE QueueProposal(i)
    <3>1. proposals' = [proposals EXCEPT ![i] = [proposals[i] EXCEPT !.state = "Queued"]]
      BY <2>3 DEF QueueProposal
    <3> QED
      BY <2>2, <3>1
  <2>4. CASE ExecuteProposal(i)
    BY <2>4 DEF ExecuteProposal
  <2> QED
    BY <2>3, <2>4
<1> DEFINE new == [proposals[i] EXCEPT !.state = state, !.executedAt = at]
<1>2. /\ GetProposalState(i) = "Succeeded" /\ votes' = votes
      /\ votingDelay' = votingDelay /\ votingPeriod' = votingPeriod
      /\ quorumPercentage' = quorumPercentage
  BY DEF QueueProposal, ExecuteProposal, settings
<1>3. /\ proposals \in Seq(ProposalSet) /\ votes \in Seq([Users -> VoteSet])
      /\ Len(votes) = Len(proposals)
      /\ \A j \in DOMAIN proposals : proposals[j].startBlock <= proposals[j].endBlock
      /\ votingDelay \in Nat /\ votingPeriod \in Nat /\ quorumPercentage \in Nat
  BY GovernanceTypes DEF VotingInv
<1>4. i \in DOMAIN proposals /\ proposals[i] \in ProposalSet
  BY ProposalElements DEF VotingInv
<1>5. now > proposals[i].endBlock /\ proposals[i].tally["for"] > proposals[i].tally["against"]
  BY <1>2, <1>4, StateCases
<1>6. /\ new \in ProposalSet /\ new.startBlock = proposals[i].startBlock
      /\ new.endBlock = proposals[i].endBlock /\ new.tally = proposals[i].tally
      /\ new.state = state /\ new.executedAt = at
  BY <1>4 DEF ProposalSet
<1> HIDE DEF new
<1>7. /\ proposals' \in Seq(ProposalSet) /\ Len(proposals') = Len(proposals)
      /\ DOMAIN proposals' = DOMAIN proposals /\ proposals'[i] = new
      /\ \A j \in DOMAIN proposals : j # i => proposals'[j] = proposals[j]
  <2>1. proposals' = [proposals EXCEPT ![i] = new]
    BY <1>1 DEF new
  <2> QED
    BY <1>3, <1>4, <1>6, <2>1
<1>8. GovernanceTypeOK'
  <2>1. \A j \in DOMAIN proposals' : proposals'[j].startBlock <= proposals'[j].endBlock
    BY <1>3, <1>6, <1>7
  <2> QED
    BY <1>2, <1>3, <1>7, <2>1 DEF GovernanceTypeOK, ProposalSet, VoteSet
<1>9. Counted(i)'
  <2>1. Counted(i)
    BY <1>4, AllCounted DEF VotingInv
  <2>2. PowerOf(i)' = PowerOf(i) /\ \A s \in Supports : VotersFor(i, s)' = VotersFor(i, s)
    BY <1>2 DEF PowerOf, VotersFor
  <2>3. ASSUME NEW s \in Supports
        PROVE  proposals'[i].tally[s] = Total(PowerOf(i)', VotersFor(i, s)')
    <3>1. Total(PowerOf(i)', VotersFor(i, s)') = Total(PowerOf(i), VotersFor(i, s))
      BY <2>2, Zenon
    <3> QED
      BY <1>6, <1>7, <2>1, <3>1 DEF Counted
  <2> QED
    BY <1>1, <1>2, <1>5, <1>6, <1>7, <2>1, <2>3 DEF Counted
<1>10. \A j \in DOMAIN proposals' : Counted(j)'
  BY <1>2, <1>7, <1>9, CountedFrame, AllCounted DEF VotingInv
<1> QED
  BY <1>8, <1>10 DEF VotingInv, VotesCounted, Counted

LEMMA GovernanceStep ==
    ASSUME VotingInv, ReputationTypeOK, now \in Nat, GovernanceNext
    PROVE  VotingInv'
<1>1. votingDelay \in Nat /\ votingPeriod \in Nat /\ quorumPercentage \in Nat
  BY DEF VotingInv, GovernanceTypeOK
<1>2. CASE SetSetting
  BY <1>1, <1>2, GovernanceAssumption, ConfigureInv DEF SetSetting, Configure
<1> QED
  BY <1>2, CreateProposalInv, CastVoteInv, SucceededInv DEF GovernanceNext

-----------------------------------------------------------------------------
(* The contracts on one chain.                                               *)

AllInv == MarketInv /\ PaymentInv /\ ReputationInv /\ VotingInv

LEMMA AllIsInv == AllInv <=> MarketInv /\ PaymentInv /\ GovernanceInv
BY DEF AllInv, GovernanceInv, ReputationInv, VotingInv

LEMMA InitAll == Init => AllInv
BY MarketInitInv, PaymentInitInv, ReputationInitInv, VotingInitInv DEF Init, AllInv

(* What a contract that is not called keeps, also at a later time.           *)
LEMMA PaymentIdle ==
    ASSUME PaymentInv, UNCHANGED paymentVars, now' \in Nat PROVE PaymentInv'
<1>1. /\ registered' = registered /\ totalEarned' = totalEarned /\ payments' = payments
      /\ paymentFee' = paymentFee /\ vault' = vault /\ withdrawn' = withdrawn
      /\ settled' = settled
  BY DEF paymentVars
<1>2. PaymentTypeOK'
  BY <1>1 DEF PaymentInv, PaymentTypeOK
<1> QED
  BY <1>1, <1>2, PaymentFrame

LEMMA ReputationIdle ==
    ASSUME ReputationInv, UNCHANGED reputationVars, now' \in Nat PROVE ReputationInv'
<1>1. /\ score' = score /\ staked' = staked /\ stakes' = stakes /\ totalStaked' = totalStaked
      /\ slashPercentage' = slashPercentage /\ stakePool' = stakePool /\ reset' = reset
  BY DEF reputationVars
<1>2. ReputationTypeOK'
  <2>1. ReputationTypeOK
    BY DEF ReputationInv
  <2> QED
    BY <1>1, <2>1, ReputationTypes, ReputationTypesNext
<1> QED
  BY <1>1, <1>2, SameStakes

LEMMA GovernanceIdle == ASSUME VotingInv, UNCHANGED governanceVars PROVE VotingInv'
<1>1. votingDelay \in Nat /\ votingPeriod \in Nat /\ quorumPercentage \in Nat
  BY DEF VotingInv, GovernanceTypeOK
<1> QED
  BY <1>1, ConfigureInv DEF governanceVars

LEMMA NextAll == AllInv /\ [Next]_vars => AllInv'
<1> SUFFICES ASSUME AllInv, [Next]_vars PROVE AllInv'
  OBVIOUS
<1>1. MarketInv /\ PaymentInv /\ ReputationInv /\ VotingInv
  BY DEF AllInv
<1>2. now \in Nat /\ ReputationTypeOK
  BY <1>1 DEF PaymentInv, PaymentTypeOK, ReputationInv
<1>3. CASE MarketCall
  BY <1>1, <1>2, <1>3, MarketStep, PaymentIdle, ReputationIdle, GovernanceIdle
     DEF MarketCall, AllInv
<1>4. CASE PaymentCall
  <2>1. UNCHANGED marketVars
    BY <1>4 DEF PaymentCall
  <2> QED
    BY <1>1, <1>2, <1>4, <2>1, MarketFrame, PaymentStep, ReputationIdle, GovernanceIdle
       DEF PaymentCall, AllInv
<1>5. CASE ReputationCall
  BY <1>1, <1>2, <1>5, MarketFrame, PaymentIdle, ReputationStep, GovernanceIdle
     DEF ReputationCall, AllInv
<1>6. CASE GovernanceCall
  BY <1>1, <1>2, <1>6, MarketFrame, PaymentIdle, ReputationIdle, GovernanceStep
     DEF GovernanceCall, AllInv
<1>7. CASE NextBlock
  <2>1. now' \in Nat
    BY <1>2, <1>7 DEF NextBlock, Tick
  <2> QED
    BY <1>1, <1>7, <2>1, MarketFrame, PaymentIdle, ReputationIdle, GovernanceIdle
       DEF NextBlock, AllInv
<1>8. CASE UNCHANGED vars
  BY <1>1, <1>2, <1>8, MarketFrame, PaymentIdle, ReputationIdle, GovernanceIdle
     DEF vars, AllInv
<1> QED
  BY <1>3, <1>4, <1>5, <1>6, <1>7, <1>8 DEF Next

LEMMA SpecAll == Spec => []AllInv
BY InitAll, NextAll, PTL DEF Spec

(* The escrow holds the reward of every task that is not settled, and a      *)
(* reward leaves it once, all of it, at most a tenth of it to the platform   *)
(* (createTask, completeTask, cancelTask), whatever the agents, the rewards  *)
(* and the tokens.                                                           *)
THEOREM EscrowHolds == Spec => []MarketInv
BY SpecAll, PTL DEF AllInv

(* The vault holds every payment that is open, but for what the platform     *)
(* withdrew, and each payment is settled once, with its condition in time or *)
(* back to the payer after it (releasePayment, refundPayment).               *)
THEOREM VaultHolds == Spec => []PaymentInv
BY SpecAll, PTL DEF AllInv

(* What is staked is there, and the tally of a proposal is the power of the  *)
(* votes for it, one of each voter (stake, unstake, slash, castVote,         *)
(* executeProposal).                                                         *)
THEOREM StakesAndVotes == Spec => []GovernanceInv
<1>1. AllInv => GovernanceInv
  BY AllIsInv
<1> QED
  BY <1>1, SpecAll, PTL

-----------------------------------------------------------------------------
(* Recursion over the naturals, for the loop of BuildChunk.                  *)

LEMMA LeastNat ==
    ASSUME NEW T \in SUBSET Nat, T # {}
    PROVE  \E m \in T : \A k \in T : m <= k
<1> DEFINE F == {0 .. m : m \in T}
<1>1. F \subseteq FiniteSubsetsOf(Nat)
  <2>1. \A m \in T : IsFiniteSet(0 .. m) /\ 0 .. m \subseteq Nat
    BY FS_Interval
  <2> QED
    BY <2>1 DEF FiniteSubsetsOf
<1>2. F # {}
  OBVIOUS
<1>3. IsWellFoundedOn(StrictSubsetOrdering(Nat), FiniteSubsetsOf(Nat))
  BY FS_StrictSubsetOrderingWellFounded
<1> HIDE DEF F
<1>4. PICK x \in F : \A y \in F : <<y, x>> \notin StrictSubsetOrdering(Nat)
  BY <1>1, <1>2, <1>3, WFMin
<1>5. PICK m \in T : x = 0 .. m
  BY DEF F
<1>6. ASSUME NEW k \in T, k < m PROVE FALSE
  <2>1. 0 .. k \in F /\ 0 .. k \subseteq 0 .. m /\ m \notin 0 .. k /\ m \in 0 .. m
    BY <1>6 DEF F
  <2>2. <<0 .. k, x>> \in StrictSubsetOrdering(Nat)
    BY <1>5, <2>1 DEF StrictSubsetOrdering
  <2> QED
    BY <1>4, <2>1, <2>2
<1> QED
  BY <1>6

(* Induction.                                                                *)
LEMMA NatSet ==
    ASSUME NEW T \in SUBSET Nat, 0 \in T, \A n \in T : n + 1 \in T
    PROVE  T = Nat
<1>1. SUFFICES ASSUME Nat \ T # {} PROVE FALSE
  OBVIOUS
<1>2. PICK m \in Nat \ T : \A k \in Nat \ T : m <= k
  BY <1>1, LeastNat
<1>3. m # 0 /\ m - 1 \in Nat
  BY <1>2
<1>4. m - 1 \in T
  BY <1>2, <1>3
<1> QED
  BY <1>2, <1>4

(* The first n steps of a recursion over the naturals.                       *)
Steps(a, G, n, g) == g[0] = a /\ \A i \in 1 .. n : g[i] = G[i][g[i - 1]]

LEMMA StepsExist ==
    ASSUME NEW D, NEW a \in D, NEW G \in [Nat -> [D -> D]], NEW n \in Nat
    PROVE  \E g \in [0 .. n -> D] : Steps(a, G, n, g)
<1> DEFINE T == {k \in Nat : \E g \in [0 .. k -> D] : Steps(a, G, k, g)}
<1>1. 0 \in T
  <2> DEFINE g == [i \in 0 .. 0 |-> a]
  <2>1. g \in [0 .. 0 -> D]
    OBVIOUS
  <2>2. g[0] = a
    OBVIOUS
  <2> HIDE DEF g
  <2>3. Steps(a, G, 0, g)
    BY <2>2 DEF Steps
  <2> QED
    BY <2>1, <2>3
<1>2. ASSUME NEW k \in T PROVE k + 1 \in T
  <2>1. k \in Nat /\ \E g \in [0 .. k -> D] : Steps(a, G, k, g)
    OBVIOUS
  <2>2. PICK g \in [0 .. k -> D] : Steps(a, G, k, g)
    BY <2>1
  <2> DEFINE h == [i \in 0 .. k + 1 |-> IF i = k + 1 THEN G[k + 1][g[k]] ELSE g[i]]
  <2>3. h \in [0 .. k + 1 -> D]
    BY <2>1
  <2>4. /\ \A i \in 0 .. k : h[i] = g[i]
        /\ h[k + 1] = G[k + 1][g[k]]
    BY <2>1
  <2> HIDE DEF h
  <2>5. h[0] = a
    BY <2>1, <2>2, <2>4 DEF Steps
  <2>6. ASSUME NEW i \in 1 .. k + 1 PROVE h[i] = G[i][h[i - 1]]
    <3>1. CASE i = k + 1
      BY <2>1, <2>4, <3>1
    <3>2. CASE i # k + 1
      <4>1. i \in 1 .. k /\ i \in 0 .. k /\ i - 1 \in 0 .. k
        BY <2>1, <3>2
      <4> QED
        BY <2>2, <2>4, <4>1 DEF Steps
    <3> QED
      BY <3>1, <3>2
  <2>7. Steps(a, G, k + 1, h)
    BY <2>5, <2>6 DEF Steps
  <2> QED
    BY <2>1, <2>3, <2>7
<1>3. T \in SUBSET Nat
  OBVIOUS
<1> HIDE DEF T
<1>4. T = Nat
  BY <1>1, <1>2, <1>3, NatSet
<1> QED
  BY <1>4 DEF T

-----------------------------------------------------------------------------
(* The sequencer                                                             *)

LEMMA SequencerTypes ==
    /\ Times \subseteq Nat /\ Window \in Nat
    /\ Chunks \subseteq [producer : Producers, expiry : Nat, txs : SUBSET Txs]
    /\ IsFiniteSet(Chunks) /\ NoChunk \notin Chunks
    /\ LocalChunks \subseteq Chunks /\ RemoteChunks \subseteq Chunks
<1>1. Times \subseteq Nat /\ Window \in Nat
  BY BlockAssumption
<1>2. LocalChunks \subseteq Chunks /\ RemoteChunks \subseteq Chunks
  BY DEF Chunks
<1>3. LocalChunks \subseteq [producer : {Self}, expiry : Nat, txs : SUBSET Txs]
  BY ChunkAssumption DEF LocalChunks
<1>4. \E P : RemoteChunks \subseteq [producer : P, expiry : Nat, txs : SUBSET Txs]
  BY ChunkAssumption, Zenon
<1>5. ASSUME NEW c \in Chunks
      PROVE  c \in [producer : Producers, expiry : Nat, txs : SUBSET Txs] /\ c # NoChunk
  <2>1. c.producer \in Producers
    BY DEF Producers
  <2>2. CASE c \in LocalChunks
    BY <1>3, <2>1, <2>2 DEF NoChunk
  <2>3. CASE c \in RemoteChunks
    BY <1>4, <2>1, <2>3 DEF NoChunk
  <2> QED
    BY <2>2, <2>3 DEF Chunks
<1>6. IsFiniteSet(LocalChunks)
  <2> DEFINE chunk == [s \in SUBSET Txs |-> [producer |-> Self, expiry |-> ChunkExpiry, txs |-> s]]
             S == {chunk[s] : s \in SUBSET Txs}
  <2>1. IsFiniteSet(SUBSET Txs)
    BY ChunkAssumption, FS_SUBSET
  <2>2. chunk \in Surjection(SUBSET Txs, S)
    BY DEF Surjection
  <2>3. IsFiniteSet(S)
    <3> HIDE DEF chunk, S
    <3> QED
      BY <2>1, <2>2, FS_Surjection
  <2>4. LocalChunks \subseteq S
    BY DEF LocalChunks
  <2> QED
    BY <2>3, <2>4, FS_Subset
<1>7. IsFiniteSet(Chunks)
  BY <1>6, ChunkAssumption, FS_Union DEF Chunks
<1> QED
  BY <1>1, <1>2, <1>5, <1>7

(* What TypeOK says of the blocks.                                           *)
LEMMA BlockTypes ==
    ASSUME TypeOK
    PROVE  /\ Len(chain) \in Nat /\ blk \in Nat /\ saved \in Nat
           /\ saved <= blk /\ blk <= Len(chain)
           /\ Timestamp(0) = 0 /\ Certs(0) = {}
           /\ \A h \in 0 .. Len(chain) : Timestamp(h) \in Nat /\ Certs(h) \subseteq Chunks
           /\ \A h \in 1 .. Len(chain) : Timestamp(h) = chain[h].ts /\ Certs(h) = chain[h].certs
<1>1. /\ chain \in Seq([ts : Times, certs : SUBSET Chunks]) /\ Len(chain) \in Nat
      /\ saved \in 0 .. blk /\ blk \in 0 .. Len(chain)
  BY DEF TypeOK
<1>2. Timestamp(0) = 0 /\ Certs(0) = {}
  BY DEF Timestamp, Certs
<1>3. \A h \in 1 .. Len(chain) :
          /\ Timestamp(h) = chain[h].ts /\ Certs(h) = chain[h].certs
          /\ chain[h] \in [ts : Times, certs : SUBSET Chunks]
  <2>1. PICK B : B = [ts : Times, certs : SUBSET Chunks]
    OBVIOUS
  <2>2. chain \in Seq(B)
    BY <1>1, <2>1, Zenon
  <2>3. \A h \in 1 .. Len(chain) : h # 0 /\ chain[h] \in B
    BY <2>2
  <2> QED
    BY <2>1, <2>3 DEF Timestamp, Certs
<1>4. \A h \in 1 .. Len(chain) : Timestamp(h) \in Nat /\ Certs(h) \subseteq Chunks
  BY <1>3, SequencerTypes
<1>5. \A h \in 0 .. Len(chain) : h = 0 \/ h \in 1 .. Len(chain)
  BY <1>1
<1>6. \A h \in 0 .. Len(chain) : Timestamp(h) \in Nat /\ Certs(h) \subseteq Chunks
  BY <1>2, <1>4, <1>5
<1> QED
  BY <1>1, <1>2, <1>3, <1>6

(* The sizes of the chunks of a producer.                                    *)
OfProducer(S, p) == {c \in S : c.producer = p}

LEMMA SizesGrow ==
    ASSUME NEW S \in SUBSET Chunks, NEW c \in Chunks, NEW p
    PROVE  /\ Cardinality(OfProducer(S, p)) \in Nat
           /\ Cardinality(OfProducer(S \cup {c}, p)) =
                 Cardinality(OfProducer(S, p)) + (IF c \notin S /\ p = c.producer THEN 1 ELSE 0)
<1>1. IsFiniteSet(S)
  BY SequencerTypes, FS_Subset
<1>2. IsFiniteSet(OfProducer(S, p))
  BY <1>1, FS_Subset DEF OfProducer
<1>3. Cardinality(OfProducer(S, p)) \in Nat
  BY <1>2, FS_CardinalityType
<1>4. CASE c \notin S /\ p = c.producer
  <2>1. OfProducer(S \cup {c}, p) = OfProducer(S, p) \cup {c} /\ c \notin OfProducer(S, p)
    BY <1>4 DEF OfProducer
  <2> QED
    BY <1>2, <1>3, <1>4, <2>1, FS_AddElement
<1>5. CASE ~(c \notin S /\ p = c.producer)
  <2>1. OfProducer(S \cup {c}, p) = OfProducer(S, p)
    BY <1>5 DEF OfProducer
  <2> QED
    BY <1>3, <1>5, <2>1
<1> QED
  BY <1>3, <1>4, <1>5

LEMMA SizesShrink ==
    ASSUME NEW S \in SUBSET Chunks, NEW R, NEW p
    PROVE  /\ Cardinality(OfProducer(S, p)) \in Nat
           /\ Cardinality(OfProducer(S \ R, p)) \in Nat
           /\ Cardinality(OfProducer(S \ R, p)) =
                 Cardinality(OfProducer(S, p)) - Cardinality(OfProducer(R \cap S, p))
<1>1. IsFiniteSet(S)
  BY SequencerTypes, FS_Subset
<1>2. IsFiniteSet(OfProducer(S, p)) /\ IsFiniteSet(OfProducer(R \cap S, p))
  BY <1>1, FS_Subset DEF OfProducer
<1>3. OfProducer(S \ R, p) = OfProducer(S, p) \ OfProducer(R \cap S, p)
      /\ OfProducer(S, p) \cap OfProducer(R \cap S, p) = OfProducer(R \cap S, p)
  BY DEF OfProducer
<1>4. /\ IsFiniteSet(OfProducer(S \ R, p))
      /\ Cardinality(OfProducer(S \ R, p)) =
            Cardinality(OfProducer(S, p)) - Cardinality(OfProducer(R \cap S, p))
  BY <1>2, <1>3, FS_Difference
<1> QED
  BY <1>2, <1>4, FS_CardinalityType

-----------------------------------------------------------------------------
(* What a step leaves as it is keeps its part of the invariant.              *)

LEMMA ChainSame ==
    ASSUME UNCHANGED chain
    PROVE  /\ \A h : Timestamp(h)' = Timestamp(h) /\ Certs(h)' = Certs(h)
           /\ Len(chain)' = Len(chain)
  BY DEF Timestamp, Certs

LEMMA SizesSame == SizesExact /\ UNCHANGED <<sizes, pending>> => SizesExact'
  BY DEF SizesExact

LEMMA NetworkSame == ChainInv /\ UNCHANGED <<chain, certified>> => ChainInv'
  BY ChainSame DEF ChainInv

LEMMA SignedSame ==
    ASSUME SignedKept, UNCHANGED <<signed, chain>>,
           pendingDB \cup acceptedDB \subseteq pendingDB' \cup acceptedDB'
    PROVE  SignedKept'
  BY ChainSame DEF SignedKept

(* A step that changes only what the invariant says nothing about.           *)
LEMMA QuietStep ==
    ASSUME DsmrInv, TypeOK',
           UNCHANGED <<chain, certified, disk, blk, storage, up, signed>>,
           \/ accept' = accept
           \/ up /\ {accept, accept'} \in SUBSET {"idle", "fetch"}
           \/ up /\ {accept, accept'} \in SUBSET {"saved", "released"}
    PROVE  DsmrInv'
<1>1. UNCHANGED <<chain, certified, saved, pendingDB, acceptedDB, blk, pending, certs, emap,
                  sizes, up, signed>>
  BY DEF disk, storage
<1>2. PendingIsDurable'
  BY <1>1 DEF DsmrInv, PendingIsDurable
<1>3. AcceptInv'
  <2>1. AcceptInv /\ (accept' \in {"saved", "released"} <=> accept \in {"saved", "released"})
        /\ (~up => accept' = "idle" /\ pending = {})
    BY DEF DsmrInv, AcceptInv
  <2>2. blk = saved + (IF accept' \in {"saved", "released"} THEN 1 ELSE 0)
    BY <2>1, Zenon DEF AcceptInv
  <2> QED
    BY <1>1, <2>1, <2>2, ChainSame DEF AcceptInv
<1>4. SignedKept'
  BY <1>1, SignedSame DEF DsmrInv
<1> QED
  BY <1>1, <1>2, <1>3, <1>4, SizesSame, NetworkSame DEF DsmrInv

-----------------------------------------------------------------------------
(* The network                                                               *)

(* A block joins the chain.                                                  *)
LEMMA Appended ==
    ASSUME TypeOK, NEW t \in Times, NEW cs \in SUBSET Chunks,
           chain' = Append(chain, [ts |-> t, certs |-> cs])
    PROVE  /\ Len(chain)' = Len(chain) + 1
           /\ chain' \in Seq([ts : Times, certs : SUBSET Chunks])
           /\ \A h \in 0 .. Len(chain) : Timestamp(h)' = Timestamp(h) /\ Certs(h)' = Certs(h)
           /\ \A h : h = Len(chain) + 1 => Timestamp(h)' = t /\ Certs(h)' = cs
<1>1. chain \in Seq([ts : Times, certs : SUBSET Chunks]) /\ Len(chain) \in Nat
  BY BlockTypes DEF TypeOK
<1>2. PICK b \in [ts : Times, certs : SUBSET Chunks] : b = [ts |-> t, certs |-> cs]
  OBVIOUS
<1>3. b.ts = t /\ b.certs = cs /\ chain' = Append(chain, b)
  BY <1>2
<1>4. /\ Len(chain') = Len(chain) + 1 /\ chain' \in Seq([ts : Times, certs : SUBSET Chunks])
      /\ \A h \in 1 .. Len(chain) : chain'[h] = chain[h]
      /\ chain'[Len(chain) + 1] = b
  BY <1>1, <1>3
<1>5. \A h \in 0 .. Len(chain) : h = 0 \/ h \in 1 .. Len(chain)
  BY <1>1
<1>6. \A h \in 0 .. Len(chain) : Timestamp(h)' = Timestamp(h) /\ Certs(h)' = Certs(h)
  BY <1>4, <1>5 DEF Timestamp, Certs
<1>7. ASSUME NEW h, h = Len(chain) + 1 PROVE Timestamp(h)' = t /\ Certs(h)' = cs
  <2>1. h # 0
    BY <1>1, <1>7
  <2> QED
    BY <1>3, <1>4, <1>7, <2>1 DEF Timestamp, Certs
<1> QED
  BY <1>4, <1>6, <1>7

LEMMA AppendInv ==
    ASSUME DsmrInv, NEW t \in Times, NEW cs, cs \subseteq certified, AppendBlock(t, cs),
           UNCHANGED <<certified, disk, blk, storage, min, requests, building, accept, fetching,
                       up, history>>
    PROVE  DsmrInv'
<1>1. UNCHANGED <<certified, saved, pendingDB, acceptedDB, blk, pending, certs, emap, sizes, min,
                  requests, building, accept, fetching, up, signed, restarts>>
  BY DEF disk, storage, history
<1>2. TypeOK /\ ChainInv /\ AcceptInv /\ SignedKept /\ SizesExact /\ PendingIsDurable
  BY DEF DsmrInv
<1>3. cs \in SUBSET Chunks
  BY <1>2 DEF TypeOK
<1>4. PICK n \in Nat : n = Len(chain)
  BY <1>2, BlockTypes
<1>5. /\ t > Timestamp(n) /\ cs \cap AcceptedTo(n) = {}
      /\ chain' = Append(chain, [ts |-> t, certs |-> cs])
  BY <1>4 DEF AppendBlock
<1>6. /\ Len(chain)' = n + 1
      /\ chain' \in Seq([ts : Times, certs : SUBSET Chunks])
      /\ \A h \in 0 .. n : Timestamp(h)' = Timestamp(h) /\ Certs(h)' = Certs(h)
      /\ Timestamp(n + 1)' = t /\ Certs(n + 1)' = cs
  BY <1>2, <1>3, <1>4, <1>5, Appended
<1>7. /\ blk \in Nat /\ saved \in Nat /\ saved <= blk /\ blk <= n /\ t \in Nat /\ Window \in Nat
      /\ \A h \in 0 .. n : Timestamp(h) \in Nat /\ Certs(h) \subseteq Chunks
  BY <1>2, <1>4, BlockTypes, SequencerTypes
<1>8. \A c \in Chunks : c.expiry \in Nat
  BY SequencerTypes
<1>9. \A h \in 1 .. n : cs \cap Certs(h) = {}
  <2>1. \A h \in 1 .. n : h \in 0 .. n
    OBVIOUS
  <2> QED
    BY <1>5, <2>1 DEF AcceptedTo
<1>10. TypeOK'
  <2>1. blk' \in 0 .. Len(chain)' /\ saved' \in 0 .. blk'
    BY <1>1, <1>6, <1>7
  <2> QED
    BY <1>1, <1>2, <1>6, <2>1 DEF TypeOK
<1>11. \A h \in 0 .. n + 1 : h \in 0 .. n \/ h = n + 1
  OBVIOUS
<1>12. ChainInv'
  <2>1. /\ \A g \in 0 .. n, h \in 1 .. n : g < h => Timestamp(g) < Timestamp(h)
        /\ \A h \in 1 .. n : \A c \in Certs(h) :
               c \in certified /\ c.expiry <= Timestamp(h - 1) + Window
        /\ \A g, h \in 1 .. n : g # h => Certs(g) \cap Certs(h) = {}
        /\ \A c \in certified : c \in Chunks /\ c.expiry <= Timestamp(n) + Window
    BY <1>2, <1>4 DEF ChainInv, TypeOK
  <2>2. \A g \in 0 .. n : Timestamp(g) < t
    <3>1. \A g \in 0 .. n : g < n => Timestamp(g) < Timestamp(n)
      BY <2>1
    <3> QED
      BY <1>5, <1>7, <3>1
  <2>3. ASSUME NEW g \in 0 .. n + 1, NEW h \in 1 .. n + 1, g < h
        PROVE  Timestamp(g)' < Timestamp(h)'
    <3>1. CASE h = n + 1
      BY <1>6, <2>2, <2>3, <3>1
    <3>2. CASE h # n + 1
      <4>1. g \in 0 .. n /\ h \in 1 .. n /\ h \in 0 .. n
        BY <2>3, <3>2
      <4> QED
        BY <1>6, <2>1, <2>3, <4>1
    <3> QED
      BY <3>1, <3>2
  <2>4. ASSUME NEW h \in 1 .. n + 1, NEW c \in Certs(h)'
        PROVE  c \in certified /\ c.expiry <= Timestamp(h - 1)' + Window
    <3>1. CASE h = n + 1
      <4>1. h - 1 = n /\ n \in 0 .. n
        BY <3>1
      <4> QED
        BY <1>6, <2>1, <2>4, <3>1, <4>1
    <3>2. CASE h # n + 1
      <4>1. h \in 1 .. n /\ h \in 0 .. n /\ h - 1 \in 0 .. n
        BY <3>2
      <4> QED
        BY <1>6, <2>1, <2>4, <4>1
    <3> QED
      BY <3>1, <3>2
  <2>5. ASSUME NEW g \in 1 .. n + 1, NEW h \in 1 .. n + 1, g # h
        PROVE  Certs(g)' \cap Certs(h)' = {}
    <3>1. /\ (g \in 1 .. n /\ g \in 0 .. n) \/ g = n + 1
          /\ (h \in 1 .. n /\ h \in 0 .. n) \/ h = n + 1
      OBVIOUS
    <3> QED
      BY <1>6, <1>9, <2>1, <2>5, <3>1
  <2>6. \A c \in certified : c.expiry <= t + Window
    <3>1. Timestamp(n) \in Nat /\ Timestamp(n) < t
      BY <1>7, <2>2
    <3> QED
      BY <1>7, <1>8, <2>1, <3>1
  <2> QED
    BY <1>1, <1>6, <2>3, <2>4, <2>5, <2>6 DEF ChainInv
<1>13. AcceptInv'
  <2>1. \A h \in 1 .. blk : h \in 0 .. n /\ Certs(h)' = Certs(h)
    BY <1>6, <1>7
  <2>2. \A c \in acceptedDB : \E h \in 1 .. n : h <= saved + 1 /\ c \in Certs(h)
    BY <1>2, <1>4 DEF AcceptInv
  <2>3. acceptedDB \subseteq UNION {Certs(h)' : h \in {g \in 1 .. n + 1 : g <= saved + 1}}
    <3>1. \A h \in 1 .. n : h \in 1 .. n + 1 /\ Certs(h)' = Certs(h)
      BY <1>6
    <3> QED
      BY <2>2, <3>1
  <2>4. /\ acceptedDB \cap Certs(saved + 1)' \subseteq pendingDB
        /\ up /\ blk = saved => acceptedDB \cap Certs(saved + 1)' \subseteq pending
    <3>1. CASE saved < n
      <4>1. Certs(saved + 1)' = Certs(saved + 1)
        <5>1. saved + 1 \in 0 .. n
          BY <1>7, <3>1
        <5> QED
          BY <1>1, <1>6, <5>1
      <4> QED
        BY <1>2, <1>4, <3>1, <4>1 DEF AcceptInv
    <3>2. CASE saved = n
      <4>1. acceptedDB \cap cs = {}
        BY <1>9, <2>2
      <4>2. Certs(saved + 1)' = cs
        BY <1>1, <1>6, <3>2
      <4> QED
        BY <4>1, <4>2
    <3> QED
      BY <1>7, <3>1, <3>2
  <2> QED
    BY <1>1, <1>2, <1>6, <2>1, <2>3, <2>4 DEF AcceptInv
<1>14. SignedKept'
  <2>1. ASSUME NEW c \in signed, c.expiry >= t PROVE c \in pendingDB \cup acceptedDB
    <3>1. c \in Chunks
      BY <1>2, SequencerTypes DEF TypeOK
    <3>2. c.expiry >= Timestamp(n)
      BY <1>5, <1>7, <1>8, <2>1, <3>1
    <3> QED
      BY <1>2, <1>4, <3>2 DEF SignedKept
  <2> QED
    BY <1>1, <1>6, <2>1 DEF SignedKept
<1>15. PendingIsDurable'
  BY <1>1, <1>2 DEF PendingIsDurable
<1> QED
  BY <1>1, <1>2, <1>10, <1>12, <1>13, <1>14, <1>15, SizesSame DEF DsmrInv

(* Another chunk gets a certificate.                                         *)
LEMMA CertifyInv ==
    ASSUME DsmrInv, NEW c \in Chunks, Signable(c), certified' = certified \cup {c},
           UNCHANGED <<chain, disk, blk, storage, min, requests, building, accept, fetching, up,
                       history>>
    PROVE  DsmrInv'
<1>1. UNCHANGED <<chain, saved, pendingDB, acceptedDB, blk, pending, certs, emap, sizes, min,
                  requests, building, accept, fetching, up, signed, restarts>>
  BY DEF disk, storage, history
<1>2. TypeOK /\ ChainInv /\ AcceptInv /\ SignedKept /\ SizesExact /\ PendingIsDurable
  BY DEF DsmrInv
<1>3. TypeOK'
  BY <1>1, <1>2 DEF TypeOK
<1>4. c.expiry <= Timestamp(Len(chain)) + Window
  <2>1. PICK n \in Nat : n = Len(chain)
    BY <1>2, BlockTypes
  <2>2. PICK h \in 0 .. n : c.expiry <= Timestamp(h) + Window
    BY <2>1 DEF Signable
  <2>3. Timestamp(h) <= Timestamp(n)
    <3>1. CASE h = n
      BY <1>2, <2>1, <3>1, BlockTypes
    <3>2. CASE h # n
      <4>1. n \in 1 .. n /\ h < n
        BY <3>2
      <4>2. Timestamp(h) < Timestamp(n)
        BY <1>2, <2>1, <4>1 DEF ChainInv
      <4>3. Timestamp(h) \in Nat /\ Timestamp(n) \in Nat
        BY <1>2, <2>1, BlockTypes
      <4> QED
        BY <4>2, <4>3
    <3> QED
      BY <3>1, <3>2
  <2>4. Timestamp(h) \in Nat /\ Timestamp(n) \in Nat /\ Window \in Nat /\ c.expiry \in Nat
    BY <1>2, <2>1, BlockTypes, SequencerTypes
  <2> QED
    BY <2>1, <2>2, <2>3, <2>4
<1>5. ChainInv'
  BY <1>1, <1>2, <1>4, ChainSame DEF ChainInv
<1>6. AcceptInv'
  BY <1>1, <1>2, ChainSame DEF AcceptInv
<1>7. PendingIsDurable'
  BY <1>1, <1>2 DEF PendingIsDurable
<1> QED
  BY <1>1, <1>2, <1>3, <1>5, <1>6, <1>7, SizesSame, SignedSame DEF DsmrInv

-----------------------------------------------------------------------------
(* Chunks                                                                    *)

(* A chunk is stored.                                                        *)
LEMMA PutInv ==
    ASSUME DsmrInv, up, NEW c \in Chunks, NEW w \in BOOLEAN, w => c \in certified,
           PutVerifiedChunk(c, w), TypeOK',
           UNCHANGED <<chain, certified, saved, acceptedDB, blk, accept, up>>,
           signed' = signed \/ signed' = signed \cup {c}
    PROVE  DsmrInv'
<1>1. TypeOK /\ ChainInv /\ AcceptInv /\ SignedKept /\ SizesExact /\ PendingIsDurable
  BY DEF DsmrInv
<1>2. /\ pendingDB' = pendingDB \cup {c} /\ emap' = emap \cup {c} /\ pending' = pending \cup {c}
      /\ certs' = certs \/ (certs' = certs \cup {c} /\ c \in certified)
      /\ sizes' = IF c \in pending THEN sizes
                  ELSE [sizes EXCEPT ![c.producer] = sizes[c.producer] + 1]
  BY DEF PutVerifiedChunk
<1>3. SizesExact'
  <2>1. pending \in SUBSET Chunks /\ sizes \in [Producers -> Nat] /\ c.producer \in Producers
    BY <1>1 DEF TypeOK, Producers
  <2>2. ASSUME NEW p \in Producers
        PROVE  sizes'[p] = Cardinality(OfProducer(pending \cup {c}, p))
    <3>1. sizes[p] = Cardinality(OfProducer(pending, p))
      BY <1>1 DEF SizesExact, OfProducer
    <3>2. sizes'[p] = sizes[p] + (IF c \notin pending /\ p = c.producer THEN 1 ELSE 0)
      BY <1>2, <2>1
    <3> QED
      BY <2>1, <3>1, <3>2, SizesGrow
  <2> QED
    BY <1>2, <2>2 DEF SizesExact, OfProducer
<1>4. PendingIsDurable'
  BY <1>1, <1>2 DEF PendingIsDurable
<1>5. AcceptInv'
  BY <1>1, <1>2, ChainSame DEF AcceptInv
<1>6. SignedKept'
  BY <1>1, <1>2, ChainSame DEF SignedKept
<1> QED
  BY <1>1, <1>3, <1>4, <1>5, <1>6, NetworkSame DEF DsmrInv

(* The process ends, perhaps after it wrote a chunk.                         *)
LEMMA LoseInv ==
    ASSUME DsmrInv, LoseMemory, UNCHANGED <<saved, acceptedDB, chain, certified, signed>>,
           pendingDB \subseteq pendingDB', pendingDB' \subseteq Chunks, restarts' \in Nat
    PROVE  DsmrInv'
<1>1. TypeOK /\ ChainInv /\ AcceptInv /\ SignedKept /\ SizesExact /\ PendingIsDurable
  BY DEF DsmrInv
<1>2. /\ up' = FALSE /\ blk' = saved /\ min' = 0 /\ requests' = {} /\ building' = NoChunk
      /\ accept' = "idle" /\ fetching' = NoChunk /\ pending' = {} /\ certs' = {} /\ emap' = {}
      /\ sizes' = [p \in Producers |-> 0]
  BY DEF LoseMemory
<1>3. /\ saved \in Nat /\ blk \in Nat /\ Len(chain) \in Nat /\ saved <= blk /\ blk <= Len(chain)
  BY <1>1, BlockTypes
<1>4. TypeOK'
  <2>1. saved' \in 0 .. blk' /\ blk' \in 0 .. Len(chain)'
    BY <1>2, <1>3
  <2> QED
    BY <1>1, <1>2, <2>1 DEF TypeOK
<1>5. SizesExact'
  <2>1. \A p : {c \in {} : c.producer = p} = {}
    OBVIOUS
  <2> QED
    BY <1>2, <2>1, FS_EmptySet DEF SizesExact
<1>6. PendingIsDurable'
  BY <1>2 DEF PendingIsDurable
<1>7. AcceptInv'
  <2>1. \A h \in 1 .. saved : h \in 1 .. blk
    BY <1>3
  <2>2. blk' = saved' + 0
    BY <1>2, <1>3
  <2> QED
    BY <1>1, <1>2, <2>1, <2>2, ChainSame DEF AcceptInv
<1>8. SignedKept'
  BY <1>1, SignedSame
<1> QED
  BY <1>1, <1>4, <1>5, <1>6, <1>7, <1>8, NetworkSame DEF DsmrInv

LEMMA RestartInv ==
    ASSUME DsmrInv, Restart
    PROVE  DsmrInv'
<1>1. TypeOK /\ ChainInv /\ AcceptInv /\ SignedKept /\ SizesExact /\ PendingIsDurable
  BY DEF DsmrInv
<1>2. /\ ~up /\ up' = TRUE /\ pending' = pendingDB /\ emap' = pendingDB
      /\ sizes' = [p \in Producers |-> Cardinality(OfProducer(pendingDB, p))]
      /\ UNCHANGED <<chain, certified, saved, pendingDB, acceptedDB, blk, certs, min, requests,
                     building, accept, fetching, signed, restarts>>
  BY DEF Restart, network, disk, history, OfProducer
<1>3. certs = {} /\ pendingDB \in SUBSET Chunks
  BY <1>1, <1>2 DEF TypeOK, AcceptInv
<1>4. \A p : Cardinality(OfProducer(pendingDB, p)) \in Nat
  BY <1>3, SizesShrink
<1>5. TypeOK'
  <2>1. sizes' \in [Producers -> Nat]
    BY <1>2, <1>4
  <2> QED
    BY <1>1, <1>2, <1>3, <2>1 DEF TypeOK
<1>6. SizesExact'
  BY <1>2 DEF SizesExact, OfProducer
<1>7. PendingIsDurable'
  BY <1>2 DEF PendingIsDurable
<1>8. AcceptInv'
  BY <1>1, <1>2, ChainSame DEF AcceptInv
<1>9. SignedKept'
  BY <1>1, <1>2, SignedSame
<1> QED
  BY <1>1, <1>2, <1>5, <1>6, <1>7, <1>8, <1>9, NetworkSame DEF DsmrInv

LEMMA SetChunkCertInv ==
    ASSUME DsmrInv, NEW c, SetChunkCert(c)
    PROVE  DsmrInv'
<1>1. TypeOK /\ ChainInv /\ AcceptInv /\ SignedKept /\ SizesExact /\ PendingIsDurable
  BY DEF DsmrInv
<1>2. /\ c \in pending /\ c \in certified /\ certs' = certs \cup {c}
      /\ UNCHANGED <<chain, certified, saved, pendingDB, acceptedDB, blk, pending, emap, sizes,
                     min, requests, building, accept, fetching, up, signed, restarts>>
  BY DEF SetChunkCert, VerifyCertificate, network, disk, history
<1>3. TypeOK'
  BY <1>1, <1>2 DEF TypeOK
<1>4. PendingIsDurable'
  BY <1>1, <1>2 DEF PendingIsDurable
<1>5. AcceptInv'
  BY <1>1, <1>2, ChainSame DEF AcceptInv
<1> QED
  BY <1>1, <1>2, <1>3, <1>4, <1>5, SizesSame, NetworkSame, SignedSame DEF DsmrInv

-----------------------------------------------------------------------------
(* Accept                                                                    *)

LEMMA AcceptBlockInv ==
    ASSUME DsmrInv, AcceptBlock
    PROVE  DsmrInv'
<1>1. TypeOK /\ ChainInv /\ AcceptInv /\ SignedKept /\ SizesExact /\ PendingIsDurable
  BY DEF DsmrInv
<1>2. PICK t, save, expired :
         /\ t = Timestamp(blk + 1) /\ save = Certs(blk + 1)
         /\ expired = {c \in emap : c.expiry < t}
  OBVIOUS
<1>3. /\ up /\ accept = "idle" /\ blk < Len(chain) /\ saved = blk /\ save \subseteq pending
      /\ acceptedDB' = acceptedDB \cup save
      /\ pending' = pending \ (save \cup expired) /\ certs' = certs \ (save \cup expired)
      /\ sizes' = [p \in Producers |->
                     sizes[p] - Cardinality(OfProducer((save \cup expired) \cap pending, p))]
      /\ emap' = emap \ expired
      /\ pendingDB' = pendingDB \ (expired \cap (pending \ save))
      /\ min' = t /\ blk' = blk + 1 /\ accept' = "saved"
      /\ UNCHANGED <<chain, certified, saved, requests, building, fetching, up, signed, restarts>>
  BY <1>2 DEF AcceptBlock, SetMin, Discard, network, history, OfProducer
<1>4. /\ blk \in Nat /\ Len(chain) \in Nat /\ blk + 1 \in 1 .. Len(chain)
      /\ t \in Nat /\ save \subseteq Chunks
  <2>1. blk \in Nat /\ Len(chain) \in Nat
    BY <1>1, BlockTypes
  <2>2. blk + 1 \in 1 .. Len(chain) /\ blk + 1 \in 0 .. Len(chain)
    BY <1>3, <2>1
  <2> QED
    BY <1>1, <1>2, <2>1, <2>2, BlockTypes
<1>5. pending \in SUBSET Chunks /\ sizes \in [Producers -> Nat]
  BY <1>1 DEF TypeOK
<1>6. ASSUME NEW p \in Producers
      PROVE  sizes'[p] \in Nat /\ sizes'[p] = Cardinality(OfProducer(pending', p))
  <2>1. sizes[p] = Cardinality(OfProducer(pending, p))
    BY <1>1 DEF SizesExact, OfProducer
  <2>2. sizes'[p] = sizes[p] - Cardinality(OfProducer((save \cup expired) \cap pending, p))
    BY <1>3
  <2>3. /\ Cardinality(OfProducer(pending \ (save \cup expired), p)) \in Nat
        /\ Cardinality(OfProducer(pending \ (save \cup expired), p)) =
              Cardinality(OfProducer(pending, p))
              - Cardinality(OfProducer((save \cup expired) \cap pending, p))
    BY <1>5, SizesShrink
  <2> QED
    BY <1>3, <2>1, <2>2, <2>3
<1>7. TypeOK'
  <2>1. sizes' \in [Producers -> Nat]
    BY <1>3, <1>6
  <2>2. saved' \in 0 .. blk' /\ blk' \in 0 .. Len(chain)'
    BY <1>3, <1>4
  <2>3. {pendingDB, acceptedDB, pending, emap}' \subseteq SUBSET Chunks /\ certs' \subseteq pending'
    BY <1>1, <1>3, <1>4 DEF TypeOK
  <2> QED
    BY <1>1, <1>3, <1>4, <2>1, <2>2, <2>3 DEF TypeOK
<1>8. SizesExact'
  BY <1>6 DEF SizesExact, OfProducer
<1>9. PendingIsDurable'
  BY <1>1, <1>3 DEF PendingIsDurable
<1>10. AcceptInv'
  <2>1. ASSUME NEW h \in 1 .. blk + 1 PROVE Certs(h) \subseteq acceptedDB \cup save
    <3>1. CASE h = blk + 1
      BY <1>2, <3>1
    <3>2. CASE h # blk + 1
      <4>1. h \in 1 .. blk
        BY <1>4, <3>2
      <4> QED
        BY <1>1, <4>1 DEF AcceptInv
    <3> QED
      BY <3>1, <3>2
  <2>2. acceptedDB \cup save \subseteq
            UNION {Certs(h) : h \in {g \in 1 .. Len(chain) : g <= saved + 1}}
    <3>1. blk + 1 \in {g \in 1 .. Len(chain) : g <= saved + 1}
      BY <1>3, <1>4
    <3>2. save \subseteq UNION {Certs(h) : h \in {g \in 1 .. Len(chain) : g <= saved + 1}}
      BY <1>2, <3>1
    <3>3. acceptedDB \subseteq UNION {Certs(h) : h \in {g \in 1 .. Len(chain) : g <= saved + 1}}
      BY <1>1 DEF AcceptInv
    <3> QED
      BY <3>2, <3>3
  <2>3. save \subseteq pendingDB'
    BY <1>1, <1>3 DEF PendingIsDurable
  <2>4. Certs(saved + 1) = save /\ blk' # saved' /\ blk' = saved' + 1
    BY <1>2, <1>3, <1>4
  <2>5. certs' \subseteq certified' /\ up'
    BY <1>1, <1>3 DEF AcceptInv
  <2> QED
    BY <1>3, <2>1, <2>2, <2>3, <2>4, <2>5, ChainSame DEF AcceptInv
<1>11. SignedKept'
  <2>1. ASSUME NEW c \in signed, c.expiry >= Timestamp(Len(chain)),
               c \notin pendingDB' \cup acceptedDB'
        PROVE  FALSE
    <3>1. c \in pendingDB \cup acceptedDB
      BY <1>1, <2>1 DEF SignedKept
    <3>2. c.expiry < t
      BY <1>2, <1>3, <2>1, <3>1
    <3>3. t <= Timestamp(Len(chain))
      <4>1. CASE blk + 1 = Len(chain)
        BY <1>2, <1>4, <4>1
      <4>2. CASE blk + 1 # Len(chain)
        <5>1. blk + 1 \in 0 .. Len(chain) /\ Len(chain) \in 1 .. Len(chain) /\ blk + 1 < Len(chain)
          BY <1>4, <4>2
        <5>2. t < Timestamp(Len(chain)) /\ Timestamp(Len(chain)) \in Nat
          BY <1>1, <1>2, <5>1, BlockTypes DEF ChainInv
        <5> QED
          BY <1>4, <5>2
      <4> QED
        BY <4>1, <4>2
    <3>4. c.expiry \in Nat /\ Timestamp(Len(chain)) \in Nat
      <4>1. c \in Chunks
        BY <1>1, SequencerTypes DEF TypeOK
      <4>2. Len(chain) \in 0 .. Len(chain)
        BY <1>4
      <4> QED
        BY <1>1, <4>1, <4>2, BlockTypes, SequencerTypes
    <3> QED
      BY <1>4, <2>1, <3>2, <3>3, <3>4
  <2> QED
    BY <1>3, <2>1, ChainSame DEF SignedKept
<1> QED
  BY <1>1, <1>3, <1>7, <1>8, <1>9, <1>10, <1>11, NetworkSame DEF DsmrInv

LEMMA SaveAcceptedInv ==
    ASSUME DsmrInv, SaveAccepted
    PROVE  DsmrInv'
<1>1. TypeOK /\ ChainInv /\ AcceptInv /\ SignedKept /\ SizesExact /\ PendingIsDurable
  BY DEF DsmrInv
<1>2. /\ up /\ accept = "released" /\ saved' = blk /\ accept' = "idle"
      /\ UNCHANGED <<chain, certified, pendingDB, acceptedDB, blk, pending, certs, emap, sizes,
                     min, requests, building, fetching, up, signed, restarts>>
  BY DEF SaveAccepted, network, storage, history
<1>3. blk = saved + 1 /\ saved \in Nat /\ Len(chain) \in Nat /\ blk <= Len(chain)
  BY <1>1, <1>2, BlockTypes DEF AcceptInv
<1>4. TypeOK'
  <2>1. saved' \in 0 .. blk' /\ blk' \in 0 .. Len(chain)'
    BY <1>2, <1>3
  <2> QED
    BY <1>1, <1>2, <2>1 DEF TypeOK
<1>5. AcceptInv'
  <2>1. acceptedDB \subseteq UNION {Certs(h) : h \in {g \in 1 .. Len(chain) : g <= saved + 1}}
    BY <1>1 DEF AcceptInv
  <2>2. \A h \in {g \in 1 .. Len(chain) : g <= saved + 1} :
            h \in {g \in 1 .. Len(chain) : g <= saved' + 1}
    BY <1>2, <1>3
  <2>3. acceptedDB \subseteq UNION {Certs(h) : h \in {g \in 1 .. Len(chain) : g <= saved' + 1}}
    BY <2>1, <2>2
  <2>4. ASSUME saved' < Len(chain) PROVE acceptedDB \cap Certs(saved' + 1) = {}
    <3>1. saved' + 1 \in 1 .. Len(chain)
      BY <1>2, <1>3, <2>4
    <3>2. \A h \in {g \in 1 .. Len(chain) : g <= saved + 1} :
              h \in 1 .. Len(chain) /\ h # saved' + 1
      BY <1>2, <1>3
    <3>3. \A h \in {g \in 1 .. Len(chain) : g <= saved + 1} : Certs(h) \cap Certs(saved' + 1) = {}
      BY <1>1, <3>1, <3>2 DEF ChainInv
    <3> QED
      BY <2>1, <3>3
  <2>5. blk' = saved' + 0
    BY <1>2, <1>3
  <2> QED
    BY <1>1, <1>2, <2>3, <2>4, <2>5, ChainSame DEF AcceptInv
<1>6. PendingIsDurable'
  BY <1>1, <1>2 DEF PendingIsDurable
<1> QED
  BY <1>1, <1>2, <1>4, <1>5, <1>6, SizesSame, NetworkSame, SignedSame DEF DsmrInv

-----------------------------------------------------------------------------
(* Every step of the node                                                    *)

LEMMA VerifyRemoteChunkInv ==
    ASSUME DsmrInv, NEW c \in requests, VerifyRemoteChunk(c)
    PROVE  DsmrInv'
<1>1. TypeOK /\ c \in Chunks /\ c \in RemoteChunks
  BY SequencerTypes DEF DsmrInv, TypeOK
<1>2. CASE c \in pending /\ c \notin certs /\ Die /\ UNCHANGED pendingDB
  <2>1. LoseMemory /\ UNCHANGED <<saved, acceptedDB, chain, certified, signed, pendingDB, restarts>>
    BY <1>2 DEF Die, network, history
  <2> QED
    BY <1>1, <2>1, LoseInv DEF TypeOK
<1>3. CASE /\ up
           /\ IF c \notin pending /\ VerifyChunk(c) THEN PutVerifiedChunk(c, FALSE)
              ELSE UNCHANGED <<pendingDB, storage>>
           /\ signed' = IF c \in pending \/ VerifyChunk(c) THEN signed \cup {c} ELSE signed
           /\ requests' = requests \ {c}
           /\ UNCHANGED <<network, saved, acceptedDB, blk, min, building, accept, fetching, up,
                          restarts>>
  <2>1. UNCHANGED <<chain, certified, saved, acceptedDB, blk, min, building, accept, fetching, up,
                    restarts>>
    BY <1>3 DEF network
  <2>2. CASE c \notin pending /\ VerifyChunk(c)
    <3>1. PutVerifiedChunk(c, FALSE) /\ signed' = signed \cup {c}
      BY <1>3, <2>2
    <3>2. TypeOK'
      <4>1. c.producer \in Producers /\ sizes \in [Producers -> Nat]
        BY <1>1 DEF Producers, TypeOK
      <4>2. sizes' \in [Producers -> Nat]
        BY <2>2, <3>1, <4>1 DEF PutVerifiedChunk
      <4> QED
        BY <1>1, <1>3, <2>1, <3>1, <4>2 DEF TypeOK, PutVerifiedChunk
    <3> QED
      BY <1>1, <1>3, <2>1, <3>1, <3>2, PutInv
  <2>3. CASE ~(c \notin pending /\ VerifyChunk(c))
    <3>1. UNCHANGED <<pendingDB, pending, certs, emap, sizes>>
      BY <1>3, <2>3 DEF storage
    <3>2. signed' = signed \/ (signed' = signed \cup {c} /\ c \in pendingDB)
      <4>1. CASE c \in pending
        BY <1>3, <4>1 DEF DsmrInv, PendingIsDurable
      <4>2. CASE c \notin pending
        <5>1. ~VerifyChunk(c)
          BY <2>3, <4>2
        <5> QED
          BY <1>3, <4>2, <5>1
      <4> QED
        BY <4>1, <4>2
    <3>3. TypeOK'
      BY <1>1, <1>3, <2>1, <3>1, <3>2 DEF TypeOK
    <3>4. PendingIsDurable' /\ AcceptInv'
      BY <2>1, <3>1, ChainSame DEF DsmrInv, PendingIsDurable, AcceptInv
    <3>5. SignedKept'
      BY <2>1, <3>1, <3>2, ChainSame DEF DsmrInv, SignedKept
    <3> QED
      BY <2>1, <3>1, <3>3, <3>4, <3>5, SizesSame, NetworkSame DEF DsmrInv
  <2> QED
    BY <2>2, <2>3
<1> QED
  BY <1>2, <1>3 DEF VerifyRemoteChunk

LEMMA AddLocalChunkInv ==
    ASSUME DsmrInv, AddLocalChunk
    PROVE  DsmrInv'
<1>1. TypeOK
  BY DEF DsmrInv
<1>2. /\ up /\ building \in certified /\ building \in LocalChunks /\ building \in Chunks
      /\ PutVerifiedChunk(building, TRUE) /\ building' = NoChunk
      /\ UNCHANGED <<chain, certified, saved, acceptedDB, blk, min, requests, accept, fetching, up,
                     signed, restarts>>
  BY <1>1, SequencerTypes DEF AddLocalChunk, network, history, TypeOK
<1>3. TypeOK'
  <2>1. building.producer \in Producers /\ sizes \in [Producers -> Nat]
    BY <1>1, <1>2 DEF Producers, TypeOK
  <2>2. sizes' \in [Producers -> Nat]
    BY <1>2, <2>1 DEF PutVerifiedChunk
  <2> QED
    BY <1>1, <1>2, <2>2 DEF TypeOK, PutVerifiedChunk
<1> QED
  BY <1>2, <1>3, PutInv

LEMMA DsmrStep == DsmrInv /\ DsmrNext => DsmrInv'
<1> SUFFICES ASSUME DsmrInv, DsmrNext PROVE DsmrInv'
  OBVIOUS
<1>1. TypeOK /\ AcceptInv
  BY DEF DsmrInv
<1>2. ASSUME NEW t \in Times, BuildBlock(t) PROVE DsmrInv'
  <2>1. AvailableCerts(t) \subseteq certified
    BY <1>1 DEF AvailableCerts, GatherChunkCerts, AcceptInv
  <2> QED
    BY <1>2, <2>1, AppendInv DEF BuildBlock
<1>3. ASSUME NEW t \in Times, NEW cs \in SUBSET certified, NetBlock(t, cs) PROVE DsmrInv'
  BY <1>3, AppendInv DEF NetBlock
<1>4. CASE Aggregate
  <2>1. building \in Chunks
    BY <1>1, <1>4, SequencerTypes DEF Aggregate, TypeOK
  <2> QED
    BY <1>4, <2>1, CertifyInv DEF Aggregate
<1>5. ASSUME NEW c \in RemoteChunks, NetCertify(c) PROVE DsmrInv'
  BY <1>5, SequencerTypes, CertifyInv DEF NetCertify
<1>6. CASE AggregateFails
  <2>1. TypeOK'
    BY <1>1, <1>6 DEF AggregateFails, TypeOK, network, disk, storage, history
  <2> QED
    BY <1>6, <2>1, QuietStep DEF AggregateFails, network, history
<1>7. ASSUME NEW c \in RemoteChunks, SignatureRequest(c) PROVE DsmrInv'
  <2>1. TypeOK'
    BY <1>1, <1>7 DEF SignatureRequest, TypeOK, network, disk, storage, history
  <2> QED
    BY <1>7, <2>1, QuietStep DEF SignatureRequest, network, history
<1>8. ASSUME NEW c \in Chunks, RequestChunk(c) PROVE DsmrInv'
  <2>1. TypeOK'
    BY <1>1, <1>8, SequencerTypes DEF RequestChunk, TypeOK, network, disk, storage, history
  <2>2. {accept, accept'} \in SUBSET {"idle", "fetch"}
    BY <1>8 DEF RequestChunk
  <2> QED
    BY <1>8, <2>1, <2>2, QuietStep DEF RequestChunk, network, history
<1>9. CASE ReceiveChunk
  <2>1. /\ pendingDB' = pendingDB \cup {fetching} /\ fetching \in Chunks
        /\ LoseMemory /\ UNCHANGED <<saved, acceptedDB, chain, certified, signed, restarts>>
    BY <1>1, <1>9 DEF ReceiveChunk, Die, network, history, TypeOK
  <2> QED
    BY <1>1, <2>1, LoseInv DEF TypeOK
<1>10. CASE Crash
  <2>1. /\ LoseMemory /\ restarts' = restarts + 1
        /\ UNCHANGED <<saved, acceptedDB, pendingDB, chain, certified, signed>>
    BY <1>10 DEF Crash, disk, network
  <2> QED
    BY <1>1, <2>1, LoseInv DEF TypeOK
<1> QED
  BY <1>2, <1>3, <1>4, <1>5, <1>6, <1>7, <1>8, <1>9, <1>10, AddLocalChunkInv,
     VerifyRemoteChunkInv, SetChunkCertInv, AcceptBlockInv, SaveAcceptedInv, RestartInv
     DEF DsmrNext

-----------------------------------------------------------------------------
(* The bonds                                                                 *)

LEMMA OwedIsTotal == ASSUME NEW f, NEW S PROVE Owed(f, S) = Total(f, S)
BY Zenon DEF Owed, Total

LEMMA OwedNat ==
    ASSUME NEW S, IsFiniteSet(S), NEW f, \A x \in S : f[x] \in Nat
    PROVE  Owed(f, S) \in Nat
<1> DEFINE Q == {T \in SUBSET S : Total(f, T) \in Nat}
<1>1. ASSUME NEW T \in SUBSET S, \A U \in SUBSET T : U # T => U \in Q
      PROVE  T \in Q
  <2>1. CASE T = {}
    BY <2>1, TotalEmpty
  <2>2. CASE T # {}
    <3>1. IsFiniteSet(T)
      BY FS_Subset
    <3>2. Total(f, T) = Total(f, T \ {Pick(T)}) + f[Pick(T)]
      BY <2>2, <3>1, TotalPick
    <3>3. Pick(T) \in S /\ T \ {Pick(T)} \in Q
      BY <1>1, <2>2, PickIn
    <3> QED
      BY <3>2, <3>3
  <2> QED
    BY <2>1, <2>2
<1>2. Q \in SUBSET (SUBSET S)
  OBVIOUS
<1> HIDE DEF Q
<1>3. Q = SUBSET S
  BY <1>1, <1>2, SubsetInduction
<1> QED
  BY <1>3, OwedIsTotal DEF Q

(* The bonds that are given back are owed no more.                           *)
Cleared(f, S, X) == [x \in S |-> IF x \in X THEN 0 ELSE f[x]]

LEMMA OwedCleared ==
    ASSUME NEW S, IsFiniteSet(S), NEW f \in [S -> Int]
    PROVE  \A X \in SUBSET S : Owed(Cleared(f, S, X), S) = Owed(f, S) - Owed(f, X)
<1> DEFINE Q == {X \in SUBSET S : Total(Cleared(f, S, X), S) = Total(f, S) - Total(f, X)}
<1>1. Total(f, S) \in Int
  BY TotalInt
<1>2. ASSUME NEW X \in SUBSET S, \A U \in SUBSET X : U # X => U \in Q
      PROVE  X \in Q
  <2>1. CASE X = {}
    <3>1. \A x \in S : Cleared(f, S, X)[x] = f[x]
      BY <2>1 DEF Cleared
    <3>2. Total(Cleared(f, S, X), S) = Total(f, S)
      BY <3>1, TotalSame
    <3> QED
      BY <1>1, <2>1, <3>2, TotalEmpty
  <2>2. CASE X # {}
    <3>1. PICK c : c = Pick(X)
      OBVIOUS
    <3>2. c \in X /\ c \in S
      BY <2>2, <3>1, PickIn
    <3>3. PICK U, g, h : U = X \ {c} /\ g = Cleared(f, S, U) /\ h = Cleared(f, S, X)
      OBVIOUS
    <3>4. U \in Q
      BY <1>2, <3>2, <3>3
    <3>5. Total(g, S) = Total(f, S) - Total(f, U)
      BY <3>3, <3>4
    <3>6. IsFiniteSet(X) /\ IsFiniteSet(U) /\ U \subseteq S
      BY <3>3, FS_Subset
    <3>7. Total(f, X) = Total(f, U) + f[c] /\ Total(f, U) \in Int /\ f[c] \in Int
      BY <2>2, <3>1, <3>2, <3>3, <3>6, TotalPick, TotalInt
    <3>8. /\ \A y \in S : g[y] \in Int /\ h[y] \in Int
          /\ \A y \in S \ {c} : h[y] = g[y]
          /\ g[c] = f[c] /\ h[c] = 0
      BY <3>2, <3>3 DEF Cleared
    <3>9. Total(h, S) = Total(g, S) - g[c] + h[c]
      BY <3>2, <3>8, TotalChange
    <3>10. Total(h, S) = Total(f, S) - Total(f, X)
      BY <1>1, <3>5, <3>7, <3>8, <3>9
    <3> QED
      BY <3>3, <3>10
  <2> QED
    BY <2>1, <2>2
<1>3. Q \in SUBSET (SUBSET S)
  OBVIOUS
<1> HIDE DEF Q
<1>4. Q = SUBSET S
  BY <1>2, <1>3, SubsetInduction
<1> QED
  BY <1>4, OwedIsTotal DEF Q

(* The bonds that the invariant allows.                                      *)
BondSet == [balance : Nat, fee : [Txs -> Nat]]
Covered(b) == b \in BondSet /\ Owed(b.fee, Txs) <= b.balance /\ b.balance <= MaxBalance

LEMMA CoveredIs ==
    Covered(Bonds) <=> /\ balance \in Nat /\ fee \in [Txs -> Nat]
                       /\ BalanceCovers
BY DEF Covered, Bonds, BondSet, BalanceCovers

LEMMA SetBondsIs ==
    ASSUME NEW b, Covered(b), SetBonds(b)
    PROVE  /\ balance' \in Nat /\ fee' \in [Txs -> Nat] /\ BalanceCovers'
           /\ fee' = b.fee
BY DEF SetBonds, Covered, BondSet, BalanceCovers

LEMMA BondCovers ==
    ASSUME NEW b, Covered(b), NEW x \in Txs, NEW f \in Nat, CanBond(b, f)
    PROVE  Covered(Bond(b, x, f)) /\ Bond(b, x, f).fee = [b.fee EXCEPT ![x] = f]
<1>1. PICK g, h : g = b.fee /\ h = [b.fee EXCEPT ![x] = f]
  OBVIOUS
<1>2. b \in BondSet /\ g \in [Txs -> Nat] /\ b.balance \in Nat /\ h \in [Txs -> Nat] /\ h[x] = f
  BY <1>1 DEF Covered, BondSet
<1>3. Total(h, Txs) = Total(g, Txs) - g[x] + h[x]
  <2>1. /\ \A y \in Txs : g[y] \in Int /\ h[y] \in Int
        /\ \A y \in Txs \ {x} : h[y] = g[y]
    BY <1>1, <1>2
  <2> QED
    BY <2>1, ChunkAssumption, TotalChange
<1>4. Owed(g, Txs) \in Nat /\ Owed(g, Txs) <= b.balance /\ g[x] \in Nat
  BY <1>1, <1>2, OwedNat, ChunkAssumption DEF Covered
<1>5. Owed(h, Txs) <= b.balance + f
  BY <1>2, <1>3, <1>4, OwedIsTotal
<1>6. b.balance + f <= MaxBalance
  BY DEF CanBond
<1>7. Bond(b, x, f) = [balance |-> b.balance + f, fee |-> h]
  BY <1>1 DEF Bond
<1> QED
  BY <1>1, <1>2, <1>5, <1>6, <1>7 DEF Covered, BondSet

LEMMA UnbondCovers ==
    ASSUME NEW b, Covered(b), NEW X \in SUBSET Txs
    PROVE  /\ Covered(UnbondAll(b, X))
           /\ \A x \in Txs : UnbondAll(b, X).fee[x] = IF x \in X THEN 0 ELSE b.fee[x]
<1>1. PICK g, h : g = b.fee /\ h = Cleared(g, Txs, X)
  OBVIOUS
<1>2. /\ g \in [Txs -> Nat] /\ b.balance \in Nat
      /\ Owed(g, Txs) <= b.balance /\ b.balance <= MaxBalance
  BY <1>1 DEF Covered, BondSet
<1>3. h \in [Txs -> Nat] /\ \A x \in Txs : h[x] = IF x \in X THEN 0 ELSE g[x]
  BY <1>1, <1>2 DEF Cleared
<1>4. Owed(h, Txs) = Owed(g, Txs) - Owed(g, X)
  <2>1. g \in [Txs -> Int]
    BY <1>2
  <2> QED
    BY <1>1, <2>1, OwedCleared, ChunkAssumption
<1>5. Owed(g, Txs) \in Nat /\ Owed(g, X) \in Nat /\ Owed(h, Txs) \in Nat
  <2>1. IsFiniteSet(Txs) /\ IsFiniteSet(X)
    BY ChunkAssumption, FS_Subset
  <2> QED
    BY <1>2, <1>3, <2>1, OwedNat
<1>6. UnbondAll(b, X) = [balance |-> b.balance - Owed(g, X), fee |-> h]
  BY <1>1 DEF UnbondAll, Cleared
<1>7. /\ b.balance - Owed(g, X) \in Nat /\ b.balance - Owed(g, X) <= MaxBalance
      /\ Owed(h, Txs) <= b.balance - Owed(g, X)
  BY <1>2, <1>4, <1>5, BondAssumption
<1> QED
  BY <1>1, <1>3, <1>6, <1>7 DEF Covered, BondSet

(* What BondList asks of the function that bonds transaction after           *)
(* transaction.                                                              *)
Bonding(txs, f, g) ==
    g = [n \in 0 .. Len(txs) |->
            IF n = 0 THEN [b |-> Bonds, txs |-> {}] ELSE BondNext(g[n - 1], txs[n], f)]

(* How far the loop may have come.                                           *)
BondStates ==
    {s \in [b : BondSet, txs : SUBSET Txs] :
        /\ Covered(s.b)
        /\ \A x \in Txs : s.b.fee[x] # 0 => fee[x] # 0 \/ x \in s.txs}

LEMMA BondNextStays ==
    ASSUME NEW s \in BondStates, NEW x \in Txs, NEW f \in Nat
    PROVE  BondNext(s, x, f) \in BondStates
<1>1. CASE ~CanBond(s.b, f)
  BY <1>1 DEF BondNext
<1>2. CASE CanBond(s.b, f)
  <2>1. PICK b : b = Bond(s.b, x, f)
    OBVIOUS
  <2>2. Covered(s.b) /\ s.b \in BondSet /\ s.txs \in SUBSET Txs
    BY DEF BondStates
  <2>3. Covered(b) /\ b.fee = [s.b.fee EXCEPT ![x] = f] /\ b \in BondSet
    BY <1>2, <2>1, <2>2, BondCovers DEF Covered
  <2>4. BondNext(s, x, f) = [b |-> b, txs |-> s.txs \cup {x}]
    BY <1>2, <2>1 DEF BondNext
  <2>5. ASSUME NEW y \in Txs, b.fee[y] # 0 PROVE fee[y] # 0 \/ y \in s.txs \cup {x}
    <3>1. CASE y = x
      BY <3>1
    <3>2. CASE y # x
      <4>1. s.b.fee[y] # 0
        <5>1. PICK g : g = s.b.fee
          OBVIOUS
        <5>2. g \in [Txs -> Nat]
          BY <2>2, <5>1 DEF BondSet
        <5>3. b.fee = [g EXCEPT ![x] = f]
          BY <2>3, <5>1
        <5> QED
          BY <2>5, <3>2, <5>1, <5>2, <5>3
      <4> QED
        BY <4>1 DEF BondStates
    <3> QED
      BY <3>1, <3>2
  <2>6. PICK r : r = BondNext(s, x, f)
    OBVIOUS
  <2>7. r \in [b : BondSet, txs : SUBSET Txs] /\ r.b = b /\ r.txs = s.txs \cup {x}
    BY <2>2, <2>3, <2>4, <2>6
  <2> QED
    BY <2>3, <2>5, <2>6, <2>7 DEF BondStates
<1> QED
  BY <1>1, <1>2

LEMMA BondingExists ==
    ASSUME NEW s0, s0 = [b |-> Bonds, txs |-> {}], s0 \in BondStates,
           NEW txs \in Seq(Txs), NEW f \in Nat
    PROVE  \E g : Bonding(txs, f, g)
<1> DEFINE D == BondStates
           G == [n \in Nat |-> [s \in D |->
                     IF n \in 1 .. Len(txs) THEN BondNext(s, txs[n], f) ELSE s]]
<1>1. \A n \in 1 .. Len(txs) : txs[n] \in Txs
  OBVIOUS
<1>2. G \in [Nat -> [D -> D]]
  <2>1. \A n \in Nat, s \in D :
            (IF n \in 1 .. Len(txs) THEN BondNext(s, txs[n], f) ELSE s) \in D
    BY <1>1, BondNextStays
  <2> HIDE DEF D
  <2> QED
    BY <2>1
<1>3. \A n \in 1 .. Len(txs), s \in D : G[n][s] = BondNext(s, txs[n], f)
  <2> HIDE DEF D
  <2>1. \A n \in 1 .. Len(txs) : n \in Nat
    OBVIOUS
  <2>2. \A n \in Nat, s \in D :
            G[n][s] = IF n \in 1 .. Len(txs) THEN BondNext(s, txs[n], f) ELSE s
    BY Zenon
  <2> QED
    BY <2>1, <2>2, Zenon
<1>4. s0 \in D /\ Len(txs) \in Nat
  OBVIOUS
<1> HIDE DEF D, G
<1>5. PICK g \in [0 .. Len(txs) -> D] : Steps(s0, G, Len(txs), g)
  BY <1>2, <1>4, StepsExist
<1>6. \A n \in 0 .. Len(txs) : g[n] = IF n = 0 THEN s0 ELSE BondNext(g[n - 1], txs[n], f)
  <2>1. ASSUME NEW n \in 1 .. Len(txs) PROVE g[n] = BondNext(g[n - 1], txs[n], f)
    <3>1. n - 1 \in 0 .. Len(txs)
      BY <1>4
    <3> QED
      BY <1>3, <1>5, <3>1 DEF Steps
  <2>2. g[0] = s0
    BY <1>5 DEF Steps
  <2>3. \A n \in 0 .. Len(txs) : n = 0 \/ n \in 1 .. Len(txs)
    BY <1>4
  <2>4. \A n \in 1 .. Len(txs) : n # 0
    OBVIOUS
  <2> QED
    BY <2>1, <2>2, <2>3, <2>4, Zenon
<1>7. g = [n \in 0 .. Len(txs) |-> g[n]]
  OBVIOUS
<1>8. g = [n \in 0 .. Len(txs) |-> IF n = 0 THEN s0 ELSE BondNext(g[n - 1], txs[n], f)]
  BY <1>6, <1>7, Zenon
<1> QED
  BY <1>8, Zenon DEF Bonding

(* What the loop of BuildChunk leaves.                                       *)
LEMMA BondListFacts ==
    ASSUME Covered(Bonds), NEW txs \in Seq(Txs), NEW f \in Nat
    PROVE  BondList(txs, f) \in BondStates
<1>1. PICK s0 : s0 = [b |-> Bonds, txs |-> {}]
  OBVIOUS
<1>2. s0 \in BondStates
  <2>1. Bonds \in BondSet /\ Bonds.fee = fee
    BY DEF Covered, Bonds
  <2> QED
    BY <1>1, <2>1 DEF BondStates
<1> DEFINE g == CHOOSE h : Bonding(txs, f, h)
<1>3. Bonding(txs, f, g)
  BY <1>1, <1>2, BondingExists, Zenon
<1>4. BondList(txs, f) = g[Len(txs)]
  BY Zenon DEF BondList, Bonding
<1> HIDE DEF g
<1>5. \A n \in 0 .. Len(txs) : g[n] = IF n = 0 THEN s0 ELSE BondNext(g[n - 1], txs[n], f)
  BY <1>1, <1>3 DEF Bonding
<1>6. Len(txs) \in Nat /\ \A n \in 1 .. Len(txs) : txs[n] \in Txs
  OBVIOUS
<1> DEFINE N == {n \in Nat : n <= Len(txs) => g[n] \in BondStates}
<1>7. 0 \in N
  <2>1. g[0] = s0
    BY <1>5, <1>6
  <2> QED
    BY <1>2, <2>1
<1>8. ASSUME NEW n \in N PROVE n + 1 \in N
  <2>1. n \in Nat /\ (n <= Len(txs) => g[n] \in BondStates)
    OBVIOUS
  <2>2. ASSUME n + 1 <= Len(txs) PROVE g[n + 1] \in BondStates
    <3>1. /\ n + 1 \in 0 .. Len(txs) /\ n + 1 # 0 /\ (n + 1) - 1 = n /\ n <= Len(txs)
          /\ n + 1 \in 1 .. Len(txs)
      BY <1>6, <2>1, <2>2
    <3>2. g[n + 1] = BondNext(g[n], txs[n + 1], f)
      BY <1>5, <3>1
    <3>3. g[n] \in BondStates /\ txs[n + 1] \in Txs
      BY <1>6, <2>1, <3>1
    <3> QED
      BY <3>2, <3>3, BondNextStays
  <2> QED
    BY <2>1, <2>2
<1>9. N \in SUBSET Nat
  OBVIOUS
<1> HIDE DEF N
<1>10. N = Nat
  BY <1>7, <1>8, <1>9, NatSet
<1>11. g[Len(txs)] \in BondStates
  BY <1>6, <1>10 DEF N
<1> QED
  BY <1>4, <1>11

-----------------------------------------------------------------------------
(* The sequencer with its bonds                                              *)

BondInv == BondsTypeOK /\ BalanceCovers /\ BondsTracked

LEMMA BondsCovered == BondInv => Covered(Bonds)
BY CoveredIs DEF BondInv, BondsTypeOK

(* A transaction with a bond is in the heap until the process ends.          *)
LEMMA LoseHeapInv ==
    ASSUME BondInv, LoseHeap, UNCHANGED bonds
    PROVE  BondInv'
<1>1. balance' = balance /\ fee' = fee
  BY DEF bonds
<1>2. BalanceCovers'
  BY <1>1 DEF BondInv, BalanceCovers
<1>3. CASE up'
  BY <1>1, <1>2, <1>3 DEF BondInv, LoseHeap, BondsTypeOK, BondsTracked
<1>4. CASE ~up'
  <2>1. heap' = {} /\ forgotten' = forgotten \cup {x \in Txs : fee[x] # 0}
    BY <1>4 DEF LoseHeap
  <2> QED
    BY <1>1, <1>2, <2>1 DEF BondInv, BondsTypeOK, BondsTracked
<1> QED
  BY <1>3, <1>4

LEMMA FBuildChunkInv ==
    ASSUME DsmrInv, BondInv, NEW txs \in TxLists, NEW f \in Fees, FBuildChunk(txs, f)
    PROVE  DsmrInv' /\ BondInv'
<1>1. txs \in Seq(Txs) /\ f \in Nat
  BY BondAssumption
<1>2. PICK r : r = BondList(txs, f)
  OBVIOUS
<1>3. PICK c : c = [producer |-> Self, expiry |-> ChunkExpiry, txs |-> r.txs]
  OBVIOUS
<1>4. /\ SetBonds(r.b) /\ heap' = heap \cup r.txs /\ forgotten' = forgotten
      /\ BuildChunk(c)
  BY <1>2, <1>3 DEF FBuildChunk, HeapAdd
<1>5. /\ Covered(r.b) /\ r.txs \in SUBSET Txs
      /\ \A x \in Txs : r.b.fee[x] # 0 => fee[x] # 0 \/ x \in r.txs
  <2>1. r \in BondStates
    BY <1>1, <1>2, BondsCovered, BondListFacts
  <2> QED
    BY <2>1 DEF BondStates
<1>6. BondInv'
  <2>1. balance' \in Nat /\ fee' \in [Txs -> Nat] /\ BalanceCovers' /\ fee' = r.b.fee
    BY <1>4, <1>5, SetBondsIs
  <2> QED
    BY <1>4, <1>5, <2>1 DEF BondInv, BondsTypeOK, BondsTracked
<1>7. DsmrInv'
  <2>1. building' \in LocalChunks \cup {NoChunk}
    <3>1. (building' = c /\ c.txs # {}) \/ building' = NoChunk
      BY <1>4 DEF BuildChunk, CanBuildChunk
    <3>2. c.txs # {} => c \in LocalChunks
      BY <1>3, <1>5 DEF LocalChunks
    <3> QED
      BY <3>1, <3>2
  <2>2. UNCHANGED <<chain, certified, disk, blk, storage, min, requests, accept, fetching, up,
                    signed, restarts>>
    BY <1>4 DEF BuildChunk, network, history
  <2>3. TypeOK'
    BY <2>1, <2>2 DEF DsmrInv, TypeOK, disk, storage
  <2> QED
    BY <2>2, <2>3, QuietStep
<1> QED
  BY <1>6, <1>7

LEMMA FAcceptInv ==
    ASSUME DsmrInv, BondInv, FAccept
    PROVE  DsmrInv' /\ BondInv'
<1>1. /\ up /\ accept = "saved" /\ accept' = "released" /\ ReleaseBonds
      /\ UNCHANGED <<chain, certified, disk, blk, storage, min, requests, building, fetching, up,
                     signed, restarts, forgotten>>
  BY DEF FAccept, network, history
<1>2. DsmrInv'
  <2>1. TypeOK'
    BY <1>1 DEF DsmrInv, TypeOK, disk, storage
  <2>2. up /\ {accept, accept'} \in SUBSET {"saved", "released"}
    BY <1>1
  <2> QED
    BY <1>1, <2>1, <2>2, QuietStep
<1>3. PICK expired, X :
         /\ expired = Expired(heap, Timestamp(blk))
         /\ X = expired \cup ((UNION {c.txs : c \in Certs(blk)}) \cap heap)
  OBVIOUS
<1>4. /\ SetBonds(UnbondAll(Bonds, X)) /\ heap' = heap \ expired
      /\ expired \subseteq X /\ X \in SUBSET Txs
  <2>1. SetBonds(UnbondAll(Bonds, X)) /\ heap' = heap \ expired
    BY <1>1, <1>3, Zenon DEF ReleaseBonds
  <2>2. heap \in SUBSET Txs /\ expired \subseteq heap
    BY <1>3 DEF Expired, BondInv, BondsTypeOK
  <2>3. expired \subseteq X /\ X \subseteq heap
    BY <1>3, <2>2
  <2> QED
    BY <2>1, <2>2, <2>3
<1>5. /\ Covered(UnbondAll(Bonds, X))
      /\ \A x \in Txs : UnbondAll(Bonds, X).fee[x] = IF x \in X THEN 0 ELSE fee[x]
  <2>1. Bonds.fee = fee
    BY DEF Bonds
  <2> QED
    BY <1>4, <2>1, BondsCovered, UnbondCovers
<1>6. /\ balance' \in Nat /\ fee' \in [Txs -> Nat] /\ BalanceCovers'
      /\ fee' = UnbondAll(Bonds, X).fee
  BY <1>4, <1>5, SetBondsIs
<1>7. \A x \in Txs : fee'[x] # 0 => fee[x] # 0 /\ x \notin expired
  BY <1>4, <1>5, <1>6
<1>8. BondInv'
  BY <1>1, <1>4, <1>6, <1>7 DEF BondInv, BondsTypeOK, BondsTracked
<1> QED
  BY <1>2, <1>8

LEMMA NodeInvIs == NodeInv <=> DsmrInv /\ BondInv
BY DEF NodeInv, BondInv

LEMMA NodeInit == FInit => NodeInv
<1> SUFFICES ASSUME FInit PROVE DsmrInv /\ BondInv
  BY NodeInvIs
<1>1. /\ chain = <<>> /\ certified = {} /\ saved = 0 /\ pendingDB = {} /\ acceptedDB = {}
      /\ blk = 0 /\ pending = {} /\ certs = {} /\ emap = {} /\ sizes = [p \in Producers |-> 0]
      /\ min = 0 /\ requests = {} /\ building = NoChunk
      /\ accept = "idle" /\ fetching = NoChunk /\ up = TRUE
      /\ signed = {} /\ restarts = 0
      /\ balance = 0 /\ fee = [x \in Txs |-> 0] /\ heap = {} /\ forgotten = {}
  BY DEF FInit, DsmrInit
<1>2. Len(chain) = 0
  BY <1>1
<1>3. TypeOK
  BY <1>1, <1>2 DEF TypeOK
<1>4. SizesExact
  <2>1. \A p : {c \in {} : c.producer = p} = {}
    OBVIOUS
  <2> QED
    BY <1>1, <2>1, FS_EmptySet DEF SizesExact
<1>5. PendingIsDurable
  BY <1>1 DEF PendingIsDurable
<1>6. ChainInv
  BY <1>1, <1>2 DEF ChainInv
<1>7. AcceptInv
  BY <1>1, <1>2 DEF AcceptInv
<1>8. SignedKept
  BY <1>1 DEF SignedKept
<1>9. Owed(fee, Txs) = 0
  <2>1. fee \in [Txs -> Int] /\ Cleared(fee, Txs, Txs) = fee
    BY <1>1 DEF Cleared
  <2>2. Owed(fee, Txs) = Owed(fee, Txs) - Owed(fee, Txs)
    BY <2>1, OwedCleared, ChunkAssumption
  <2>3. Owed(fee, Txs) \in Nat
    BY <1>1, OwedNat, ChunkAssumption
  <2> QED
    BY <2>2, <2>3
<1>10. BalanceCovers
  BY <1>1, <1>9, BondAssumption DEF BalanceCovers
<1>11. BondInv
  BY <1>1, <1>10 DEF BondInv, BondsTypeOK, BondsTracked
<1> QED
  BY <1>3, <1>4, <1>5, <1>6, <1>7, <1>8, <1>11 DEF DsmrInv

LEMMA NodeStep == NodeInv /\ [FNext]_fvars => NodeInv'
<1> SUFFICES ASSUME NodeInv, [FNext]_fvars PROVE DsmrInv' /\ BondInv'
  BY NodeInvIs DEF NodeInv, BondInv
<1>1. DsmrInv /\ BondInv
  BY NodeInvIs
<1>2. CASE DsmrNext /\ LoseHeap /\ UNCHANGED bonds
  BY <1>1, <1>2, DsmrStep, LoseHeapInv
<1>3. ASSUME NEW txs \in TxLists, NEW f \in Fees, FBuildChunk(txs, f)
      PROVE  DsmrInv' /\ BondInv'
  BY <1>1, <1>3, FBuildChunkInv
<1>4. CASE FAccept
  BY <1>1, <1>4, FAcceptInv
<1>5. CASE UNCHANGED fvars
  <2>1. UNCHANGED <<chain, certified, disk, blk, storage, min, requests, building, accept,
                    fetching, up, signed, restarts, balance, fee, heap, forgotten>>
    BY <1>5 DEF fvars, dsmrVars, bonds, network, history
  <2>2. TypeOK'
    BY <1>1, <2>1 DEF DsmrInv, TypeOK, disk, storage
  <2>3. BondInv'
    BY <1>1, <2>1 DEF BondInv, BondsTypeOK, BalanceCovers, BondsTracked
  <2> QED
    BY <1>1, <2>1, <2>2, <2>3, QuietStep
<1> QED
  BY <1>2, <1>3, <1>4, <1>5 DEF FNext

(* The sequencer node keeps its records straight through every crash: the    *)
(* sizes that limit a producer are those of its pending chunks, what is      *)
(* pending has its key on disk, and the bonds that are still to be given     *)
(* back are covered by the balance and found when they expire.               *)
THEOREM NodeInvariant == FSpec => []NodeInv
<1>1. FInit => NodeInv
  BY NodeInit
<1>2. NodeInv /\ [FNext]_fvars => NodeInv'
  BY NodeStep
<1> QED
  BY <1>1, <1>2, PTL DEF FSpec

(* The chunks of an accepted block, and those the node signed, can be        *)
(* fetched from it.                                                          *)
THEOREM ChunksAvailable == FSpec => []Availability
<1>1. NodeInv => Availability
  <2> SUFFICES ASSUME NodeInv PROVE Availability
    OBVIOUS
  <2>1. TypeOK /\ AcceptInv /\ SignedKept
    BY DEF NodeInv, DsmrInv
  <2>2. saved \in Nat /\ blk \in Nat /\ saved <= blk /\ Len(chain) \in Nat /\ Certs(0) = {}
    BY <2>1, BlockTypes
  <2>3. AcceptedTo(saved) \subseteq acceptedDB
    <3>1. \A h \in 0 .. saved : h = 0 \/ h \in 1 .. blk
      BY <2>2
    <3>2. \A h \in 0 .. saved : Certs(h) \subseteq acceptedDB
      BY <2>1, <2>2, <3>1 DEF AcceptInv
    <3> QED
      BY <3>2 DEF AcceptedTo
  <2>4. \A h \in 1 .. saved + 1 : up /\ h <= blk => \A c \in Certs(h) : Serves(c)
    <3>1. \A h \in 1 .. saved + 1 : h <= blk => h \in 1 .. blk
      BY <2>2
    <3> QED
      BY <2>1, <3>1 DEF AcceptInv, Serves, GetChunkBytes
  <2>5. up /\ saved = blk /\ accept = "idle" /\ blk < Len(chain) =>
            \A c \in Certs(blk + 1) : c \in acceptedDB => c \in pending
    BY <2>1 DEF AcceptInv
  <2> QED
    BY <2>1, <2>3, <2>4, <2>5 DEF Availability
<1> QED
  BY <1>1, NodeInvariant, PTL

(* What BuildBlock puts in a block no block before has, although it asks the *)
(* window only for the repeats that it still holds.                          *)
THEOREM BuiltBlocksVerify == FSpec => []BuiltVerifies
<1>1. NodeInv => BuiltVerifies
  <2> SUFFICES ASSUME NodeInv, NEW t \in Times, NEW cs, cs = AvailableCerts(t),
                      t > Timestamp(blk), cs # {}
               PROVE  VerifyBlock(t, cs) /\ cs \cap AcceptedTo(blk) = {}
    BY DEF BuiltVerifies
  <2>1. TypeOK /\ ChainInv /\ AcceptInv
    BY DEF NodeInv, DsmrInv
  <2>2. /\ blk \in Nat /\ Len(chain) \in Nat /\ blk <= Len(chain) /\ Certs(0) = {}
        /\ t \in Nat /\ Window \in Nat
        /\ \A h \in 0 .. blk : Timestamp(h) \in Nat
    <3>1. /\ blk \in Nat /\ Len(chain) \in Nat /\ blk <= Len(chain)
          /\ \A h \in 0 .. Len(chain) : Timestamp(h) \in Nat
      BY <2>1, BlockTypes
    <3>2. \A h \in 0 .. blk : h \in 0 .. Len(chain)
      BY <3>1
    <3> QED
      BY <2>1, <3>1, <3>2, BlockTypes, SequencerTypes
  <2>3. cs = {c \in certs : c.expiry >= t} \ Repeats(t)
    <3>1. ~(t <= Timestamp(blk))
      <4>1. blk \in 0 .. blk
        BY <2>2
      <4> QED
        BY <2>2, <4>1
    <3> QED
      BY <3>1 DEF AvailableCerts, GatherChunkCerts
  <2>4. VerifyBlock(t, cs)
    BY <2>1, <2>3 DEF VerifyBlock, VerifyCertificate, AcceptInv
  <2>5. ASSUME NEW c \in cs, c \in AcceptedTo(blk) PROVE FALSE
    <3>1. PICK g \in 1 .. blk : c \in Certs(g)
      <4>1. PICK g \in 0 .. blk : c \in Certs(g)
        BY <2>5 DEF AcceptedTo
      <4>2. g # 0
        BY <2>2, <4>1
      <4> QED
        BY <2>2, <4>1, <4>2
    <3>2. c.expiry >= t /\ c \notin Repeats(t) /\ c.expiry \in Nat
      <4>1. c \in Chunks
        BY <2>1, <2>3 DEF TypeOK
      <4> QED
        BY <2>3, <4>1, SequencerTypes
    <3>3. Timestamp(blk) \in Nat /\ Timestamp(g - 1) \in Nat /\ g \in 1 .. Len(chain)
          /\ g - 1 \in 0 .. blk /\ g - 1 \in 0 .. Len(chain)
      <4>1. /\ g - 1 \in 0 .. blk /\ blk \in 0 .. blk /\ g \in 1 .. Len(chain)
            /\ g - 1 \in 0 .. Len(chain)
        BY <2>2
      <4> QED
        BY <2>2, <4>1
    <3>4. Timestamp(blk) < t - Window
      <4>1. c.expiry >= Timestamp(blk)
        BY <2>2, <3>2, <3>3
      <4> QED
        BY <2>5, <3>2, <4>1 DEF Repeats
    <3>5. c.expiry <= Timestamp(g - 1) + Window
      BY <2>1, <3>1, <3>3 DEF ChainInv
    <3>6. Timestamp(g - 1) < Timestamp(blk)
      <4>1. blk \in 1 .. Len(chain) /\ g - 1 < blk
        BY <2>2
      <4> QED
        BY <2>1, <3>3, <4>1 DEF ChainInv
    <3> QED
      BY <2>2, <3>2, <3>3, <3>4, <3>5, <3>6
  <2> QED
    BY <2>4, <2>5
<1> QED
  BY <1>1, NodeInvariant, PTL
=============================================================================
