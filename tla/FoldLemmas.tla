------------------------------ MODULE FoldLemmas ------------------------------
(***************************************************************************)
(* What the folds of the community modules compute, for any operation: the *)
(* other proof modules instantiate this one with the operations of theirs. *)
(*                                                                         *)
(* Both folds take the elements of a finite set away one by one and apply  *)
(* the operation on the way back.  Op(p, acc, x) is the operation, with a  *)
(* parameter p; Pick(S) is the element of S that is taken first: any for a *)
(* sum over a set, the largest index for a sequence.                       *)
(***************************************************************************)
EXTENDS Integers, Sequences, FiniteSets, FiniteSetTheorems, WellFoundedInduction, TLAPS

CONSTANTS Op(_, _, _), Pick(_)

-----------------------------------------------------------------------------
(* Induction                                                                 *)

(* A set of subsets of S that has every subset whose proper subsets it has   *)
(* has them all.                                                             *)
LEMMA SubsetInduction ==
    ASSUME NEW S, IsFiniteSet(S), NEW Q \in SUBSET (SUBSET S),
           \A T \in SUBSET S : (\A U \in SUBSET T : U # T => U \in Q) => T \in Q
    PROVE  Q = SUBSET S
<1> DEFINE F == (SUBSET S) \ Q
<1> SUFFICES ASSUME F # {} PROVE FALSE
  OBVIOUS
<1>1. F \subseteq FiniteSubsetsOf(S)
  BY FS_Subset DEF FiniteSubsetsOf
<1>2. IsWellFoundedOn(StrictSubsetOrdering(S), FiniteSubsetsOf(S))
  BY FS_StrictSubsetOrderingWellFounded
<1> HIDE DEF F
<1>3. PICK T \in F : \A U \in F : <<U, T>> \notin StrictSubsetOrdering(S)
  BY <1>1, <1>2, WFMin
<1>4. T \in SUBSET S /\ T \notin Q
  BY <1>3 DEF F
<1>5. ASSUME NEW U \in SUBSET T, U # T, U \notin Q PROVE FALSE
  <2>1. U \in F /\ U \subseteq S
    BY <1>4, <1>5 DEF F
  <2>2. <<U, T>> \in StrictSubsetOrdering(S)
    BY <1>4, <1>5, <2>1 DEF StrictSubsetOrdering
  <2> QED
    BY <2>1, <2>2, <1>3
<1> QED
  BY <1>4, <1>5

(* A set of naturals that has a next one for each has all up to n.           *)
LEMMA UpTo ==
    ASSUME NEW n \in Nat, NEW Q, 0 \in Q, \A i \in 1 .. n : i - 1 \in Q => i \in Q
    PROVE  \A i \in 0 .. n : i \in Q
<1> DEFINE R == {T \in SUBSET (0 .. n) :
                    (\A i \in 1 .. n : i \in T => i - 1 \in T) /\ T # {} => T \subseteq Q}
<1>1. IsFiniteSet(0 .. n)
  BY FS_Interval
<1>2. ASSUME NEW T \in SUBSET (0 .. n), \A U \in SUBSET T : U # T => U \in R
      PROVE  T \in R
  <2> SUFFICES ASSUME \A i \in 1 .. n : i \in T => i - 1 \in T, NEW k \in T PROVE k \in Q
    OBVIOUS
  <2>1. CASE k = 0
    BY <2>1
  <2>2. CASE k # 0
    <3> DEFINE U == {i \in T : i < k}
    <3>1. U \in SUBSET T /\ U # T /\ k - 1 \in U
      BY <2>2
    <3>2. \A i \in 1 .. n : i \in U => i - 1 \in U
      OBVIOUS
    <3>3. U \in R
      BY <1>2, <3>1
    <3>4. U \subseteq Q
      BY <3>1, <3>2, <3>3
    <3> QED
      BY <2>2, <3>1, <3>4
  <2> QED
    BY <2>1, <2>2
<1>3. R \in SUBSET (SUBSET (0 .. n))
  OBVIOUS
<1> HIDE DEF R
<1>4. R = SUBSET (0 .. n)
  BY <1>1, <1>2, <1>3, SubsetInduction
<1>5. 0 .. n \in R
  BY <1>4
<1>6. 0 \in 0 .. n /\ \A i \in 1 .. n : i \in 0 .. n => i - 1 \in 0 .. n
  OBVIOUS
<1> QED
  BY <1>5, <1>6 DEF R

(* A finite set of naturals has a largest element.                           *)
LEMMA LargestExists ==
    ASSUME NEW S \in SUBSET Nat, IsFiniteSet(S), S # {}
    PROVE  \E m \in S : \A i \in S : i <= m
<1> DEFINE Q == {T \in SUBSET S : T # {} => \E m \in T : \A i \in T : i <= m}
<1>1. ASSUME NEW T \in SUBSET S, \A U \in SUBSET T : U # T => U \in Q
      PROVE  T \in Q
  <2> SUFFICES ASSUME NEW x \in T PROVE \E m \in T : \A i \in T : i <= m
    OBVIOUS
  <2>1. T \ {x} \in Q
    BY <1>1
  <2>2. CASE T = {x}
    BY <2>2
  <2>3. CASE T # {x}
    <3>1. PICK m \in T \ {x} : \A i \in T \ {x} : i <= m
      BY <2>1, <2>3
    <3>2. m \in Nat /\ x \in Nat
      OBVIOUS
    <3>3. CASE x <= m
      BY <3>1, <3>3
    <3>4. CASE m <= x
      BY <3>1, <3>2, <3>4
    <3> QED
      BY <3>2, <3>3, <3>4
  <2> QED
    BY <2>2, <2>3
<1>2. Q \in SUBSET (SUBSET S)
  OBVIOUS
<1> HIDE DEF Q
<1>3. Q = SUBSET S
  BY <1>1, <1>2, SubsetInduction
<1> QED
  BY <1>3 DEF Q

-----------------------------------------------------------------------------
(* Folds of the values e[x] of the elements x of a finite set                *)

(* What the fold asks of the function from which it takes its value.         *)
Adds(p, base, e, S, g) ==
    g = [T \in SUBSET S |-> IF T = {} THEN base ELSE Op(p, g[T \ {Pick(T)}], e[Pick(T)])]

Value(p, base, e, S) == (CHOOSE g : Adds(p, base, e, S, g))[S]

Picks(S) == \A T \in SUBSET S : T # {} => Pick(T) \in T

LEMMA PicksFewer == ASSUME NEW S, Picks(S), NEW T \in SUBSET S PROVE Picks(T)
BY DEF Picks

LEMMA AddsValue ==
    ASSUME NEW p, NEW base, NEW e, NEW S, NEW g, Adds(p, base, e, S, g)
    PROVE  \A T \in SUBSET S :
               g[T] = IF T = {} THEN base ELSE Op(p, g[T \ {Pick(T)}], e[Pick(T)])
BY Zenon DEF Adds

(* Two of them agree where both are defined.                                 *)
LEMMA AddsAgree ==
    ASSUME NEW p, NEW base, NEW e, NEW S, IsFiniteSet(S), Picks(S), NEW T \in SUBSET S,
           NEW g, Adds(p, base, e, T, g), NEW h, Adds(p, base, e, S, h)
    PROVE  \A U \in SUBSET T : g[U] = h[U]
<1> DEFINE Q == {U \in SUBSET T : g[U] = h[U]}
<1>1. IsFiniteSet(T)
  BY FS_Subset
<1>2. ASSUME NEW U \in SUBSET T, \A W \in SUBSET U : W # U => W \in Q
      PROVE  U \in Q
  <2>1. /\ g[U] = IF U = {} THEN base ELSE Op(p, g[U \ {Pick(U)}], e[Pick(U)])
        /\ h[U] = IF U = {} THEN base ELSE Op(p, h[U \ {Pick(U)}], e[Pick(U)])
    BY AddsValue
  <2>2. CASE U = {}
    BY <2>1, <2>2
  <2>3. CASE U # {}
    <3>1. U \ {Pick(U)} \in Q
      BY <1>2, <2>3 DEF Picks
    <3>2. g[U \ {Pick(U)}] = h[U \ {Pick(U)}]
      BY <3>1
    <3> QED
      BY <2>1, <2>3, <3>2
  <2> QED
    BY <2>2, <2>3
<1>3. Q \in SUBSET (SUBSET T)
  OBVIOUS
<1> HIDE DEF Q
<1>4. Q = SUBSET T
  BY <1>1, <1>2, <1>3, SubsetInduction
<1> QED
  BY <1>4 DEF Q

LEMMA ValueIs ==
    ASSUME NEW p, NEW base, NEW e, NEW S, IsFiniteSet(S), Picks(S),
           NEW g, Adds(p, base, e, S, g)
    PROVE  Value(p, base, e, S) = g[S]
<1> DEFINE h == CHOOSE k : Adds(p, base, e, S, k)
<1>1. Adds(p, base, e, S, h)
  BY Zenon
<1>2. Value(p, base, e, S) = h[S]
  BY Zenon DEF Value
<1> HIDE DEF h
<1>3. S \in SUBSET S
  OBVIOUS
<1>4. \A R \in SUBSET S : \A q : Adds(p, base, e, R, q) => \A U \in SUBSET R : q[U] = g[U]
  BY AddsAgree, SMTT(20)
<1>5. \A U \in SUBSET S : h[U] = g[U]
  BY <1>1, <1>3, <1>4
<1> QED
  BY <1>2, <1>3, <1>5

LEMMA AddsExists ==
    ASSUME NEW p, NEW base, NEW e, NEW S, IsFiniteSet(S), Picks(S)
    PROVE  \E g : Adds(p, base, e, S, g)
<1> DEFINE V(T) == Value(p, base, e, T)
           Q == {T \in SUBSET S : \E g : Adds(p, base, e, T, g)}
<1>1. ASSUME NEW T \in SUBSET S, \A U \in SUBSET T : U # T => U \in Q
      PROVE  T \in Q
  <2> DEFINE G == [U \in SUBSET T |->
                      IF U = {} THEN base ELSE Op(p, V(U \ {Pick(U)}), e[Pick(U)])]
  <2>1. ASSUME NEW U \in SUBSET T, U # T PROVE G[U] = V(U)
    <3>1. PICK h : Adds(p, base, e, U, h)
      BY <1>1, <2>1
    <3>2. IsFiniteSet(U) /\ Picks(U)
      BY FS_Subset, PicksFewer
    <3>3. V(U) = h[U]
      BY <3>1, <3>2, ValueIs
    <3>4. h[U] = IF U = {} THEN base ELSE Op(p, h[U \ {Pick(U)}], e[Pick(U)])
      BY <3>1, AddsValue
    <3>5. G[U] = IF U = {} THEN base ELSE Op(p, V(U \ {Pick(U)}), e[Pick(U)])
      BY Zenon
    <3>6. CASE U = {}
      BY <3>3, <3>4, <3>5, <3>6
    <3>7. CASE U # {}
      <4> DEFINE W == U \ {Pick(U)}
      <4>1. W \in SUBSET T /\ W # T /\ W \in SUBSET U
        BY <3>2, <3>7 DEF Picks
      <4>2. PICK k : Adds(p, base, e, W, k)
        BY <1>1, <4>1
      <4>3. IsFiniteSet(W) /\ Picks(W)
        BY <3>2, <4>1, FS_Subset, PicksFewer
      <4> HIDE DEF W
      <4>4. V(W) = k[W]
        BY <4>2, <4>3, ValueIs
      <4>5. \A X \in SUBSET W : k[X] = h[X]
        BY <3>1, <3>2, <4>1, <4>2, AddsAgree
      <4>6. V(W) = h[W]
        BY <4>4, <4>5
      <4>7. h[U] = Op(p, h[W], e[Pick(U)]) /\ G[U] = Op(p, V(W), e[Pick(U)])
        BY <3>4, <3>5, <3>7 DEF W
      <4> HIDE DEF G, V
      <4> QED
        BY <3>3, <4>6, <4>7
    <3> QED
      BY <3>6, <3>7
  <2>2. ASSUME NEW U \in SUBSET T, U # {} PROVE V(U \ {Pick(U)}) = G[U \ {Pick(U)}]
    <3>1. U \ {Pick(U)} \in SUBSET T /\ U \ {Pick(U)} # T
      BY <2>2 DEF Picks
    <3> HIDE DEF G, V
    <3> QED
      BY <2>1, <3>1
  <2>3. Adds(p, base, e, T, G)
    <3>1. \A U \in SUBSET T :
              (IF U = {} THEN base ELSE Op(p, V(U \ {Pick(U)}), e[Pick(U)]))
              = IF U = {} THEN base ELSE Op(p, G[U \ {Pick(U)}], e[Pick(U)])
      <4> HIDE DEF G, V
      <4> QED
        BY <2>2
    <3>2. G = [U \in SUBSET T |->
                  IF U = {} THEN base ELSE Op(p, G[U \ {Pick(U)}], e[Pick(U)])]
      BY <3>1, Zenon
    <3> HIDE DEF G
    <3> QED
      BY <3>2, Zenon DEF Adds
  <2> HIDE DEF G
  <2> QED
    BY <2>3
<1>2. Q \in SUBSET (SUBSET S)
  OBVIOUS
<1> HIDE DEF Q
<1>3. Q = SUBSET S
  BY <1>1, <1>2, SubsetInduction
<1> QED
  BY <1>3 DEF Q

(* The value, one element at a time.                                         *)
LEMMA ValueUnfold ==
    ASSUME NEW p, NEW base, NEW e, NEW S, IsFiniteSet(S), Picks(S)
    PROVE  Value(p, base, e, S) =
               IF S = {} THEN base ELSE Op(p, Value(p, base, e, S \ {Pick(S)}), e[Pick(S)])
<1> DEFINE T == S \ {Pick(S)}
<1>1. PICK g : Adds(p, base, e, S, g)
  BY AddsExists
<1>2. T \in SUBSET S /\ IsFiniteSet(T) /\ Picks(T)
  BY FS_Subset, PicksFewer
<1>3. PICK h : Adds(p, base, e, T, h)
  BY <1>2, AddsExists
<1>4. Value(p, base, e, S) = g[S]
  BY <1>1, ValueIs
<1>5. g[S] = IF S = {} THEN base ELSE Op(p, g[T], e[Pick(S)])
  BY <1>1, AddsValue
<1> HIDE DEF T
<1>6. Value(p, base, e, T) = h[T]
  BY <1>2, <1>3, ValueIs
<1>7. \A U \in SUBSET T : h[U] = g[U]
  <2>1. \A R \in SUBSET S : \A q : Adds(p, base, e, R, q) => \A U \in SUBSET R : q[U] = g[U]
    BY <1>1, AddsAgree, SMTT(20)
  <2> QED
    BY <1>2, <1>3, <2>1
<1>8. Value(p, base, e, T) = g[T]
  BY <1>6, <1>7
<1> QED
  BY <1>4, <1>5, <1>8 DEF T

-----------------------------------------------------------------------------
(* Folds of sequences: the largest index is picked                           *)

PicksLast == \A T \in SUBSET Nat : T # {} /\ IsFiniteSet(T) =>
                 Pick(T) \in T /\ \A i \in T : i <= Pick(T)

Fold(p, base, s) == Value(p, base, s, 1 .. Len(s))

(* The values on the way from the left.                                      *)
Steps(p, base, s, g) == g[0] = base /\ \A i \in 1 .. Len(s) : g[i] = Op(p, g[i - 1], s[i])

LEMMA FoldPart ==
    ASSUME PicksLast, NEW p, NEW base, NEW s, NEW n \in Nat
    PROVE  Value(p, base, s, 1 .. n) =
               IF n = 0 THEN base ELSE Op(p, Value(p, base, s, 1 .. n - 1), s[n])
<1>1. IsFiniteSet(1 .. n) /\ 1 .. n \in SUBSET Nat
  BY FS_Interval
<1>2. Picks(1 .. n)
  <2> SUFFICES ASSUME NEW T \in SUBSET (1 .. n), T # {} PROVE Pick(T) \in T
    BY DEF Picks
  <2>1. IsFiniteSet(T) /\ T \in SUBSET Nat
    BY <1>1, FS_Subset
  <2> QED
    BY <2>1 DEF PicksLast
<1>3. CASE n = 0
  <2>1. 1 .. n = {}
    BY <1>3
  <2> QED
    BY <1>1, <1>2, <1>3, <2>1, ValueUnfold
<1>4. CASE n # 0
  <2>1. 1 .. n # {} /\ n \in 1 .. n
    BY <1>4
  <2>2. Pick(1 .. n) \in 1 .. n /\ \A i \in 1 .. n : i <= Pick(1 .. n)
    BY <1>1, <2>1 DEF PicksLast
  <2>3. Pick(1 .. n) = n
    BY <2>1, <2>2
  <2>4. (1 .. n) \ {n} = 1 .. n - 1
    BY <1>4
  <2>5. Value(p, base, s, 1 .. n)
            = Op(p, Value(p, base, s, (1 .. n) \ {Pick(1 .. n)}), s[Pick(1 .. n)])
    <3> DEFINE T == 1 .. n
    <3>1. IsFiniteSet(T) /\ Picks(T) /\ T # {}
      BY <1>1, <1>2, <2>1
    <3> HIDE DEF T
    <3>2. Value(p, base, s, T) = Op(p, Value(p, base, s, T \ {Pick(T)}), s[Pick(T)])
      BY <3>1, ValueUnfold
    <3> QED
      BY <3>2 DEF T
  <2>6. Value(p, base, s, 1 .. n) = Op(p, Value(p, base, s, 1 .. n - 1), s[n])
    BY <2>3, <2>4, <2>5
  <2> QED
    BY <1>4, <2>6
<1> QED
  BY <1>3, <1>4

(* There are steps to the value, ...                                         *)
LEMMA FoldSteps ==
    ASSUME PicksLast, NEW p, NEW base, NEW S, NEW s \in Seq(S)
    PROVE  \E g : Steps(p, base, s, g) /\ Fold(p, base, s) = g[Len(s)]
<1> DEFINE g == [i \in 0 .. Len(s) |-> Value(p, base, s, 1 .. i)]
<1>1. Len(s) \in Nat
  OBVIOUS
<1>2. g[0] = base
  BY <1>1, FoldPart
<1>3. ASSUME NEW i \in 1 .. Len(s) PROVE g[i] = Op(p, g[i - 1], s[i])
  <2>1. i \in Nat /\ i # 0 /\ i \in 0 .. Len(s) /\ i - 1 \in 0 .. Len(s)
    BY <1>1
  <2>2. g[i] = Value(p, base, s, 1 .. i) /\ g[i - 1] = Value(p, base, s, 1 .. i - 1)
    BY <2>1
  <2> HIDE DEF g
  <2> QED
    BY <2>1, <2>2, FoldPart
<1>4. Fold(p, base, s) = g[Len(s)]
  BY <1>1 DEF Fold
<1> HIDE DEF g
<1>5. Steps(p, base, s, g)
  BY <1>2, <1>3 DEF Steps
<1> QED
  BY <1>4, <1>5

(* ... and any steps lead to it.                                             *)
LEMMA FoldIs ==
    ASSUME PicksLast, NEW p, NEW base, NEW S, NEW s \in Seq(S), NEW h, Steps(p, base, s, h)
    PROVE  Fold(p, base, s) = h[Len(s)]
<1>1. PICK g : Steps(p, base, s, g) /\ Fold(p, base, s) = g[Len(s)]
  BY FoldSteps
<1> DEFINE Q == {i \in Nat : g[i] = h[i]}
<1>2. Len(s) \in Nat
  OBVIOUS
<1>3. 0 \in Q
  BY <1>1 DEF Steps
<1>4. \A i \in 1 .. Len(s) : i - 1 \in Q => i \in Q
  BY <1>1, <1>2 DEF Steps
<1> HIDE DEF Q
<1>5. \A i \in 0 .. Len(s) : i \in Q
  BY <1>2, <1>3, <1>4, UpTo
<1> QED
  BY <1>1, <1>2, <1>5 DEF Q

LEMMA FoldEmpty ==
    ASSUME PicksLast, NEW p, NEW base
    PROVE  Fold(p, base, <<>>) = base
<1>1. 1 .. Len(<<>>) = 1 .. 0
  OBVIOUS
<1> QED
  BY <1>1, FoldPart DEF Fold

LEMMA FoldAppend ==
    ASSUME PicksLast, NEW p, NEW base, NEW S, NEW s \in Seq(S), NEW x \in S
    PROVE  Fold(p, base, Append(s, x)) = Op(p, Fold(p, base, s), x)
<1> DEFINE n == Len(s)
           t == Append(s, x)
<1>1. /\ n \in Nat /\ t \in Seq(S) /\ Len(t) = n + 1 /\ t[n + 1] = x
      /\ \A i \in 1 .. n : t[i] = s[i]
  OBVIOUS
<1>2. PICK g : Steps(p, base, s, g) /\ Fold(p, base, s) = g[n]
  BY FoldSteps
<1> DEFINE h == [i \in 0 .. n + 1 |-> IF i = n + 1 THEN Op(p, g[n], x) ELSE g[i]]
<1>3. /\ h[n + 1] = Op(p, g[n], x)
      /\ \A i \in 0 .. n : h[i] = g[i]
  BY <1>1
<1> HIDE DEF n, t, h
<1>4. Steps(p, base, t, h)
  <2>1. h[0] = base
    BY <1>1, <1>2, <1>3 DEF Steps
  <2>2. ASSUME NEW i \in 1 .. Len(t) PROVE h[i] = Op(p, h[i - 1], t[i])
    <3>1. CASE i = n + 1
      BY <1>1, <1>3, <3>1
    <3>2. CASE i # n + 1
      <4>1. i \in 1 .. n /\ i \in 0 .. n /\ i - 1 \in 0 .. n
        BY <1>1, <3>2
      <4>2. g[i] = Op(p, g[i - 1], s[i])
        BY <1>2, <4>1 DEF Steps, n
      <4> QED
        BY <1>1, <1>3, <4>1, <4>2
    <3> QED
      BY <3>1, <3>2
  <2> QED
    BY <2>1, <2>2 DEF Steps
<1>5. Fold(p, base, t) = h[Len(t)]
  BY <1>1, <1>4, FoldIs
<1> QED
  BY <1>1, <1>2, <1>3, <1>5 DEF t

(* What every step keeps holds of the value.                                 *)
LEMMA FoldKeeps ==
    ASSUME PicksLast, NEW p, NEW base, NEW S, NEW s \in Seq(S), NEW I, base \in I,
           \A acc \in I : \A i \in 1 .. Len(s) : Op(p, acc, s[i]) \in I
    PROVE  Fold(p, base, s) \in I
<1>1. PICK g : Steps(p, base, s, g) /\ Fold(p, base, s) = g[Len(s)]
  BY FoldSteps
<1> DEFINE Q == {i \in Nat : g[i] \in I}
<1>2. Len(s) \in Nat
  OBVIOUS
<1>3. 0 \in Q
  BY <1>1 DEF Steps
<1>4. \A i \in 1 .. Len(s) : i - 1 \in Q => i \in Q
  BY <1>1, <1>2 DEF Steps
<1> HIDE DEF Q
<1>5. \A i \in 0 .. Len(s) : i \in Q
  BY <1>2, <1>3, <1>4, UpTo
<1> QED
  BY <1>1, <1>2, <1>5 DEF Q

-----------------------------------------------------------------------------
(* Sums of the values f[x] of the elements x of a finite set                 *)

Adding == /\ \A p, acc, x : Op(p, acc, x) = acc + x
          /\ \A S : S # {} => Pick(S) \in S

Sum(f, S) == Value(0, 0, f, S)

LEMMA SumEmpty == ASSUME Adding, NEW f PROVE Sum(f, {}) = 0
<1>1. IsFiniteSet({}) /\ Picks({})
  BY FS_EmptySet DEF Picks
<1> QED
  BY <1>1, ValueUnfold DEF Sum

LEMMA SumPick ==
    ASSUME Adding, NEW f, NEW S, IsFiniteSet(S), S # {}
    PROVE  Sum(f, S) = Sum(f, S \ {Pick(S)}) + f[Pick(S)] /\ Pick(S) \in S
<1>1. Picks(S) /\ Pick(S) \in S
  BY DEF Adding, Picks
<1>2. Sum(f, S) = Op(0, Sum(f, S \ {Pick(S)}), f[Pick(S)])
  BY <1>1, ValueUnfold DEF Sum
<1> QED
  BY <1>1, <1>2 DEF Adding

LEMMA SumInt ==
    ASSUME Adding, NEW S, IsFiniteSet(S), NEW f, \A x \in S : f[x] \in Int
    PROVE  Sum(f, S) \in Int
<1> DEFINE Q == {T \in SUBSET S : Sum(f, T) \in Int}
<1>1. ASSUME NEW T \in SUBSET S, \A U \in SUBSET T : U # T => U \in Q
      PROVE  T \in Q
  <2>1. CASE T = {}
    BY <2>1, SumEmpty
  <2>2. CASE T # {}
    <3>1. IsFiniteSet(T)
      BY FS_Subset
    <3>2. Sum(f, T) = Sum(f, T \ {Pick(T)}) + f[Pick(T)]
      BY <2>2, <3>1, SumPick
    <3>3. Pick(T) \in S /\ T \ {Pick(T)} \in Q
      BY <1>1, <2>2, <3>1, SumPick
    <3> QED
      BY <3>2, <3>3
  <2> QED
    BY <2>1, <2>2
<1>2. Q \in SUBSET (SUBSET S)
  OBVIOUS
<1> HIDE DEF Q
<1>3. Q = SUBSET S
  BY <1>1, <1>2, SubsetInduction
<1> QED
  BY <1>3 DEF Q

LEMMA SumNat ==
    ASSUME Adding, NEW S, IsFiniteSet(S), NEW f, \A x \in S : f[x] \in Nat
    PROVE  Sum(f, S) \in Nat
<1> DEFINE Q == {T \in SUBSET S : Sum(f, T) \in Nat}
<1>1. ASSUME NEW T \in SUBSET S, \A U \in SUBSET T : U # T => U \in Q
      PROVE  T \in Q
  <2>1. CASE T = {}
    BY <2>1, SumEmpty
  <2>2. CASE T # {}
    <3>1. IsFiniteSet(T)
      BY FS_Subset
    <3>2. Sum(f, T) = Sum(f, T \ {Pick(T)}) + f[Pick(T)]
      BY <2>2, <3>1, SumPick
    <3>3. Pick(T) \in S /\ T \ {Pick(T)} \in Q
      BY <1>1, <2>2, <3>1, SumPick
    <3> QED
      BY <3>2, <3>3
  <2> QED
    BY <2>1, <2>2
<1>2. Q \in SUBSET (SUBSET S)
  OBVIOUS
<1> HIDE DEF Q
<1>3. Q = SUBSET S
  BY <1>1, <1>2, SubsetInduction
<1> QED
  BY <1>3 DEF Q

(* The order in which it takes the elements does not matter.                 *)
LEMMA SumRemove ==
    ASSUME Adding, NEW S, IsFiniteSet(S), NEW f, \A x \in S : f[x] \in Int
    PROVE  \A x \in S : Sum(f, S) = Sum(f, S \ {x}) + f[x]
<1> DEFINE Q == {T \in SUBSET S : \A x \in T : Sum(f, T) = Sum(f, T \ {x}) + f[x]}
<1>1. ASSUME NEW T \in SUBSET S, \A U \in SUBSET T : U # T => U \in Q
      PROVE  T \in Q
  <2> SUFFICES ASSUME NEW x \in T PROVE Sum(f, T) = Sum(f, T \ {x}) + f[x]
    OBVIOUS
  <2> DEFINE c == Pick(T)
             V == (T \ {c}) \ {x}
  <2>1. IsFiniteSet(T)
    BY FS_Subset
  <2>2. c \in T
    BY <2>1, SumPick
  <2>3. Sum(f, T) = Sum(f, T \ {c}) + f[c]
    BY <2>1, SumPick
  <2>4. CASE x = c
    BY <2>3, <2>4
  <2>5. CASE x # c
    <3> HIDE DEF c
    <3>1. T \ {c} \in Q /\ T \ {x} \in Q
      BY <1>1, <2>2
    <3>2. x \in T \ {c} /\ c \in T \ {x} /\ V = (T \ {x}) \ {c}
      BY <2>2, <2>5
    <3>3. Sum(f, T \ {c}) = Sum(f, V) + f[x]
      BY <3>1, <3>2
    <3>4. Sum(f, T \ {x}) = Sum(f, (T \ {x}) \ {c}) + f[c]
      BY <3>1, <3>2
    <3>5. Sum(f, T \ {x}) = Sum(f, V) + f[c]
      BY <3>2, <3>4, Zenon
    <3>6. IsFiniteSet(V) /\ V \subseteq S
      BY FS_Subset
    <3>7. Sum(f, V) \in Int /\ f[x] \in Int /\ f[c] \in Int
      <4> HIDE DEF V
      <4> QED
        BY <2>2, <3>6, SumInt
    <3> QED
      BY <2>3, <3>3, <3>5, <3>7
  <2> QED
    BY <2>4, <2>5
<1>2. Q \in SUBSET (SUBSET S)
  OBVIOUS
<1> HIDE DEF Q
<1>3. Q = SUBSET S
  BY <1>1, <1>2, SubsetInduction
<1> QED
  BY <1>3 DEF Q

(* Each of natural numbers is at most their sum.                             *)
LEMMA SumMember ==
    ASSUME Adding, NEW S, IsFiniteSet(S), NEW f, \A x \in S : f[x] \in Nat, NEW x \in S
    PROVE  f[x] <= Sum(f, S)
<1>1. Sum(f, S) = Sum(f, S \ {x}) + f[x]
  BY SumRemove
<1>2. IsFiniteSet(S \ {x})
  BY FS_RemoveElement
<1>3. Sum(f, S \ {x}) \in Nat
  BY <1>2, SumNat
<1> QED
  BY <1>1, <1>3

LEMMA SumSame ==
    ASSUME Adding, NEW S, IsFiniteSet(S), NEW f, NEW g, \A x \in S : f[x] = g[x]
    PROVE  Sum(f, S) = Sum(g, S)
<1> DEFINE Q == {T \in SUBSET S : Sum(f, T) = Sum(g, T)}
<1>1. ASSUME NEW T \in SUBSET S, \A U \in SUBSET T : U # T => U \in Q
      PROVE  T \in Q
  <2>1. CASE T = {}
    BY <2>1, SumEmpty
  <2>2. CASE T # {}
    <3>1. IsFiniteSet(T)
      BY FS_Subset
    <3>2. /\ Sum(f, T) = Sum(f, T \ {Pick(T)}) + f[Pick(T)]
          /\ Sum(g, T) = Sum(g, T \ {Pick(T)}) + g[Pick(T)]
      BY <2>2, <3>1, SumPick
    <3>3. Pick(T) \in S /\ T \ {Pick(T)} \in Q
      BY <1>1, <2>2, <3>1, SumPick
    <3> QED
      BY <3>2, <3>3
  <2> QED
    BY <2>1, <2>2
<1>2. Q \in SUBSET (SUBSET S)
  OBVIOUS
<1> HIDE DEF Q
<1>3. Q = SUBSET S
  BY <1>1, <1>2, SubsetInduction
<1> QED
  BY <1>3 DEF Q

(* An element more, an element less, an element of another value.            *)
LEMMA SumZero ==
    ASSUME Adding, NEW S, IsFiniteSet(S), NEW f, \A x \in S : f[x] = 0
    PROVE  Sum(f, S) = 0
<1> DEFINE Q == {T \in SUBSET S : Sum(f, T) = 0}
<1>1. ASSUME NEW T \in SUBSET S, \A U \in SUBSET T : U # T => U \in Q
      PROVE  T \in Q
  <2>1. CASE T = {}
    BY <2>1, SumEmpty
  <2>2. CASE T # {}
    <3>1. IsFiniteSet(T)
      BY FS_Subset
    <3>2. Sum(f, T) = Sum(f, T \ {Pick(T)}) + f[Pick(T)]
      BY <2>2, <3>1, SumPick
    <3>3. Pick(T) \in S /\ T \ {Pick(T)} \in Q
      BY <1>1, <2>2, <3>1, SumPick
    <3> QED
      BY <3>2, <3>3
  <2> QED
    BY <2>1, <2>2
<1>2. Q \in SUBSET (SUBSET S)
  OBVIOUS
<1> HIDE DEF Q
<1>3. Q = SUBSET S
  BY <1>1, <1>2, SubsetInduction
<1> QED
  BY <1>3 DEF Q

LEMMA SumGrow ==
    ASSUME Adding, NEW T, IsFiniteSet(T), NEW x \in T, NEW S, S = T \ {x}, NEW f, NEW g,
           \A y \in S : f[y] \in Int /\ g[y] = f[y], g[x] \in Int
    PROVE  Sum(g, T) = Sum(f, S) + g[x]
<1>1. \A y \in T : g[y] \in Int
  OBVIOUS
<1>2. Sum(g, T) = Sum(g, S) + g[x]
  BY <1>1, SumRemove
<1>3. IsFiniteSet(S)
  BY FS_RemoveElement
<1>4. Sum(f, S) = Sum(g, S)
  BY <1>3, SumSame
<1> QED
  BY <1>2, <1>4

LEMMA SumShrink ==
    ASSUME Adding, NEW S, IsFiniteSet(S), NEW x \in S, NEW T, T = S \ {x}, NEW f, NEW g,
           \A y \in S : f[y] \in Int, \A y \in T : g[y] = f[y]
    PROVE  Sum(g, T) = Sum(f, S) - f[x]
<1>1. IsFiniteSet(T)
  BY FS_RemoveElement
<1>2. Sum(f, S) = Sum(f, T) + f[x]
  BY SumRemove
<1>3. Sum(f, T) = Sum(g, T)
  BY <1>1, SumSame
<1>4. Sum(f, T) \in Int
  BY <1>1, SumInt
<1> QED
  BY <1>2, <1>3, <1>4

LEMMA SumChange ==
    ASSUME Adding, NEW S, IsFiniteSet(S), NEW x \in S, NEW f, NEW g,
           \A y \in S : f[y] \in Int /\ g[y] \in Int, \A y \in S \ {x} : g[y] = f[y]
    PROVE  Sum(g, S) = Sum(f, S) - f[x] + g[x]
<1>1. Sum(g, S \ {x}) = Sum(f, S) - f[x]
  BY SumShrink
<1>2. Sum(g, S) = Sum(g, S \ {x}) + g[x]
  BY SumRemove
<1> QED
  BY <1>1, <1>2

(* The sum over a set is the sum of those over two parts of it.              *)
LEMMA SumSplit ==
    ASSUME Adding, NEW S, IsFiniteSet(S), NEW f, \A x \in S : f[x] \in Int
    PROVE  \A T \in SUBSET S : Sum(f, S) = Sum(f, T) + Sum(f, S \ T)
<1> DEFINE Q == {T \in SUBSET S : Sum(f, S) = Sum(f, T) + Sum(f, S \ T)}
<1>1. ASSUME NEW T \in SUBSET S, \A U \in SUBSET T : U # T => U \in Q
      PROVE  T \in Q
  <2>1. CASE T = {}
    <3>1. S \ T = S
      BY <2>1
    <3>2. Sum(f, S \ T) = Sum(f, S)
      BY <3>1, Zenon
    <3>3. Sum(f, T) = 0 /\ Sum(f, S) \in Int
      BY <2>1, SumEmpty, SumInt
    <3>4. Sum(f, S) = Sum(f, T) + Sum(f, S \ T)
      BY <3>2, <3>3
    <3> QED
      BY <3>4
  <2>2. ASSUME NEW x \in T
        PROVE  T \in Q
    <3> DEFINE U == T \ {x}
               V == S \ U
    <3>1. U \in Q
      BY <1>1, <2>2
    <3>2. Sum(f, S) = Sum(f, U) + Sum(f, V)
      BY <3>1
    <3>3. /\ IsFiniteSet(T) /\ IsFiniteSet(U) /\ IsFiniteSet(V) /\ IsFiniteSet(S \ T)
          /\ V \subseteq S /\ U \subseteq S /\ S \ T \subseteq S /\ x \in V /\ V \ {x} = S \ T
      BY FS_Subset, <2>2
    <3> HIDE DEF U, V
    <3>4. Sum(f, T) = Sum(f, U) + f[x]
      BY <2>2, <3>3, SumRemove DEF U
    <3>5. Sum(f, V) = Sum(f, S \ T) + f[x]
      <4>1. Sum(f, V) = Sum(f, V \ {x}) + f[x]
        BY <3>3, SumRemove
      <4>2. Sum(f, V \ {x}) = Sum(f, S \ T)
        BY <3>3, Zenon
      <4> QED
        BY <4>1, <4>2
    <3>6. Sum(f, U) \in Int /\ Sum(f, S \ T) \in Int /\ f[x] \in Int
      BY <2>2, <3>3, SumInt
    <3>7. Sum(f, S) = Sum(f, T) + Sum(f, S \ T)
      BY <3>2, <3>3, <3>4, <3>5, <3>6
    <3> QED
      BY <3>7
  <2> QED
    BY <2>1, <2>2
<1>2. Q \in SUBSET (SUBSET S)
  OBVIOUS
<1> HIDE DEF Q
<1>3. Q = SUBSET S
  BY <1>1, <1>2, SubsetInduction
<1> QED
  BY <1>3 DEF Q
===============================================================================
