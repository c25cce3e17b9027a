-------------------------- MODULE WindowSyncerProofs --------------------------
(***************************************************************************)
(* Proofs about the validity window and its syncer: no transaction is      *)
(* twice on the accepted chain, for every window and every pruning of the  *)
(* index; and a node whose index keeps Window + 2 blocks can always enter  *)
(* normal operation, where replay protection is exact.                     *)
(***************************************************************************)
EXTENDS WindowSyncer, SequenceTheorems, FiniteSetTheorems, WellFoundedInduction, TLAPS

-----------------------------------------------------------------------------
(* Numbers                                                                   *)

(* A set of naturals has a least element.                                    *)
LEMMA LeastNat ==
    ASSUME NEW T \in SUBSET Nat, T # {}
    PROVE  \E m \in T : \A k \in T : m <= k
<1> DEFINE F == {0 .. m : m \in T}
<1>1. F \subseteq FiniteSubsetsOf(Nat)
  <2>1. \A m \in T : IsFiniteSet(0 .. m) /\ 0 .. m \subseteq Nat
    BY FS_Interval
  <2> QED
    BY <2>1 DEF FiniteSubsetsOf
<1>2. F # {}
  OBVIOUS
<1>3. IsWellFoundedOn(StrictSubsetOrdering(Nat), FiniteSubsetsOf(Nat))
  BY FS_StrictSubsetOrderingWellFounded
<1> HIDE DEF F
<1>4. PICK x \in F : \A y \in F : <<y, x>> \notin StrictSubsetOrdering(Nat)
  BY <1>1, <1>2, <1>3, WFMin
<1>5. PICK m \in T : x = 0 .. m
  BY DEF F
<1>6. ASSUME NEW k \in T, k < m PROVE FALSE
  <2>1. 0 .. k \in F /\ 0 .. k \subseteq 0 .. m /\ m \notin 0 .. k /\ m \in 0 .. m
    BY <1>6 DEF F
  <2>2. <<0 .. k, x>> \in StrictSubsetOrdering(Nat)
    BY <1>5, <2>1 DEF StrictSubsetOrdering
  <2> QED
    BY <1>4, <2>1, <2>2
<1> QED
  BY <1>6

(* Induction.                                                                *)
LEMMA NatSet ==
    ASSUME NEW T \in SUBSET Nat, 0 \in T, \A n \in T : n + 1 \in T
    PROVE  T = Nat
<1>1. SUFFICES ASSUME Nat \ T # {} PROVE FALSE
  OBVIOUS
<1>2. PICK m \in Nat \ T : \A k \in Nat \ T : m <= k
  BY <1>1, LeastNat
<1>3. m # 0 /\ m - 1 \in Nat
  BY <1>2
<1>4. m - 1 \in T
  BY <1>2, <1>3
<1> QED
  BY <1>2, <1>4

(* A set of heights has a greatest element, which is its Max.                *)
LEMMA GreatestIn ==
    ASSUME NEW H \in Nat, NEW T \in SUBSET (0 .. H), T # {}
    PROVE  Max(T) \in T /\ \A k \in T : k <= Max(T)
<1> DEFINE U == {H - k : k \in T}
<1>1. U \in SUBSET Nat /\ U # {}
  <2>1. \A k \in T : H - k \in Nat
    OBVIOUS
  <2> QED
    BY <2>1
<1>2. PICK m \in U : \A k \in U : m <= k
  <2> HIDE DEF U
  <2> QED
    BY <1>1, LeastNat
<1>3. PICK g \in T : m = H - g
  OBVIOUS
<1>4. \A k \in T : g >= k
  <2>1. \A k \in T : H - k \in U
    OBVIOUS
  <2>2. \A k \in T : m <= H - k
    <3> HIDE DEF U
    <3> QED
      BY <1>2, <2>1
  <2> HIDE DEF U
  <2> QED
    BY <1>3, <2>2
<1>5. Max(T) \in T /\ \A k \in T : Max(T) >= k
  BY <1>4 DEF Max
<1> QED
  BY <1>5

(* The first n steps of a recursion over the naturals.                       *)
Steps(a, G, n, g) == g[0] = a /\ \A i \in 1 .. n : g[i] = G[i][g[i - 1]]

LEMMA StepsExist ==
    ASSUME NEW D, NEW a \in D, NEW G \in [Nat -> [D -> D]], NEW n \in Nat
    PROVE  \E g \in [0 .. n -> D] : Steps(a, G, n, g)
<1> DEFINE T == {k \in Nat : \E g \in [0 .. k -> D] : Steps(a, G, k, g)}
<1>1. 0 \in T
  <2> DEFINE g == [i \in 0 .. 0 |-> a]
  <2>1. g \in [0 .. 0 -> D]
    OBVIOUS
  <2>2. g[0] = a
    OBVIOUS
  <2> HIDE DEF g
  <2>3. Steps(a, G, 0, g)
    BY <2>2 DEF Steps
  <2> QED
    BY <2>1, <2>3
<1>2. ASSUME NEW k \in T PROVE k + 1 \in T
  <2>1. k \in Nat /\ \E g \in [0 .. k -> D] : Steps(a, G, k, g)
    OBVIOUS
  <2>2. PICK g \in [0 .. k -> D] : Steps(a, G, k, g)
    BY <2>1
  <2> DEFINE h == [i \in 0 .. k + 1 |-> IF i = k + 1 THEN G[k + 1][g[k]] ELSE g[i]]
  <2>3. h \in [0 .. k + 1 -> D]
    BY <2>1
  <2>4. /\ \A i \in 0 .. k : h[i] = g[i]
        /\ h[k + 1] = G[k + 1][g[k]]
    BY <2>1
  <2> HIDE DEF h
  <2>5. h[0] = a
    BY <2>1, <2>2, <2>4 DEF Steps
  <2>6. ASSUME NEW i \in 1 .. k + 1 PROVE h[i] = G[i][h[i - 1]]
    <3>1. CASE i = k + 1
      BY <2>1, <2>4, <3>1
    <3>2. CASE i # k + 1
      <4>1. i \in 1 .. k /\ i \in 0 .. k /\ i - 1 \in 0 .. k
        BY <2>1, <3>2
      <4> QED
        BY <2>2, <2>4, <4>1 DEF Steps
    <3> QED
      BY <3>1, <3>2
  <2>7. Steps(a, G, k + 1, h)
    BY <2>5, <2>6 DEF Steps
  <2> QED
    BY <2>1, <2>3, <2>7
<1>3. T \in SUBSET Nat
  OBVIOUS
<1> HIDE DEF T
<1>4. T = Nat
  BY <1>1, <1>2, <1>3, NatSet
<1> QED
  BY <1>4 DEF T

(* A definition by recursion over the naturals defines a function.           *)
Recursive(a, G, f) == f[0] = a /\ \A n \in Nat \ {0} : f[n] = G[n][f[n - 1]]

LEMMA NatRecursion ==
    ASSUME NEW D, NEW a \in D, NEW G \in [Nat -> [D -> D]]
    PROVE  \E f \in [Nat -> D] : Recursive(a, G, f)
<1> DEFINE F == [n \in Nat |-> CHOOSE g \in [0 .. n -> D] : Steps(a, G, n, g)]
<1>1. \A n \in Nat : F[n] \in [0 .. n -> D] /\ Steps(a, G, n, F[n])
  BY StepsExist
<1> HIDE DEF F
<1>2. ASSUME NEW n \in Nat, n # 0 PROVE F[n][n - 1] = F[n - 1][n - 1]
  <2> DEFINE T == {i \in Nat : i <= n - 1 => F[n][i] = F[n - 1][i]}
  <2>1. n - 1 \in Nat
    BY <1>2
  <2>2. Steps(a, G, n, F[n]) /\ Steps(a, G, n - 1, F[n - 1])
    BY <1>1, <2>1
  <2>3. 0 \in T
    BY <2>2 DEF Steps
  <2>4. ASSUME NEW i \in T PROVE i + 1 \in T
    <3>1. i \in Nat /\ (i <= n - 1 => F[n][i] = F[n - 1][i])
      OBVIOUS
    <3>2. ASSUME i + 1 <= n - 1 PROVE F[n][i + 1] = F[n - 1][i + 1]
      <4>1. i + 1 \in 1 .. n /\ i + 1 \in 1 .. n - 1 /\ (i + 1) - 1 = i /\ i <= n - 1
        BY <3>1, <3>2, <2>1
      <4>2. F[n][i + 1] = G[i + 1][F[n][i]] /\ F[n - 1][i + 1] = G[i + 1][F[n - 1][i]]
        BY <2>2, <4>1 DEF Steps
      <4> QED
        BY <3>1, <4>1, <4>2
    <3> QED
      BY <3>1, <3>2
  <2>5. T \in SUBSET Nat
    OBVIOUS
  <2> HIDE DEF T
  <2>6. T = Nat
    BY <2>3, <2>4, <2>5, NatSet
  <2> QED
    BY <2>1, <2>6 DEF T
<1> DEFINE f == [n \in Nat |-> F[n][n]]
<1>3. f \in [Nat -> D]
  BY <1>1
<1>4. f[0] = a
  BY <1>1 DEF Steps
<1>5. ASSUME NEW n \in Nat \ {0} PROVE f[n] = G[n][f[n - 1]]
  <2>1. n \in 1 .. n /\ n - 1 \in Nat
    OBVIOUS
  <2>2. F[n][n] = G[n][F[n][n - 1]]
    BY <1>1, <2>1 DEF Steps
  <2> QED
    BY <1>2, <2>1, <2>2
<1> HIDE DEF f
<1>6. Recursive(a, G, f)
  BY <1>4, <1>5 DEF Recursive
<1> QED
  BY <1>3, <1>6

-----------------------------------------------------------------------------
(* Blocks                                                                    *)

LEMMA PayloadFacts ==
    ASSUME NEW p \in Payloads
    PROVE  /\ p.ts \in Times /\ p.ts \in Nat /\ p.ts > Window
           /\ p.txs \in Seq(Txs) /\ ToSet(p.txs) \subseteq Txs
<1>1. p.ts \in Times /\ p.txs \in {<<>>} \cup {<<x>> : x \in Txs} \cup (Txs \X Txs)
  BY DEF Payloads
<1>2. p.txs \in Seq(Txs)
  <2>1. CASE p.txs = <<>>
    BY <2>1
  <2>2. CASE p.txs \in {<<x>> : x \in Txs}
    <3>1. PICK x \in Txs : p.txs = <<x>>
      BY <2>2
    <3> QED
      BY <3>1
  <2>3. CASE p.txs \in Txs \X Txs
    <3>1. PICK x \in Txs, y \in Txs : p.txs = <<x, y>>
      BY <2>3
    <3> QED
      BY <3>1
  <2> QED
    BY <1>1, <2>1, <2>2, <2>3
<1>3. ToSet(p.txs) \subseteq Txs
  <2>1. \A i \in DOMAIN p.txs : p.txs[i] \in Txs
    BY <1>2, LenProperties, ElementOfSeq
  <2> QED
    BY <2>1 DEF ToSet
<1> QED
  BY <1>1, <1>2, <1>3, WindowAssumption

LEMMA BlockFacts ==
    ASSUME NEW b \in Seq(Payloads)
    PROVE  /\ Len(b) \in Nat /\ DOMAIN b = 1 .. Len(b)
           /\ \A h \in 1 .. Len(b) : b[h] \in Payloads
           /\ Timestamp(b) = IF Len(b) = 0 THEN 0 ELSE b[Len(b)].ts
           /\ Containers(b) = IF Len(b) = 0 THEN <<>> ELSE b[Len(b)].txs
           /\ Timestamp(b) \in Nat
<1>1. Len(b) \in Nat /\ DOMAIN b = 1 .. Len(b) /\ b \in [1 .. Len(b) -> Payloads]
  BY LenProperties
<1>2. \A h \in 1 .. Len(b) : b[h] \in Payloads
  BY <1>1
<1>3. b = <<>> <=> Len(b) = 0
  BY EmptySeq
<1>4. /\ Timestamp(b) = IF Len(b) = 0 THEN 0 ELSE b[Len(b)].ts
      /\ Containers(b) = IF Len(b) = 0 THEN <<>> ELSE b[Len(b)].txs
  BY <1>3 DEF Timestamp, Containers, Genesis, Last
<1>5. Len(b) # 0 => b[Len(b)].ts \in Nat
  BY <1>1, <1>2, PayloadFacts
<1> QED
  BY <1>1, <1>2, <1>4, <1>5

LEMMA AncestorFacts ==
    ASSUME NEW b \in Seq(Payloads), NEW h \in 0 .. Len(b)
    PROVE  /\ Ancestor(b, h) \in Seq(Payloads) /\ Len(Ancestor(b, h)) = h
           /\ \A i \in 1 .. h : Ancestor(b, h)[i] = b[i]
           /\ Timestamp(Ancestor(b, h)) = IF h = 0 THEN 0 ELSE b[h].ts
           /\ Containers(Ancestor(b, h)) = IF h = 0 THEN <<>> ELSE b[h].txs
           /\ Timestamp(Ancestor(b, h)) \in Nat
<1>1. Len(b) \in Nat /\ \A i \in 1 .. h : b[i] \in Payloads
  BY BlockFacts
<1>2. /\ Ancestor(b, h) \in Seq(Payloads)
      /\ Len(Ancestor(b, h)) = IF 1 <= h THEN h - 1 + 1 ELSE 0
      /\ \A i \in 1 .. h - 1 + 1 : Ancestor(b, h)[i] = b[1 + i - 1]
  BY <1>1, SubSeqProperties DEF Ancestor
<1>3. Len(Ancestor(b, h)) = h /\ \A i \in 1 .. h : Ancestor(b, h)[i] = b[i]
  BY <1>1, <1>2
<1>4. h # 0 => Ancestor(b, h)[h] = b[h]
  BY <1>1, <1>3
<1> QED
  BY <1>2, <1>3, <1>4, BlockFacts

(* Blocks of the same height that have the same payloads are equal.          *)
LEMMA SameBlock ==
    ASSUME NEW b \in Seq(Payloads), NEW c \in Seq(Payloads), Len(b) = Len(c),
           \A i \in 1 .. Len(b) : b[i] = c[i]
    PROVE  b = c
  BY SeqEqual

LEMMA PrefixFacts ==
    ASSUME NEW b \in Seq(Payloads), NEW c \in Seq(Payloads)
    PROVE  /\ IsPrefix(b, c) <=> /\ Len(b) <= Len(c)
                                 /\ \A i \in 1 .. Len(b) : b[i] = c[i]
           /\ IsStrictPrefix(b, c) <=> /\ Len(b) < Len(c)
                                       /\ \A i \in 1 .. Len(b) : b[i] = c[i]
<1>1. Len(b) \in Nat /\ Len(c) \in Nat
  BY BlockFacts
<1>2. Ancestor(b, Len(b)) = b
  BY SubSeqFull DEF Ancestor
<1>3. IsPrefix(b, c) <=> Len(b) <= Len(c) /\ b = Ancestor(c, Len(b))
  BY <1>2 DEF IsPrefix, Ancestor
<1>4. ASSUME Len(b) <= Len(c)
      PROVE  b = Ancestor(c, Len(b)) <=> \A i \in 1 .. Len(b) : b[i] = c[i]
  <2>1. Len(b) \in 0 .. Len(c)
    BY <1>1, <1>4
  <2>2. /\ Ancestor(c, Len(b)) \in Seq(Payloads) /\ Len(Ancestor(c, Len(b))) = Len(b)
        /\ \A i \in 1 .. Len(b) : Ancestor(c, Len(b))[i] = c[i]
    BY <2>1, AncestorFacts
  <2> QED
    BY <2>2, SameBlock
<1>5. IsPrefix(b, c) <=> Len(b) <= Len(c) /\ \A i \in 1 .. Len(b) : b[i] = c[i]
  BY <1>3, <1>4
<1>6. ASSUME IsPrefix(b, c) PROVE b # c <=> Len(b) < Len(c)
  BY <1>1, <1>5, <1>6, SameBlock
<1> QED
  BY <1>1, <1>5, <1>6 DEF IsStrictPrefix

(* Blocks that agree up to a height have the same ancestor there.            *)
LEMMA SameAncestor ==
    ASSUME NEW b \in Seq(Payloads), NEW c \in Seq(Payloads), NEW h \in Nat,
           h <= Len(b), h <= Len(c), \A i \in 1 .. h : b[i] = c[i]
    PROVE  Ancestor(b, h) = Ancestor(c, h)
<1>1. h \in 0 .. Len(b) /\ h \in 0 .. Len(c)
  BY BlockFacts
<1>2. /\ Ancestor(b, h) \in Seq(Payloads) /\ Len(Ancestor(b, h)) = h
      /\ \A i \in 1 .. h : Ancestor(b, h)[i] = b[i]
  BY <1>1, AncestorFacts
<1>3. /\ Ancestor(c, h) \in Seq(Payloads) /\ Len(Ancestor(c, h)) = h
      /\ \A i \in 1 .. h : Ancestor(c, h)[i] = c[i]
  BY <1>1, AncestorFacts
<1> QED
  BY <1>2, <1>3, SameBlock

LEMMA WholeAncestor ==
    ASSUME NEW b \in Seq(Payloads)
    PROVE  Ancestor(b, Len(b)) = b
  BY SubSeqFull DEF Ancestor

LEMMA TxsOnFacts ==
    ASSUME NEW b \in Seq(Payloads)
    PROVE  /\ \A x : x \in TxsOn(b) <=> \E h \in 1 .. Len(b) : x \in ToSet(b[h].txs)
           /\ TxsOn(b) \subseteq Txs
<1>1. \A x : x \in TxsOn(b) <=> \E h \in 1 .. Len(b) : x \in ToSet(b[h].txs)
  BY BlockFacts DEF TxsOn
<1>2. \A h \in 1 .. Len(b) : ToSet(b[h].txs) \subseteq Txs
  BY BlockFacts, PayloadFacts
<1> QED
  BY <1>1, <1>2

LEMMA TxsOnPrefix ==
    ASSUME NEW b \in Seq(Payloads), NEW c \in Seq(Payloads), Len(b) <= Len(c),
           \A i \in 1 .. Len(b) : b[i] = c[i]
    PROVE  TxsOn(b) \subseteq TxsOn(c)
<1>1. Len(b) \in Nat /\ Len(c) \in Nat
  BY BlockFacts
<1>2. ASSUME NEW x \in TxsOn(b) PROVE x \in TxsOn(c)
  <2>1. PICK h \in 1 .. Len(b) : x \in ToSet(b[h].txs)
    BY TxsOnFacts
  <2>2. h \in 1 .. Len(c) /\ x \in ToSet(c[h].txs)
    BY <1>1, <2>1
  <2> QED
    BY <2>2, TxsOnFacts
<1> QED
  BY <1>2

(* What a timely block says of its heights.                                  *)
LEMMA TimelyFacts ==
    ASSUME NEW b, Timely(b)
    PROVE  /\ b \in Seq(Payloads) /\ Len(b) \in Nat /\ Len(b) <= MaxHeight
           /\ \A g, h \in 1 .. Len(b) : g <= h => b[g].ts + (h - g) <= b[h].ts
           /\ \A h \in 1 .. Len(b) : b[h].ts \in Nat /\ b[h].ts > Window
           /\ \A h \in 1 .. Len(b) : \A x \in ToSet(b[h].txs) :
                  x \in Txs /\ Expiry[x] >= b[h].ts /\ Expiry[x] <= b[h].ts + Window
<1>1. b \in Seq(Payloads) /\ Len(b) \in Nat /\ Len(b) <= MaxHeight /\ DOMAIN b = 1 .. Len(b)
  BY BlockFacts DEF Timely, Height
<1>2. \A h \in 1 .. Len(b) : b[h] \in Payloads
  BY <1>1, BlockFacts
<1>3. \A h \in 1 .. Len(b) :
          b[h].ts \in Nat /\ b[h].ts > Window /\ ToSet(b[h].txs) \subseteq Txs
  BY <1>2, PayloadFacts
<1>4. ASSUME NEW g \in 1 .. Len(b), NEW h \in 1 .. Len(b), g <= h
      PROVE  b[g].ts + (h - g) <= b[h].ts
  <2>1. CASE g = h
    BY <1>3, <2>1
  <2>2. CASE g < h
    BY <1>1, <2>2 DEF Timely
  <2> QED
    BY <1>4, <2>1, <2>2
<1>5. \A h \in 1 .. Len(b) : \A x \in ToSet(b[h].txs) :
          Expiry[x] >= b[h].ts /\ Expiry[x] <= b[h].ts + Window
  BY <1>1 DEF Timely, VerifyTimestamp
<1> QED
  BY <1>1, <1>3, <1>4, <1>5

LEMMA FrontFacts ==
    ASSUME NEW b, Timely(b), Len(b) # 0
    PROVE  /\ Front(b) \in Seq(Payloads) /\ Len(Front(b)) = Len(b) - 1
           /\ \A i \in 1 .. Len(b) - 1 : Front(b)[i] = b[i]
<1>1. b \in Seq(Payloads) /\ Len(b) - 1 \in 0 .. Len(b)
  BY TimelyFacts
<1>2. PICK h \in 0 .. Len(b) : h = Len(b) - 1
  BY <1>1
<1>3. Front(b) = Ancestor(b, h)
  BY <1>2 DEF Front, Ancestor
<1>4. /\ Ancestor(b, h) \in Seq(Payloads) /\ Len(Ancestor(b, h)) = h
      /\ \A i \in 1 .. h : Ancestor(b, h)[i] = b[i]
  BY <1>1, AncestorFacts
<1> QED
  BY <1>2, <1>3, <1>4

LEMMA ChildFacts ==
    ASSUME NEW p, Timely(p), NEW c \in Children(p)
    PROVE  /\ Timely(c) /\ Len(c) = Len(p) + 1 /\ Front(c) = p
           /\ \A i \in 1 .. Len(p) : c[i] = p[i]
           /\ Timestamp(c) > Timestamp(p)
<1>1. p \in Seq(Payloads) /\ Len(p) \in Nat /\ Len(p) < MaxHeight /\ MaxHeight \in Nat
  BY TimelyFacts, WindowAssumption DEF Children, Height
<1>2. PICK q \in Payloads : c = Append(p, q) /\ TimelyBlock(c)
  BY DEF Children
<1>3. /\ c \in Seq(Payloads) /\ Len(c) = Len(p) + 1
      /\ \A i \in 1 .. Len(p) : c[i] = p[i]
      /\ c[Len(p) + 1] = q
  BY <1>1, <1>2, AppendProperties
<1>4. Front(c) = p
  <2>1. Len(p) \in 0 .. Len(c)
    BY <1>1, <1>3
  <2>2. Front(c) = Ancestor(c, Len(p))
    BY <1>1, <1>3 DEF Front, Ancestor
  <2>3. /\ Ancestor(c, Len(p)) \in Seq(Payloads) /\ Len(Ancestor(c, Len(p))) = Len(p)
        /\ \A i \in 1 .. Len(p) : Ancestor(c, Len(p))[i] = c[i]
    BY <1>3, <2>1, AncestorFacts
  <2>4. Ancestor(c, Len(p)) = p
    BY <1>1, <1>3, <2>3, SameBlock
  <2> QED
    BY <2>2, <2>4
<1>5. Timestamp(c) = q.ts /\ Containers(c) = q.txs
  BY <1>1, <1>3, BlockFacts
<1>6. Timestamp(c) > Timestamp(p) /\ \A x \in ToSet(q.txs) : VerifyTimestamp(x, q.ts)
  BY <1>2, <1>4, <1>5 DEF TimelyBlock
<1>7. ASSUME NEW g \in 1 .. Len(c), NEW h \in 1 .. Len(c), g < h
      PROVE  c[g].ts + (h - g) <= c[h].ts
  <2>1. g \in 1 .. Len(p)
    BY <1>1, <1>3, <1>7
  <2>2. c[g].ts \in Nat
    BY <1>3, <2>1, TimelyFacts
  <2>3. CASE h = Len(c)
    <3>1. p[g].ts + (Len(p) - g) <= p[Len(p)].ts /\ p[Len(p)].ts \in Nat
      BY <1>1, <2>1, TimelyFacts
    <3>2. Timestamp(p) = p[Len(p)].ts
      BY <1>1, <2>1, BlockFacts
    <3>3. q.ts \in Nat
      BY PayloadFacts
    <3>4. c[g].ts = p[g].ts /\ c[h].ts = q.ts /\ h = Len(p) + 1
      BY <1>3, <2>1, <2>3
    <3> QED
      BY <1>1, <1>5, <1>6, <2>1, <2>2, <3>1, <3>2, <3>3, <3>4, SMTT(20)
  <2>4. CASE h # Len(c)
    <3>1. h \in 1 .. Len(p)
      BY <1>1, <1>3, <2>4
    <3>2. p[g].ts + (h - g) <= p[h].ts
      BY <1>7, <2>1, <3>1, TimelyFacts
    <3> QED
      BY <1>3, <2>1, <3>1, <3>2
  <2> QED
    BY <2>3, <2>4
<1>8. ASSUME NEW h \in 1 .. Len(c) PROVE \A x \in ToSet(c[h].txs) : VerifyTimestamp(x, c[h].ts)
  <2>1. CASE h = Len(c)
    BY <1>3, <1>6, <2>1
  <2>2. CASE h # Len(c)
    <3>1. h \in 1 .. Len(p) /\ DOMAIN p = 1 .. Len(p)
      BY <1>1, <1>3, <2>2, BlockFacts
    <3> QED
      BY <1>3, <3>1 DEF Timely
  <2> QED
    BY <2>1, <2>2
<1>9. Timely(c)
  <2>1. DOMAIN c = 1 .. Len(c) /\ Height(c) <= MaxHeight
    BY <1>1, <1>3, BlockFacts DEF Height
  <2> QED
    BY <1>3, <1>7, <1>8, <2>1 DEF Timely
<1> QED
  BY <1>3, <1>4, <1>6, <1>9

(* A block with new transactions on a parent without repetitions has none.   *)
LEMMA FreshBlock ==
    ASSUME NEW b, Timely(b), Len(b) # 0, NoneTwice(Front(b)), Fresh(b)
    PROVE  NoneTwice(b)
<1>1. b \in Seq(Payloads) /\ Len(b) \in Nat \ {0} /\ DOMAIN b = 1 .. Len(b)
  BY TimelyFacts, BlockFacts
<1>2. /\ Front(b) \in Seq(Payloads) /\ Len(Front(b)) = Len(b) - 1
      /\ \A i \in 1 .. Len(b) - 1 : Front(b)[i] = b[i]
  BY FrontFacts
<1>3. Containers(b) = b[Len(b)].txs
  BY <1>1, BlockFacts
<1>4. ASSUME NEW g \in 1 .. Len(b) - 1, NEW i \in DOMAIN b[g].txs,
             NEW j \in DOMAIN b[Len(b)].txs, b[g].txs[i] = b[Len(b)].txs[j]
      PROVE  FALSE
  <2>1. b[g].txs[i] \in ToSet(b[g].txs) /\ b[Len(b)].txs[j] \in ToSet(b[Len(b)].txs)
    BY DEF ToSet
  <2>2. b[g].txs[i] \in TxsOn(Front(b))
    BY <1>2, <2>1, TxsOnFacts
  <2> QED
    BY <1>3, <1>4, <2>1, <2>2 DEF Fresh
<1>5. ASSUME NEW g \in DOMAIN b, NEW h \in DOMAIN b, NEW i \in DOMAIN b[g].txs,
             NEW j \in DOMAIN b[h].txs, b[g].txs[i] = b[h].txs[j]
      PROVE  g = h /\ i = j
  <2>1. CASE g # Len(b) /\ h # Len(b)
    <3>1. g \in 1 .. Len(b) - 1 /\ h \in 1 .. Len(b) - 1
      BY <1>1, <2>1
    <3>2. g \in DOMAIN Front(b) /\ h \in DOMAIN Front(b)
      BY <1>2, <3>1, BlockFacts
    <3> QED
      BY <1>2, <1>5, <3>1, <3>2 DEF NoneTwice
  <2>2. CASE g = Len(b) /\ h = Len(b)
    BY <1>3, <1>5, <2>2 DEF Fresh, IsInjective
  <2>3. CASE g # Len(b) /\ h = Len(b)
    BY <1>1, <1>4, <1>5, <2>3
  <2>4. CASE g = Len(b) /\ h # Len(b)
    BY <1>1, <1>4, <1>5, <2>4
  <2> QED
    BY <2>1, <2>2, <2>3, <2>4
<1> QED
  BY <1>5 DEF NoneTwice

-----------------------------------------------------------------------------
(* What AcceptRange and Ahead compute                                        *)

(* What AcceptRange asks of the function that accepts block after block.     *)
Accepting(w, b, from, f) ==
    f = [n \in Nat |-> IF n = 0 THEN w ELSE WindowAccept(f[n - 1], Ancestor(b, from + n - 1))]

LEMMA AcceptingExists ==
    ASSUME NEW w, w \in [seen : SUBSET Txs, height : Nat], NEW b, NEW from \in Nat
    PROVE  \E f : Accepting(w, b, from, f)
<1> DEFINE U == Txs \cup UNION {ToSet(Containers(Ancestor(b, k))) : k \in Int}
           V == Nat \cup {Height(Ancestor(b, k)) : k \in Int}
           D == [seen : SUBSET U, height : V]
           G == [n \in Nat |-> [d \in D |-> WindowAccept(d, Ancestor(b, from + n - 1))]]
<1>1. w \in D
  OBVIOUS
<1>2. ASSUME NEW n \in Nat, NEW d \in D PROVE WindowAccept(d, Ancestor(b, from + n - 1)) \in D
  <2>1. PICK k \in Int : k = from + n - 1
    OBVIOUS
  <2>2. ToSet(Containers(Ancestor(b, k))) \subseteq U /\ Height(Ancestor(b, k)) \in V
    OBVIOUS
  <2> HIDE DEF U, V
  <2>3. d.seen \subseteq U
    OBVIOUS
  <2> QED
    BY <2>1, <2>2, <2>3 DEF WindowAccept, Add, SetMin
<1>3. G \in [Nat -> [D -> D]]
  <2> HIDE DEF D
  <2> QED
    BY <1>2
<1>4. \A n \in Nat, d \in D : G[n][d] = WindowAccept(d, Ancestor(b, from + n - 1))
  OBVIOUS
<1> HIDE DEF D, G
<1>5. PICK f \in [Nat -> D] : Recursive(w, G, f)
  BY <1>1, <1>3, NatRecursion
<1>6. \A n \in Nat :
          f[n] = IF n = 0 THEN w ELSE WindowAccept(f[n - 1], Ancestor(b, from + n - 1))
  <2>1. ASSUME NEW n \in Nat \ {0}
        PROVE  f[n] = WindowAccept(f[n - 1], Ancestor(b, from + n - 1))
    <3>1. f[n - 1] \in D
      OBVIOUS
    <3> QED
      BY <1>4, <1>5, <3>1 DEF Recursive
  <2> QED
    BY <1>5, <2>1 DEF Recursive
<1>7. f = [n \in Nat |-> f[n]]
  OBVIOUS
<1>8. f = [n \in Nat |-> IF n = 0 THEN w ELSE WindowAccept(f[n - 1], Ancestor(b, from + n - 1))]
  BY <1>6, <1>7, Zenon
<1> QED
  BY <1>8, Zenon DEF Accepting

(* It accepts the blocks from a height on, one after the other.              *)
AcceptsFrom(w, b, from, f) ==
    /\ f[0] = w
    /\ \A n \in Nat \ {0} : f[n] = WindowAccept(f[n - 1], Ancestor(b, from + n - 1))

LEMMA AcceptRangeIs ==
    ASSUME NEW w, w \in [seen : SUBSET Txs, height : Nat], NEW b, NEW from \in Nat, NEW to
    PROVE  \E f : AcceptRange(w, b, from, to) = f[to - from + 1] /\ AcceptsFrom(w, b, from, f)
<1> DEFINE f == CHOOSE g : Accepting(w, b, from, g)
<1>1. Accepting(w, b, from, f)
  BY AcceptingExists, Zenon
<1>2. AcceptRange(w, b, from, to) = f[to - from + 1]
  BY Zenon DEF AcceptRange, Accepting
<1> HIDE DEF f
<1>3. \A n \in Nat :
          f[n] = IF n = 0 THEN w ELSE WindowAccept(f[n - 1], Ancestor(b, from + n - 1))
  BY <1>1, Zenon DEF Accepting
<1>4. f[0] = w
  BY <1>3
<1>5. \A n \in Nat \ {0} : f[n] = WindowAccept(f[n - 1], Ancestor(b, from + n - 1))
  BY <1>3
<1>6. AcceptsFrom(w, b, from, f)
  BY <1>4, <1>5 DEF AcceptsFrom
<1> QED
  BY <1>2, <1>6

(* The map gets the transactions of the range that may still be valid, and   *)
(* no others but those it had.                                               *)
LEMMA AcceptRangeFacts ==
    ASSUME NEW w, w \in [seen : SUBSET Txs, height : Nat], NEW b, Timely(b),
           NEW from \in Nat, NEW to \in Nat, from <= to + 1, to <= Len(b)
    PROVE  /\ AcceptRange(w, b, from, to) \in [seen : SUBSET Txs, height : Nat]
           /\ AcceptRange(w, b, from, to).seen \subseteq w.seen \cup TxsOn(b)
           /\ AcceptRange(w, b, from, to).height = IF from = to + 1 THEN w.height ELSE to
           /\ \A h \in 1 .. Len(b) : from <= h /\ h <= to =>
                  {x \in ToSet(b[h].txs) : Expiry[x] >= Timestamp(b)}
                      \subseteq AcceptRange(w, b, from, to).seen
<1>1. PICK f : AcceptRange(w, b, from, to) = f[to - from + 1] /\ AcceptsFrom(w, b, from, f)
  BY AcceptRangeIs
<1>2. b \in Seq(Payloads) /\ Len(b) \in Nat /\ Timestamp(b) \in Nat
  BY TimelyFacts, BlockFacts
<1> DEFINE Good(n) == /\ f[n] \in [seen : SUBSET Txs, height : Nat]
                      /\ f[n].seen \subseteq w.seen \cup TxsOn(b)
                      /\ f[n].height = IF n = 0 THEN w.height ELSE from + n - 1
                      /\ \A h \in 1 .. Len(b) : from <= h /\ h <= from + n - 1 =>
                             {x \in ToSet(b[h].txs) : Expiry[x] >= Timestamp(b)}
                                 \subseteq f[n].seen
           T == {n \in Nat : n <= to - from + 1 => Good(n)}
<1>3. 0 \in T
  <2>1. Good(0)
    BY <1>1 DEF AcceptsFrom
  <2> QED
    BY <2>1
<1>4. ASSUME NEW n \in T PROVE n + 1 \in T
  <2>1. n \in Nat /\ (n <= to - from + 1 => Good(n))
    OBVIOUS
  <2>2. ASSUME n + 1 <= to - from + 1 PROVE Good(n + 1)
    <3>1. Good(n)
      BY <2>1, <2>2
    <3> DEFINE k == from + n
               a == Ancestor(b, k)
    <3>2. k \in 0 .. Len(b)
      BY <1>2, <2>1, <2>2
    <3>3. f[n + 1] = WindowAccept(f[n], a)
      <4>1. n + 1 \in Nat \ {0} /\ (n + 1) - 1 = n /\ from + (n + 1) - 1 = k
        BY <2>1
      <4> QED
        BY <1>1, <4>1 DEF AcceptsFrom
    <3>4. Len(a) = k /\ Containers(a) = IF k = 0 THEN <<>> ELSE b[k].txs
      BY <1>2, <3>2, AncestorFacts
    <3>5. Timestamp(a) \in Nat /\ Timestamp(a) <= Timestamp(b)
      <4>1. Timestamp(a) = IF k = 0 THEN 0 ELSE b[k].ts
        BY <1>2, <3>2, AncestorFacts
      <4>2. Timestamp(b) = IF Len(b) = 0 THEN 0 ELSE b[Len(b)].ts
        BY <1>2, BlockFacts
      <4>3. CASE k # 0
        <5>1. k \in 1 .. Len(b) /\ Len(b) \in 1 .. Len(b)
          BY <1>2, <3>2, <4>3
        <5>2. b[k].ts + (Len(b) - k) <= b[Len(b)].ts /\ b[k].ts \in Nat /\ b[Len(b)].ts \in Nat
          BY <1>2, <5>1, TimelyFacts, SMTT(20)
        <5> HIDE DEF k, a
        <5> QED
          BY <1>2, <4>1, <4>2, <4>3, <5>1, <5>2
      <4> HIDE DEF k, a
      <4> QED
        BY <1>2, <4>1, <4>3
    <3>6. ToSet(Containers(a)) \subseteq TxsOn(b)
      <4>1. CASE k = 0
        BY <3>4, <4>1 DEF ToSet
      <4>2. CASE k # 0
        <5>1. k \in 1 .. Len(b)
          BY <3>2, <4>2
        <5> QED
          BY <1>2, <3>4, <4>2, <5>1, TxsOnFacts
      <4> QED
        BY <4>1, <4>2
    <3> HIDE DEF k, a
    <3>7. f[n + 1].height = k
      BY <3>3, <3>4 DEF WindowAccept, Height
    <3>8. f[n + 1].seen = {x \in f[n].seen : Expiry[x] >= Timestamp(a)}
                              \cup {x \in ToSet(Containers(a)) : Expiry[x] # 0}
      BY <3>3 DEF WindowAccept, Add, SetMin
    <3>9. f[n + 1] \in [seen : SUBSET Txs, height : Nat]
      <4>1. f[n + 1] = [seen |-> Add(SetMin(f[n].seen, Timestamp(a)), Containers(a)),
                        height |-> Height(a)]
        BY <3>3 DEF WindowAccept
      <4>2. f[n + 1].seen \subseteq Txs
        BY <1>2, <3>1, <3>6, <3>8, TxsOnFacts
      <4>3. Height(a) \in Nat
        BY <3>2, <3>4 DEF Height
      <4> QED
        BY <4>1, <4>2, <4>3
    <3>10. f[n + 1].seen \subseteq w.seen \cup TxsOn(b)
      BY <3>1, <3>6, <3>8
    <3>11. ASSUME NEW h \in 1 .. Len(b), from <= h, h <= k,
                  NEW x \in ToSet(b[h].txs), Expiry[x] >= Timestamp(b)
           PROVE  x \in f[n + 1].seen
      <4>1. x \in Txs /\ Expiry[x] \in Nat /\ Expiry[x] >= b[h].ts /\ b[h].ts > Window
            /\ b[h].ts \in Nat /\ Window \in Nat
        BY TimelyFacts, WindowAssumption
      <4>2. CASE h = k
        <5>1. x \in ToSet(Containers(a)) /\ Expiry[x] # 0
          BY <3>4, <4>1, <4>2
        <5> QED
          BY <3>8, <5>1
      <4>3. CASE h # k
        <5>1. h <= from + n - 1
          BY <1>2, <2>1, <3>11, <4>3 DEF k
        <5>2. x \in f[n].seen
          BY <3>1, <3>11, <5>1
        <5>3. Expiry[x] >= Timestamp(a)
          BY <1>2, <3>5, <3>11, <4>1
        <5> QED
          BY <3>8, <5>2, <5>3
      <4> QED
        BY <4>2, <4>3
    <3>12. from + (n + 1) - 1 = k /\ n + 1 # 0
      BY <2>1 DEF k
    <3> QED
      BY <3>7, <3>9, <3>10, <3>11, <3>12
  <2> HIDE DEF Good
  <2> QED
    BY <2>1, <2>2
<1>5. T \in SUBSET Nat
  OBVIOUS
<1> HIDE DEF T
<1>6. T = Nat
  BY <1>3, <1>4, <1>5, NatSet
<1>7. PICK m \in Nat : m = to - from + 1
  OBVIOUS
<1>8. Good(m)
  <2>1. m \in T /\ m <= to - from + 1
    BY <1>6, <1>7
  <2> HIDE DEF Good
  <2> QED
    BY <2>1 DEF T
<1>9. AcceptRange(w, b, from, to) = f[m] /\ (m = 0 <=> from = to + 1) /\ from + m - 1 = to
  BY <1>1, <1>7
<1> QED
  BY <1>8, <1>9

(* What the network accepts above a block extends it, without repetitions.   *)
LEMMA AheadFacts ==
    ASSUME NEW b, Timely(b), NoneTwice(b), NEW c \in Ahead(b)
    PROVE  /\ Timely(c) /\ NoneTwice(c) /\ Len(b) < Len(c)
           /\ \A i \in 1 .. Len(b) : c[i] = b[i]
<1> DEFINE D == SUBSET Seq(Payloads)
           G == [n \in Nat |-> [L \in D |-> UNION {NetChildren(d) : d \in L}]]
           IsLevel(f) == f = [n \in Nat |-> IF n = 0 THEN {b}
                                            ELSE UNION {NetChildren(d) : d \in f[n - 1]}]
           level == CHOOSE f : IsLevel(f)
<1>1. \E f : IsLevel(f)
  <2>1. {b} \in D
    BY TimelyFacts
  <2>2. ASSUME NEW L \in D PROVE UNION {NetChildren(d) : d \in L} \in D
    <3>1. ASSUME NEW d \in L, NEW e \in NetChildren(d) PROVE e \in Seq(Payloads)
      <4>1. PICK q \in Payloads : e = Append(d, q)
        BY DEF NetChildren, Children
      <4> QED
        BY <4>1, AppendProperties
    <3> QED
      BY <3>1
  <2>3. G \in [Nat -> [D -> D]]
    <3> HIDE DEF D
    <3> QED
      BY <2>2
  <2>4. \A n \in Nat, L \in D : G[n][L] = UNION {NetChildren(d) : d \in L}
    OBVIOUS
  <2> HIDE DEF D, G
  <2>5. PICK f \in [Nat -> D] : Recursive({b}, G, f)
    BY <2>1, <2>3, NatRecursion
  <2>6. \A n \in Nat : f[n] = IF n = 0 THEN {b} ELSE UNION {NetChildren(d) : d \in f[n - 1]}
    <3>1. ASSUME NEW n \in Nat \ {0} PROVE f[n] = UNION {NetChildren(d) : d \in f[n - 1]}
      <4>1. f[n - 1] \in D
        OBVIOUS
      <4> QED
        BY <2>4, <2>5, <4>1 DEF Recursive
    <3> QED
      BY <2>5, <3>1 DEF Recursive
  <2>7. f = [n \in Nat |-> f[n]]
    OBVIOUS
  <2>8. f = [n \in Nat |-> IF n = 0 THEN {b} ELSE UNION {NetChildren(d) : d \in f[n - 1]}]
    BY <2>6, <2>7, Zenon
  <2> QED
    BY <2>8, Zenon
<1>2. IsLevel(level)
  BY <1>1, Zenon
<1>3. Ahead(b) = UNION {level[n] : n \in 1 .. MaxHeight}
  BY Zenon DEF Ahead
<1> HIDE DEF level
<1>4. \A n \in Nat : level[n] = IF n = 0 THEN {b}
                                ELSE UNION {NetChildren(d) : d \in level[n - 1]}
  BY <1>2, Zenon
<1> HIDE DEF IsLevel
<1> DEFINE Good(d, n) == /\ Timely(d) /\ NoneTwice(d) /\ Len(d) = Len(b) + n
                         /\ \A i \in 1 .. Len(b) : d[i] = b[i]
           T == {n \in Nat : \A d \in level[n] : Good(d, n)}
<1>5. Len(b) \in Nat
  BY TimelyFacts
<1>6. 0 \in T
  <2>1. level[0] = {b}
    BY <1>4
  <2>2. Good(b, 0)
    BY <1>5
  <2> HIDE DEF Good
  <2> QED
    BY <2>1, <2>2
<1>7. ASSUME NEW n \in T PROVE n + 1 \in T
  <2>1. n \in Nat /\ \A d \in level[n] : Good(d, n)
    OBVIOUS
  <2>2. level[n + 1] = UNION {NetChildren(d) : d \in level[n]}
    <3>1. n + 1 \in Nat /\ n + 1 # 0 /\ (n + 1) - 1 = n
      BY <2>1
    <3> QED
      BY <1>4, <3>1
  <2>3. ASSUME NEW d \in level[n], NEW e \in NetChildren(d) PROVE Good(e, n + 1)
    <3>1. Good(d, n)
      BY <2>1
    <3>2. e \in Children(d) /\ NoneTwice(e)
      BY DEF NetChildren
    <3>3. Timely(e) /\ Len(e) = Len(d) + 1 /\ \A i \in 1 .. Len(d) : e[i] = d[i]
      BY <3>1, <3>2, ChildFacts
    <3>4. \A i \in 1 .. Len(b) : i \in 1 .. Len(d)
      BY <1>5, <2>1, <3>1
    <3> QED
      BY <1>5, <2>1, <3>1, <3>2, <3>3, <3>4
  <2> HIDE DEF Good
  <2> QED
    BY <2>1, <2>2, <2>3
<1>8. T \in SUBSET Nat
  OBVIOUS
<1> HIDE DEF T
<1>9. T = Nat
  BY <1>6, <1>7, <1>8, NatSet
<1>10. PICK n \in 1 .. MaxHeight : c \in level[n]
  BY <1>3
<1>11. n \in Nat \ {0}
  BY WindowAssumption
<1>12. Good(c, n)
  <2> HIDE DEF Good
  <2> QED
    BY <1>9, <1>10, <1>11 DEF T
<1> QED
  BY <1>5, <1>11, <1>12

-----------------------------------------------------------------------------
(* The window                                                                *)

LEMMA OldestFacts ==
    ASSUME NEW t \in Nat
    PROVE  /\ OldestAllowed(t) \in Nat /\ OldestAllowed(t) <= t
           /\ \A s \in Nat : s < OldestAllowed(t) <=> s + Window < t
  BY WindowAssumption DEF OldestAllowed

LEMMA TimeGrows ==
    ASSUME NEW b, Timely(b), NEW g \in 0 .. Len(b), NEW h \in 0 .. Len(b), g <= h
    PROVE  Timestamp(Ancestor(b, g)) <= Timestamp(Ancestor(b, h))
<1>1. b \in Seq(Payloads) /\ Len(b) \in Nat
  BY TimelyFacts
<1>2. /\ Timestamp(Ancestor(b, g)) = IF g = 0 THEN 0 ELSE b[g].ts
      /\ Timestamp(Ancestor(b, h)) = IF h = 0 THEN 0 ELSE b[h].ts
      /\ Timestamp(Ancestor(b, h)) \in Nat
  BY <1>1, AncestorFacts
<1>3. CASE g = 0
  BY <1>2, <1>3
<1>4. CASE g # 0
  <2>1. g \in 1 .. Len(b) /\ h \in 1 .. Len(b)
    BY <1>1, <1>4
  <2>2. b[g].ts + (h - g) <= b[h].ts /\ b[g].ts \in Nat /\ b[h].ts \in Nat
    BY <2>1, TimelyFacts
  <2> QED
    BY <1>2, <2>1, <2>2
<1> QED
  BY <1>3, <1>4

(* No transaction up to a block older than the window of t is valid at t.    *)
LEMMA OlderExpired ==
    ASSUME NEW b, Timely(b), NEW h \in 0 .. Len(b), NEW t \in Nat,
           Timestamp(Ancestor(b, h)) < OldestAllowed(t),
           NEW g \in 1 .. Len(b), g <= h, NEW x \in ToSet(b[g].txs)
    PROVE  Expiry[x] < t
<1>1. b \in Seq(Payloads) /\ Len(b) \in Nat /\ h \in 1 .. Len(b)
  BY TimelyFacts
<1>2. Timestamp(Ancestor(b, h)) = b[h].ts
  BY <1>1, AncestorFacts
<1>3. /\ b[g].ts + (h - g) <= b[h].ts /\ b[g].ts \in Nat /\ b[h].ts \in Nat
      /\ Expiry[x] <= b[g].ts + Window /\ x \in Txs
  BY <1>1, TimelyFacts
<1>4. b[h].ts + Window < t
  BY <1>2, <1>3, OldestFacts
<1>5. Expiry[x] \in Nat /\ Window \in Nat
  BY <1>3, WindowAssumption
<1> QED
  BY <1>1, <1>3, <1>4, <1>5, SMTT(20)

(* Where populate stops.                                                     *)
PopulateEnds(ix, b, h) ==
    \/ h = 0
    \/ h < Height(b) /\ Timestamp(Ancestor(b, h)) < OldestAllowed(Timestamp(b))
    \/ ~HasBlock(ix, h - 1)

LEMMA PopulateLowFacts ==
    ASSUME NEW b, Len(b) \in Nat, NEW ix
    PROVE  /\ PopulateLow(ix, b) \in 0 .. Len(b)
           /\ PopulateEnds(ix, b, PopulateLow(ix, b))
           /\ \A h \in 0 .. Len(b) : PopulateEnds(ix, b, h) => h <= PopulateLow(ix, b)
<1> DEFINE T == {h \in 0 .. Len(b) : PopulateEnds(ix, b, h)}
<1>1. PopulateLow(ix, b) = Max(T)
  BY DEF PopulateLow, PopulateEnds, Height
<1>2. 0 \in T
  BY DEF PopulateEnds
<1>3. T \in SUBSET (0 .. Len(b)) /\ T # {}
  BY <1>2
<1> HIDE DEF T
<1>4. Max(T) \in T /\ \A k \in T : k <= Max(T)
  BY <1>3, GreatestIn
<1> QED
  BY <1>1, <1>4 DEF T

LEMMA PopulateFacts ==
    ASSUME NEW b, Timely(b), NEW w, w \in [seen : SUBSET Txs, height : Nat], NEW ix
    PROVE  /\ Populate(w, ix, b) \in [seen : SUBSET Txs, height : Nat]
           /\ Populate(w, ix, b).seen \subseteq w.seen \cup TxsOn(b)
           /\ Populate(w, ix, b).height = Len(b)
           /\ Complete(ix, b) =>
                 \A h \in 1 .. Len(b) :
                     {x \in ToSet(b[h].txs) : Expiry[x] >= Timestamp(b)}
                         \subseteq Populate(w, ix, b).seen
<1>1. Len(b) \in Nat /\ b \in Seq(Payloads) /\ Timestamp(b) \in Nat
  BY TimelyFacts, BlockFacts
<1>2. PICK low \in 0 .. Len(b) : low = PopulateLow(ix, b)
  BY <1>1, PopulateLowFacts
<1>3. Populate(w, ix, b) = AcceptRange(w, b, low, Len(b))
  BY <1>2 DEF Populate, Height
<1>4. PICK to \in Nat : to = Len(b)
  BY <1>1
<1>5. /\ Populate(w, ix, b) \in [seen : SUBSET Txs, height : Nat]
      /\ Populate(w, ix, b).seen \subseteq w.seen \cup TxsOn(b)
      /\ Populate(w, ix, b).height = Len(b)
      /\ \A h \in 1 .. Len(b) : low <= h /\ h <= Len(b) =>
            {x \in ToSet(b[h].txs) : Expiry[x] >= Timestamp(b)}
                \subseteq Populate(w, ix, b).seen
  <2>1. low \in Nat /\ low <= to + 1 /\ low # to + 1 /\ to <= Len(b)
    BY <1>4
  <2>2. /\ AcceptRange(w, b, low, to) \in [seen : SUBSET Txs, height : Nat]
        /\ AcceptRange(w, b, low, to).seen \subseteq w.seen \cup TxsOn(b)
        /\ AcceptRange(w, b, low, to).height = to
        /\ \A h \in 1 .. Len(b) : low <= h /\ h <= to =>
              {x \in ToSet(b[h].txs) : Expiry[x] >= Timestamp(b)}
                  \subseteq AcceptRange(w, b, low, to).seen
    BY <2>1, AcceptRangeFacts
  <2> QED
    BY <1>3, <1>4, <2>2
<1>6. ASSUME Complete(ix, b), NEW h \in 1 .. Len(b),
             NEW x \in ToSet(b[h].txs), Expiry[x] >= Timestamp(b)
      PROVE  x \in Populate(w, ix, b).seen
  <2>1. CASE low <= h
    BY <1>1, <1>5, <1>6, <2>1
  <2>2. CASE h < low
    <3>1. Timestamp(Ancestor(b, low)) < OldestAllowed(Timestamp(b))
      BY <1>2, <1>6, <2>2 DEF Complete
    <3>2. Expiry[x] < Timestamp(b)
      BY <1>1, <2>2, <3>1, OlderExpired
    <3>3. Expiry[x] \in Nat
      BY <1>6, TimelyFacts, WindowAssumption
    <3> QED
      BY <1>1, <1>6, <3>2, <3>3
  <2> QED
    BY <1>1, <2>1, <2>2
<1> QED
  BY <1>5, <1>6

-----------------------------------------------------------------------------
(* Replay protection                                                         *)

(* What the absence of repetitions rests on.                                 *)
SafeInv == WindowTypeOK /\ ForksInv /\ SeenInv

LEMMA TypeFacts ==
    ASSUME SafeInv
    PROVE  /\ Timely(chain) /\ NoneTwice(chain)
           /\ chain \in Seq(Payloads) /\ Len(chain) \in Nat /\ DOMAIN chain = 1 .. Len(chain)
           /\ Timestamp(chain) \in Nat
           /\ done \in 0 .. Len(chain)
           /\ win \in [seen : SUBSET Txs, height : Nat] /\ win.height <= Len(chain)
           /\ win.seen \subseteq TxsOn(chain)
           /\ index.last = Len(chain) /\ index.stored \subseteq 0 .. Len(chain)
           /\ unchecked \subseteq processing
<1>1. Timely(chain) /\ NoneTwice(chain)
  BY DEF SafeInv, ForksInv
<1>2. chain \in Seq(Payloads) /\ Len(chain) \in Nat /\ DOMAIN chain = 1 .. Len(chain)
      /\ Timestamp(chain) \in Nat
  BY <1>1, TimelyFacts, BlockFacts
<1>3. /\ done \in 0 .. Len(chain)
      /\ win \in [seen : SUBSET Txs, height : 0 .. Len(chain)]
      /\ index \in [last : {Len(chain)}, stored : SUBSET (0 .. Len(chain))]
      /\ unchecked \subseteq processing
  BY DEF SafeInv, WindowTypeOK, Height
<1>4. win \in [seen : SUBSET Txs, height : Nat] /\ win.height <= Len(chain)
  BY <1>2, <1>3
<1>5. index.last = Len(chain) /\ index.stored \subseteq 0 .. Len(chain)
  BY <1>3
<1> QED
  BY <1>1, <1>2, <1>3, <1>4, <1>5 DEF SafeInv, SeenInv

LEMMA ParentFacts ==
    ASSUME SafeInv, NEW p \in Parents
    PROVE  /\ Timely(p) /\ p \in Seq(Payloads) /\ Len(p) \in Nat
           /\ Len(chain) <= Len(p) /\ \A i \in 1 .. Len(chain) : p[i] = chain[i]
           /\ Timestamp(p) \in Nat /\ Timestamp(chain) <= Timestamp(p)
<1>1. Timely(chain) /\ chain \in Seq(Payloads) /\ Len(chain) \in Nat
  BY TypeFacts
<1>2. Timely(p) /\ (p # chain => IsStrictPrefix(chain, p))
  BY <1>1 DEF SafeInv, ForksInv, Parents
<1>3. p \in Seq(Payloads) /\ Len(p) \in Nat /\ Timestamp(p) \in Nat
  BY <1>2, TimelyFacts, BlockFacts
<1>4. Len(chain) <= Len(p) /\ \A i \in 1 .. Len(chain) : p[i] = chain[i]
  BY <1>1, <1>2, <1>3, PrefixFacts
<1>5. Timestamp(chain) <= Timestamp(p)
  <2>1. Len(chain) \in 0 .. Len(p) /\ Len(p) \in 0 .. Len(p)
    BY <1>1, <1>3, <1>4
  <2>2. Ancestor(p, Len(chain)) = chain
    BY <1>1, <1>3, <1>4, SameAncestor, WholeAncestor
  <2>3. Ancestor(p, Len(p)) = p
    BY <1>3, WholeAncestor
  <2>4. Timestamp(Ancestor(p, Len(chain))) <= Timestamp(Ancestor(p, Len(p)))
    BY <1>2, <1>4, <2>1, TimeGrows
  <2> QED
    BY <2>2, <2>3, <2>4
<1> QED
  BY <1>2, <1>3, <1>4, <1>5

(* Where isRepeat's walk stops.                                              *)
WalkEnds(w, b, old, h) ==
    \/ Timestamp(Ancestor(b, h)) < old
    \/ h <= w.height \/ h = 0
    \/ ~Available(Ancestor(b, h - 1))

LEMMA WalkFacts ==
    ASSUME NEW w, NEW b, Len(b) \in Nat, NEW old
    PROVE  /\ WalkEnd(w, b, old) \in 0 .. Len(b)
           /\ WalkEnds(w, b, old, WalkEnd(w, b, old))
<1> DEFINE T == {h \in 0 .. Len(b) : WalkEnds(w, b, old, h)}
<1>1. WalkEnd(w, b, old) = Max(T)
  BY DEF WalkEnd, WalkEnds, Height
<1>2. 0 \in T
  BY DEF WalkEnds
<1>3. T \in SUBSET (0 .. Len(b)) /\ T # {}
  BY <1>2
<1> HIDE DEF T
<1>4. Max(T) \in T
  BY <1>3, GreatestIn
<1> QED
  BY <1>1, <1>4 DEF T

(* In normal operation a walk that does not fail finds every transaction     *)
(* that may still be valid.                                                  *)
LEMMA WalkFinds ==
    ASSUME SafeInv, phase = "normal", NEW p \in Parents,
           NEW t \in Nat, t > Timestamp(p),
           ~RepeatFails(win, p, OldestAllowed(t)),
           NEW x \in TxsOn(p), Expiry[x] >= t
    PROVE  x \in Repeats(win, p, OldestAllowed(t))
<1>1. /\ Timely(p) /\ p \in Seq(Payloads) /\ Len(p) \in Nat
      /\ Len(chain) <= Len(p) /\ \A i \in 1 .. Len(chain) : p[i] = chain[i]
      /\ Timestamp(p) \in Nat /\ Timestamp(chain) <= Timestamp(p)
  BY ParentFacts
<1>2. PICK g \in 1 .. Len(p) : x \in ToSet(p[g].txs)
  BY <1>1, TxsOnFacts
<1>3. PICK h \in 0 .. Len(p) : h = WalkEnd(win, p, OldestAllowed(t))
  BY <1>1, WalkFacts
<1>4. x \in Txs /\ Expiry[x] \in Nat
  BY <1>1, <1>2, TimelyFacts, WindowAssumption
<1>5. CASE g > h
  <2>1. g \in 0 .. Len(p) /\ Containers(Ancestor(p, g)) = p[g].txs
    <3>1. g \in 0 .. Len(p) /\ g # 0
      BY <1>1
    <3> QED
      BY <1>1, <3>1, AncestorFacts
  <2>2. g \in h + 1 .. Height(p)
    BY <1>1, <1>5 DEF Height
  <2>3. x \in UNION {ToSet(Containers(Ancestor(p, k))) : k \in h + 1 .. Height(p)}
    BY <1>2, <2>1, <2>2
  <2> QED
    BY <1>3, <2>3 DEF Repeats
<1>6. CASE g <= h
  <2>1. ~(Timestamp(Ancestor(p, h)) < OldestAllowed(t))
    <3>1. SUFFICES ASSUME Timestamp(Ancestor(p, h)) < OldestAllowed(t) PROVE FALSE
      OBVIOUS
    <3>2. Expiry[x] < t
      BY <1>1, <1>2, <1>6, <3>1, OlderExpired
    <3> QED
      BY <1>4, <3>2
  <2>2. h <= win.height
    <3>1. Timestamp(Ancestor(p, h)) \in Nat /\ OldestAllowed(t) \in Nat
      BY <1>1, AncestorFacts, OldestFacts
    <3>2. ~(h > win.height) \/ h = 0
      BY <1>3, <2>1, <3>1 DEF RepeatFails
    <3>3. win.height \in Nat
      BY TypeFacts
    <3> QED
      BY <1>1, <1>6, <3>2, <3>3
  <2>3. g <= win.height /\ g \in DOMAIN chain
    BY <1>1, <1>6, <2>2, TypeFacts
  <2>4. x \in ToSet(chain[g].txs)
    BY <1>1, <1>2, <2>3, TypeFacts
  <2>5. Expiry[x] >= Timestamp(chain)
    BY <1>1, <1>4, TypeFacts
  <2>6. x \in win.seen
    BY <2>3, <2>4, <2>5 DEF SafeInv, SeenInv
  <2> QED
    BY <1>3, <2>1, <2>6 DEF Repeats
<1> QED
  BY <1>1, <1>3, <1>5, <1>6

(* What is verified in normal operation has new transactions.                *)
LEMMA VerifiedIsFresh ==
    ASSUME SafeInv, phase = "normal", NEW p \in Parents, NEW b \in Children(p),
           VerifyExpiryReplayProtection(b)
    PROVE  Fresh(b)
<1>1. /\ Timely(p) /\ p \in Seq(Payloads) /\ Len(p) \in Nat /\ Len(chain) <= Len(p)
      /\ Timestamp(p) \in Nat
  BY ParentFacts
<1>2. Timely(b) /\ Len(b) = Len(p) + 1 /\ Front(b) = p /\ Timestamp(b) > Timestamp(p)
  BY <1>1, ChildFacts
<1>3. ~(Height(b) <= win.height)
  BY <1>1, <1>2, TypeFacts DEF Height
<1>4. /\ IsInjective(Containers(b))
      /\ ~RepeatFails(win, p, OldestAllowed(Timestamp(b)))
      /\ ToSet(Containers(b)) \cap Repeats(win, p, OldestAllowed(Timestamp(b))) = {}
  BY <1>2, <1>3 DEF VerifyExpiryReplayProtection, IsRepeat
<1>5. Timestamp(b) \in Nat /\ Len(b) \in 1 .. Len(b)
      /\ Timestamp(b) = b[Len(b)].ts /\ Containers(b) = b[Len(b)].txs
  BY <1>1, <1>2, TimelyFacts, BlockFacts
<1>6. ASSUME NEW x \in ToSet(Containers(b)), x \in TxsOn(p) PROVE FALSE
  <2>1. Expiry[x] >= Timestamp(b)
    BY <1>2, <1>5, TimelyFacts
  <2>2. x \in Repeats(win, p, OldestAllowed(Timestamp(b)))
    BY <1>2, <1>4, <1>5, <1>6, <2>1, WalkFinds
  <2> QED
    BY <1>4, <2>2
<1> QED
  BY <1>2, <1>4, <1>6 DEF Fresh

-----------------------------------------------------------------------------
(* No repetitions: the steps                                                 *)

NodeTypes ==
    /\ done \in 0 .. Height(chain) /\ restarts \in 0 .. MaxRestarts
    /\ win \in [seen : SUBSET Txs, height : 0 .. Height(chain)]
    /\ index \in [last : {Height(chain)}, stored : SUBSET (0 .. Height(chain))]
    /\ unchecked \subseteq processing
    /\ phase \in {"bootstrap", "syncing", "ready", "normal", "failed", "down"}

SyncTypes ==
    /\ {first, oldest, lastBlock} \subseteq 0 .. Height(chain)
    /\ minTimestamp \in Nat /\ syncDone \in BOOLEAN
    /\ client \in {"none", "run", "closed", "cancelled"}
    /\ resultChan \in {<<>>} \cup {<<h>> : h \in 0 .. Height(chain)}

LEMMA TypesSplit == WindowTypeOK <=> NodeTypes /\ SyncTypes
  BY DEF WindowTypeOK, NodeTypes, SyncTypes

LEMMA SyncFrame ==
    ASSUME SafeInv, UNCHANGED <<first, oldest, minTimestamp, client, lastBlock, resultChan, syncDone>>,
           Len(chain') \in Nat, Len(chain) <= Len(chain')
    PROVE  SyncTypes'
<1>1. SyncTypes /\ Len(chain) \in Nat
  BY TypesSplit, TypeFacts DEF SafeInv
<1>2. 0 .. Len(chain) \subseteq 0 .. Len(chain')
  BY <1>1
<1> QED
  BY <1>1, <1>2 DEF SyncTypes, Height

(* The accepted chain grows: what is on other forks goes.                    *)
LEMMA DecideForks ==
    ASSUME SafeInv, NEW b, Timely(b), NoneTwice(b), Len(chain) < Len(b),
           \A i \in 1 .. Len(chain) : b[i] = chain[i],
           chain' = b,
           processing' = {c \in processing : IsStrictPrefix(b, c)},
           unchecked' = unchecked \cap processing',
           phase' \in {"bootstrap", "syncing", "down"} => processing = {}
    PROVE  ForksInv' /\ unchecked' \subseteq processing'
<1>1. b \in Seq(Payloads) /\ Len(b) \in Nat /\ chain \in Seq(Payloads) /\ Len(chain) \in Nat
  BY TimelyFacts, TypeFacts
<1>2. ASSUME NEW c \in processing'
      PROVE  /\ Timely(c) /\ IsStrictPrefix(b, c)
             /\ \A h \in Len(b) + 1 .. Len(c) : Ancestor(c, h) \in processing'
  <2>1. c \in processing /\ IsStrictPrefix(b, c)
    OBVIOUS
  <2>2. Timely(c) /\ \A h \in Len(chain) + 1 .. Len(c) : Ancestor(c, h) \in processing
    BY <2>1 DEF SafeInv, ForksInv, Height
  <2>3. c \in Seq(Payloads) /\ Len(c) \in Nat
    BY <2>2, TimelyFacts
  <2>4. Len(b) < Len(c) /\ \A i \in 1 .. Len(b) : b[i] = c[i]
    BY <1>1, <2>1, <2>3, PrefixFacts
  <2>5. ASSUME NEW h \in Len(b) + 1 .. Len(c) PROVE Ancestor(c, h) \in processing'
    <3>1. h \in Len(chain) + 1 .. Len(c) /\ h \in 0 .. Len(c) /\ Len(b) < h
      BY <1>1, <2>3
    <3>2. Ancestor(c, h) \in processing
      BY <2>2, <3>1
    <3>3. /\ Ancestor(c, h) \in Seq(Payloads) /\ Len(Ancestor(c, h)) = h
          /\ \A i \in 1 .. h : Ancestor(c, h)[i] = c[i]
      BY <2>3, <3>1, AncestorFacts
    <3>4. \A i \in 1 .. Len(b) : Ancestor(c, h)[i] = b[i]
      BY <1>1, <2>4, <3>1, <3>3
    <3>5. IsStrictPrefix(b, Ancestor(c, h))
      BY <1>1, <3>1, <3>3, <3>4, PrefixFacts
    <3> QED
      BY <3>2, <3>5
  <2> QED
    BY <2>1, <2>2, <2>5
<1>3. \A c \in processing' \ unchecked' : Fresh(c)
  BY DEF SafeInv, ForksInv
<1>4. phase' \in {"bootstrap", "syncing", "down"} => processing' = {}
  OBVIOUS
<1> QED
  BY <1>2, <1>3, <1>4 DEF ForksInv, Height

LEMMA UpdateFacts ==
    ASSUME NEW ix, NEW n \in Nat, NEW m \in Nat, n <= m, ix.stored \subseteq 0 .. n
    PROVE  UpdateLastAccepted(ix, m) \in [last : {m}, stored : SUBSET (0 .. m)]
<1>1. ix.stored \cup {m} \subseteq 0 .. m
  OBVIOUS
<1> QED
  BY <1>1 DEF UpdateLastAccepted

LEMMA SeenGrows ==
    ASSUME SafeInv, NEW b, Timely(b), Len(chain) < Len(b),
           \A i \in 1 .. Len(chain) : b[i] = chain[i],
           chain' = b, UNCHANGED <<done, win, phase>>
    PROVE  SeenInv'
<1>1. /\ b \in Seq(Payloads) /\ Len(b) \in Nat /\ Timestamp(b) \in Nat
      /\ chain \in Seq(Payloads) /\ Len(chain) \in Nat /\ Timestamp(chain) \in Nat
      /\ DOMAIN b = 1 .. Len(b) /\ DOMAIN chain = 1 .. Len(chain)
  BY TimelyFacts, TypeFacts, BlockFacts
<1>2. win.seen \subseteq TxsOn(b)
  <2>1. TxsOn(chain) \subseteq TxsOn(b)
    BY <1>1, TxsOnPrefix
  <2> QED
    BY <2>1, TypeFacts
<1>3. Timestamp(chain) <= Timestamp(b)
  <2>1. Len(chain) \in 0 .. Len(b) /\ Len(b) \in 0 .. Len(b)
    BY <1>1
  <2>2. Ancestor(b, Len(chain)) = chain
    BY <1>1, SameAncestor, WholeAncestor
  <2>3. Ancestor(b, Len(b)) = b
    BY <1>1, WholeAncestor
  <2>4. Timestamp(Ancestor(b, Len(chain))) <= Timestamp(Ancestor(b, Len(b)))
    BY <1>1, <2>1, TimeGrows
  <2> QED
    BY <2>2, <2>3, <2>4
<1>4. ASSUME phase = "normal", NEW h \in DOMAIN b, h <= done \/ h <= win.height,
             NEW x \in ToSet(b[h].txs), Expiry[x] >= Timestamp(b)
      PROVE  x \in win.seen
  <2>1. done \in 0 .. Len(chain) /\ win.height \in Nat /\ win.height <= Len(chain)
    BY TypeFacts
  <2>2. h \in 1 .. Len(chain)
    BY <1>1, <1>4, <2>1
  <2>3. x \in Txs /\ Expiry[x] \in Nat
    BY <1>1, <1>4, TimelyFacts, WindowAssumption
  <2>4. x \in ToSet(chain[h].txs) /\ Expiry[x] >= Timestamp(chain)
    BY <1>1, <1>3, <1>4, <2>2, <2>3
  <2> QED
    BY <1>1, <1>4, <2>2, <2>4 DEF SafeInv, SeenInv
<1> QED
  BY <1>2, <1>4 DEF SeenInv

LEMMA VerifyBlockSafe ==
    ASSUME SafeInv, NEW p \in Parents, NEW b \in Children(p), VerifyBlock(b), UNCHANGED syncVars
    PROVE  SafeInv'
<1>1. /\ processing' = processing \cup {b} /\ phase \in {"ready", "normal"}
      /\ UNCHANGED <<chain, done, index, win, phase, restarts>>
      /\ \/ phase = "normal" /\ VerifyExpiryReplayProtection(b) /\ unchecked' = unchecked
         \/ unchecked' = unchecked \cup {b}
  BY DEF VerifyBlock
<1>2. /\ Timely(p) /\ p \in Seq(Payloads) /\ Len(p) \in Nat
      /\ Len(chain) <= Len(p) /\ \A i \in 1 .. Len(chain) : p[i] = chain[i]
  BY ParentFacts
<1>3. Timely(b) /\ Len(b) = Len(p) + 1 /\ \A i \in 1 .. Len(p) : b[i] = p[i]
  BY <1>2, ChildFacts
<1>4. b \in Seq(Payloads) /\ chain \in Seq(Payloads) /\ Len(chain) \in Nat
  BY <1>3, TimelyFacts, TypeFacts
<1>5. IsStrictPrefix(chain, b)
  BY <1>2, <1>3, <1>4, PrefixFacts, SMTT(20)
<1>6. ASSUME NEW h \in Len(chain) + 1 .. Len(b) PROVE Ancestor(b, h) \in processing'
  <2>1. CASE h = Len(b)
    BY <1>1, <1>4, <2>1, WholeAncestor
  <2>2. CASE h # Len(b)
    <3>1. h \in Nat /\ h <= Len(p) /\ h <= Len(b) /\ Len(chain) < Len(p)
          /\ h \in Len(chain) + 1 .. Len(p)
      BY <1>2, <1>3, <1>4, <2>2
    <3>2. p \in processing
      BY <3>1, <1>4 DEF Parents
    <3>3. Ancestor(p, h) \in processing
      BY <3>1, <3>2 DEF SafeInv, ForksInv, Height
    <3>4. \A i \in 1 .. h : b[i] = p[i]
      BY <1>2, <1>3, <3>1
    <3>5. Ancestor(b, h) = Ancestor(p, h)
      BY <1>2, <1>4, <3>1, <3>4, SameAncestor
    <3> QED
      BY <1>1, <3>3, <3>5
  <2> QED
    BY <2>1, <2>2
<1>7. b \notin unchecked' => Fresh(b)
  BY <1>1, VerifiedIsFresh
<1>8. ForksInv'
  <2>1. Timely(chain)' /\ NoneTwice(chain)'
    BY <1>1 DEF SafeInv, ForksInv
  <2>2. ASSUME NEW c \in processing'
        PROVE  /\ Timely(c) /\ IsStrictPrefix(chain, c)
               /\ \A h \in Len(chain) + 1 .. Len(c) : Ancestor(c, h) \in processing'
               /\ c \notin unchecked' => Fresh(c)
    <3>1. CASE c = b
      BY <1>3, <1>5, <1>6, <1>7, <3>1
    <3>2. CASE c # b
      BY <1>1, <3>2 DEF SafeInv, ForksInv, Height
    <3> QED
      BY <3>1, <3>2
  <2>3. ~(phase' \in {"bootstrap", "syncing", "down"})
    BY <1>1
  <2> QED
    BY <1>1, <2>1, <2>2, <2>3 DEF ForksInv, Height
<1>9. SeenInv'
  BY <1>1 DEF SafeInv, SeenInv
<1>10. NodeTypes' /\ SyncTypes'
  BY <1>1, TypesSplit DEF SafeInv, NodeTypes, SyncTypes, syncVars, fetchVars
<1> QED
  BY <1>8, <1>9, <1>10, TypesSplit DEF SafeInv, WindowTypeOK, NodeTypes, SyncTypes

LEMMA DecideSafe ==
    ASSUME SafeInv, NEW b, Timely(b), NoneTwice(b), Len(chain) < Len(b),
           \A i \in 1 .. Len(chain) : b[i] = chain[i],
           Decide(b), UNCHANGED <<done, win, phase, restarts>>, UNCHANGED syncVars
    PROVE  SafeInv'
<1>1. /\ chain' = b /\ index' = UpdateLastAccepted(index, Len(b))
      /\ processing' = {c \in processing : IsStrictPrefix(b, c)}
      /\ unchecked' = unchecked \cap processing'
  BY DEF Decide, Height
<1>2. Len(b) \in Nat /\ Len(chain) \in Nat /\ NodeTypes
  BY TimelyFacts, TypeFacts, TypesSplit DEF SafeInv
<1>3. ForksInv' /\ unchecked' \subseteq processing'
  <2>1. phase' \in {"bootstrap", "syncing", "down"} => processing = {}
    BY DEF SafeInv, ForksInv
  <2> QED
    BY <1>1, <2>1, DecideForks
<1>4. SeenInv'
  BY <1>1, SeenGrows
<1>5. SyncTypes'
  <2>1. UNCHANGED <<first, oldest, minTimestamp, client, lastBlock, resultChan, syncDone>>
    BY DEF syncVars, fetchVars
  <2> QED
    BY <1>1, <1>2, <2>1, SyncFrame
<1>6. index' \in [last : {Len(b)}, stored : SUBSET (0 .. Len(b))]
  BY <1>1, <1>2, TypeFacts, UpdateFacts
<1>7. NodeTypes'
  <2>1. 0 .. Len(chain) \subseteq 0 .. Len(b)
    BY <1>2
  <2> QED
    BY <1>1, <1>2, <1>3, <1>6, <2>1 DEF NodeTypes, Height
<1>8. WindowTypeOK'
  BY <1>5, <1>7 DEF WindowTypeOK, NodeTypes, SyncTypes
<1> QED
  BY <1>3, <1>4, <1>8 DEF SafeInv

LEMMA AcceptBlockSafe ==
    ASSUME SafeInv, NEW b \in processing, AcceptBlock(b), UNCHANGED syncVars
    PROVE  SafeInv'
<1>1. /\ Front(b) = chain /\ (b \in unchecked => b \in NetChildren(chain))
      /\ Decide(b) /\ UNCHANGED <<done, win, phase, restarts>>
  BY DEF AcceptBlock
<1>2. Timely(b) /\ IsStrictPrefix(chain, b) /\ (b \notin unchecked => Fresh(b))
  BY DEF SafeInv, ForksInv
<1>3. b \in Seq(Payloads) /\ Len(b) \in Nat /\ chain \in Seq(Payloads) /\ Len(chain) \in Nat
  BY <1>2, TimelyFacts, TypeFacts
<1>4. Len(chain) < Len(b) /\ \A i \in 1 .. Len(chain) : b[i] = chain[i]
  BY <1>2, <1>3, PrefixFacts
<1>5. NoneTwice(b)
  <2>1. CASE b \in unchecked
    BY <1>1, <2>1 DEF NetChildren
  <2>2. CASE b \notin unchecked
    <3>1. Len(b) # 0 /\ NoneTwice(Front(b))
      BY <1>1, <1>3, <1>4, TypeFacts
    <3> QED
      BY <1>2, <2>2, <3>1, FreshBlock
  <2> QED
    BY <2>1, <2>2
<1> QED
  BY <1>1, <1>2, <1>4, <1>5, DecideSafe

LEMMA NetChildFacts ==
    ASSUME SafeInv, NEW b \in NetChildren(chain)
    PROVE  /\ Timely(b) /\ NoneTwice(b) /\ Len(b) = Len(chain) + 1 /\ Len(chain) < Len(b)
           /\ \A i \in 1 .. Len(chain) : b[i] = chain[i]
           /\ Timestamp(b) > Timestamp(chain)
<1>1. b \in Children(chain) /\ NoneTwice(b)
  BY DEF NetChildren
<1>2. Timely(chain) /\ Len(chain) \in Nat
  BY TypeFacts
<1> QED
  BY <1>1, <1>2, ChildFacts

LEMMA BootstrapBlockSafe ==
    ASSUME SafeInv, NEW b \in NetChildren(chain), BootstrapBlock(b), UNCHANGED syncVars
    PROVE  SafeInv'
<1>1. Decide(b) /\ UNCHANGED <<done, win, phase, restarts>>
  BY DEF BootstrapBlock
<1> QED
  BY <1>1, NetChildFacts, DecideSafe

(* A step that at most changes the phase to one without obligations.         *)
LEMMA PhaseSafe ==
    ASSUME SafeInv, UNCHANGED <<chain, processing, unchecked, done, index, win, restarts>>,
           SyncTypes', phase' = "failed" \/ phase' = phase
    PROVE  SafeInv'
<1>1. NodeTypes'
  BY TypesSplit DEF SafeInv, NodeTypes
<1>2. ForksInv'
  BY DEF SafeInv, ForksInv
<1>3. SeenInv'
  BY DEF SafeInv, SeenInv
<1> QED
  BY <1>1, <1>2, <1>3 DEF SafeInv, WindowTypeOK, NodeTypes, SyncTypes

LEMMA SyncSame ==
    ASSUME SafeInv, UNCHANGED syncVars, chain' = chain
    PROVE  SyncTypes'
  BY TypesSplit DEF SafeInv, SyncTypes, syncVars, fetchVars

LEMMA FailsSafe ==
    ASSUME SafeInv, NEW b,
           \/ AcceptFails(b) /\ UNCHANGED syncVars
           \/ TargetFails(b)
    PROVE  SafeInv'
<1>1. /\ UNCHANGED <<chain, processing, unchecked, done, index, win, restarts>>
      /\ UNCHANGED syncVars /\ phase' = "failed"
  BY DEF AcceptFails, TargetFails
<1> QED
  BY <1>1, SyncSame, PhaseSafe

LEMMA StartNormalOpSafe ==
    ASSUME SafeInv, StartNormalOp, UNCHANGED syncVars
    PROVE  SafeInv'
<1>1. /\ win' = Populate(win, index, chain)
      /\ phase' = IF Complete(index, chain) THEN "normal" ELSE "failed"
      /\ UNCHANGED <<chain, processing, unchecked, done, index, restarts>>
  BY DEF StartNormalOp
<1>2. /\ win' \in [seen : SUBSET Txs, height : Nat]
      /\ win'.seen \subseteq win.seen \cup TxsOn(chain)
      /\ win'.height = Len(chain)
      /\ Complete(index, chain) =>
            \A h \in 1 .. Len(chain) :
                {x \in ToSet(chain[h].txs) : Expiry[x] >= Timestamp(chain)} \subseteq win'.seen
  BY <1>1, TypeFacts, PopulateFacts
<1>3. NodeTypes'
  <2>1. win' \in [seen : SUBSET Txs, height : 0 .. Len(chain)]
    BY <1>2, TypeFacts
  <2> QED
    BY <1>1, <2>1, TypesSplit DEF SafeInv, NodeTypes, Height
<1>4. ForksInv'
  BY <1>1 DEF SafeInv, ForksInv
<1>5. SeenInv'
  <2>1. win'.seen \subseteq TxsOn(chain)
    BY <1>2, TypeFacts
  <2>2. phase' = "normal" =>
          \A h \in DOMAIN chain :
              {x \in ToSet(chain[h].txs) : Expiry[x] >= Timestamp(chain)} \subseteq win'.seen
    BY <1>1, <1>2, TypeFacts
  <2> QED
    BY <1>1, <2>1, <2>2 DEF SeenInv
<1> QED
  BY <1>1, <1>3, <1>4, <1>5, SyncSame DEF SafeInv, WindowTypeOK, NodeTypes, SyncTypes

LEMMA ProcessSafe ==
    ASSUME SafeInv, Process, UNCHANGED syncVars
    PROVE  SafeInv'
<1>1. /\ done < Height(chain) /\ done' = done + 1
      /\ win' = WindowAccept(win, Ancestor(chain, done + 1))
      /\ UNCHANGED <<chain, processing, unchecked, index, phase, restarts>>
  BY DEF Process
<1>2. /\ Timely(chain) /\ chain \in Seq(Payloads) /\ Len(chain) \in Nat
      /\ done \in 0 .. Len(chain) /\ Timestamp(chain) \in Nat
      /\ win \in [seen : SUBSET Txs, height : Nat] /\ win.height <= Len(chain)
      /\ win.seen \subseteq TxsOn(chain) /\ DOMAIN chain = 1 .. Len(chain)
  BY TypeFacts
<1>3. PICK k \in 1 .. Len(chain) : k = done + 1
  BY <1>1, <1>2 DEF Height
<1> DEFINE a == Ancestor(chain, k)
<1>4. /\ Len(a) = k /\ Containers(a) = chain[k].txs /\ Timestamp(a) \in Nat
  <2>1. k \in 0 .. Len(chain) /\ k # 0
    BY <1>2
  <2> QED
    BY <1>2, <2>1, AncestorFacts
<1>5. Timestamp(a) <= Timestamp(chain)
  <2>1. k \in 0 .. Len(chain) /\ Len(chain) \in 0 .. Len(chain) /\ k <= Len(chain)
    BY <1>2
  <2>2. Timestamp(a) <= Timestamp(Ancestor(chain, Len(chain)))
    BY <1>2, <2>1, TimeGrows
  <2> QED
    BY <1>2, <2>2, WholeAncestor
<1>6. win' = [seen |-> {x \in win.seen : Expiry[x] >= Timestamp(a)}
                           \cup {x \in ToSet(Containers(a)) : Expiry[x] # 0},
              height |-> k]
  BY <1>1, <1>3, <1>4 DEF WindowAccept, Add, SetMin, Height
<1> HIDE DEF a
<1>7. win'.seen \subseteq TxsOn(chain)
  <2>1. ToSet(Containers(a)) \subseteq TxsOn(chain)
    BY <1>2, <1>4, TxsOnFacts
  <2> QED
    BY <1>2, <1>6, <2>1
<1>8. NodeTypes'
  <2>1. TxsOn(chain) \subseteq Txs
    BY <1>2, TxsOnFacts
  <2>2. win' \in [seen : SUBSET Txs, height : 0 .. Len(chain)]
    BY <1>2, <1>6, <1>7, <2>1
  <2>3. done' \in 0 .. Len(chain)
    BY <1>1, <1>3
  <2> QED
    BY <1>1, <2>2, <2>3, TypesSplit DEF SafeInv, NodeTypes, Height
<1>9. ForksInv'
  BY <1>1 DEF SafeInv, ForksInv
<1>10. ASSUME phase = "normal", NEW h \in DOMAIN chain, h <= k,
              NEW x \in ToSet(chain[h].txs), Expiry[x] >= Timestamp(chain)
       PROVE  x \in win'.seen
  <2>1. x \in Txs /\ Expiry[x] \in Nat /\ Expiry[x] > Window /\ Window \in Nat
    <3>1. h \in 1 .. Len(chain)
      BY <1>2
    <3>2. x \in Txs /\ Expiry[x] >= chain[h].ts /\ chain[h].ts > Window /\ chain[h].ts \in Nat
      BY <1>2, <1>10, <3>1, TimelyFacts
    <3>3. Expiry[x] \in Nat /\ Window \in Nat
      BY <3>2, WindowAssumption
    <3> QED
      BY <3>2, <3>3
  <2>2. CASE h = k
    BY <1>4, <1>6, <1>10, <2>1, <2>2
  <2>3. CASE h # k
    <3>1. h <= done
      BY <1>2, <1>3, <1>10, <2>3
    <3>2. x \in win.seen
      BY <1>10, <3>1 DEF SafeInv, SeenInv
    <3>3. Expiry[x] >= Timestamp(a)
      BY <1>2, <1>4, <1>5, <1>10, <2>1
    <3> QED
      BY <1>6, <3>2, <3>3
  <2> QED
    BY <2>2, <2>3
<1>11. SeenInv'
  <2>1. win'.height = k /\ done' = k
    BY <1>1, <1>3, <1>6
  <2> QED
    BY <1>1, <1>7, <1>10, <2>1 DEF SeenInv
<1> QED
  BY <1>1, <1>8, <1>9, <1>11, SyncSame DEF SafeInv, WindowTypeOK, NodeTypes, SyncTypes

LEMMA StopSafe ==
    ASSUME SafeInv, Stop, UNCHANGED syncVars
    PROVE  SafeInv'
<1>1. /\ restarts < MaxRestarts /\ restarts' = restarts + 1
      /\ phase' = "down" /\ processing' = {} /\ unchecked' = {}
      /\ win' = [seen |-> {}, height |-> 0]
      /\ index' = CleanupOnStartup(index)
      /\ UNCHANGED <<chain, done>>
  BY DEF Stop
<1>2. NodeTypes /\ Len(chain) \in Nat
  BY TypesSplit, TypeFacts DEF SafeInv
<1>3. index' \in [last : {Len(chain)}, stored : SUBSET (0 .. Len(chain))]
  BY <1>1, <1>2 DEF NodeTypes, CleanupOnStartup, Height
<1>4. NodeTypes'
  <2>1. restarts' \in 0 .. MaxRestarts
    BY <1>1, <1>2, WindowAssumption DEF NodeTypes
  <2>2. win' \in [seen : SUBSET Txs, height : 0 .. Len(chain)]
    BY <1>1, <1>2
  <2> QED
    BY <1>1, <1>2, <1>3, <2>1, <2>2 DEF NodeTypes, Height
<1>5. ForksInv'
  BY <1>1 DEF SafeInv, ForksInv
<1>6. SeenInv'
  BY <1>1 DEF SeenInv
<1> QED
  BY <1>1, <1>4, <1>5, <1>6, SyncSame DEF SafeInv, WindowTypeOK, NodeTypes, SyncTypes

LEMMA StartSafe ==
    ASSUME SafeInv, Start, UNCHANGED syncVars
    PROVE  SafeInv'
<1> DEFINE w == Populate(win, index, Ancestor(chain, done))
<1>1. /\ phase = "down" /\ phase' = "bootstrap"
      /\ win' = AcceptRange(w, chain, done + 1, Height(chain))
      /\ done' = Height(chain)
      /\ UNCHANGED <<chain, processing, unchecked, index, restarts>>
  BY DEF Start
<1>2. /\ Timely(chain) /\ chain \in Seq(Payloads) /\ Len(chain) \in Nat
      /\ done \in 0 .. Len(chain)
      /\ win \in [seen : SUBSET Txs, height : Nat] /\ win.seen \subseteq TxsOn(chain)
  BY TypeFacts
<1>3. Timely(Ancestor(chain, done)) /\ TxsOn(Ancestor(chain, done)) \subseteq TxsOn(chain)
  <2>1. /\ Ancestor(chain, done) \in Seq(Payloads) /\ Len(Ancestor(chain, done)) = done
        /\ \A i \in 1 .. done : Ancestor(chain, done)[i] = chain[i]
    BY <1>2, AncestorFacts
  <2>2. DOMAIN Ancestor(chain, done) = 1 .. done /\ 1 .. done \subseteq DOMAIN chain
    BY <1>2, <2>1, BlockFacts
  <2>3. done <= MaxHeight
    BY <1>2, TimelyFacts, WindowAssumption
  <2>4. \A g, h \in 1 .. done : g < h =>
            Ancestor(chain, done)[g].ts + (h - g) <= Ancestor(chain, done)[h].ts
    BY <1>2, <2>1, <2>2 DEF Timely
  <2>5. \A h \in 1 .. done : \A x \in ToSet(Ancestor(chain, done)[h].txs) :
            VerifyTimestamp(x, Ancestor(chain, done)[h].ts)
    BY <1>2, <2>1, <2>2 DEF Timely
  <2>6. Timely(Ancestor(chain, done))
    BY <2>1, <2>2, <2>3, <2>4, <2>5 DEF Timely, Height
  <2> QED
    BY <1>2, <2>1, <2>6, TxsOnPrefix
<1>4. /\ w \in [seen : SUBSET Txs, height : Nat] /\ w.seen \subseteq TxsOn(chain)
      /\ w.height = done
  <2>1. Len(Ancestor(chain, done)) = done
    BY <1>2, AncestorFacts
  <2> QED
    BY <1>2, <1>3, <2>1, PopulateFacts
<1> HIDE DEF w
<1>5. PICK from \in Nat, to \in Nat : from = done + 1 /\ to = Len(chain)
  BY <1>2
<1>6. /\ win' \in [seen : SUBSET Txs, height : Nat]
      /\ win'.seen \subseteq TxsOn(chain) /\ win'.height = Len(chain)
  <2>1. win' = AcceptRange(w, chain, from, to)
    BY <1>1, <1>5 DEF Height
  <2>2. from <= to + 1 /\ to <= Len(chain) /\ (from = to + 1 <=> done = to)
    BY <1>2, <1>5
  <2>3. /\ AcceptRange(w, chain, from, to) \in [seen : SUBSET Txs, height : Nat]
        /\ AcceptRange(w, chain, from, to).seen \subseteq w.seen \cup TxsOn(chain)
        /\ AcceptRange(w, chain, from, to).height = IF from = to + 1 THEN w.height ELSE to
    BY <1>2, <1>4, <2>2, AcceptRangeFacts
  <2> QED
    BY <1>4, <1>5, <2>1, <2>2, <2>3
<1>7. NodeTypes'
  <2>1. win' \in [seen : SUBSET Txs, height : 0 .. Len(chain)]
    BY <1>2, <1>6
  <2>2. done' \in 0 .. Len(chain)
    BY <1>1, <1>2 DEF Height
  <2> QED
    BY <1>1, <2>1, <2>2, TypesSplit DEF SafeInv, NodeTypes, Height
<1>8. ForksInv'
  BY <1>1 DEF SafeInv, ForksInv
<1>9. SeenInv'
  BY <1>1, <1>6 DEF SeenInv
<1> QED
  BY <1>1, <1>7, <1>8, <1>9, SyncSame DEF SafeInv, WindowTypeOK, NodeTypes, SyncTypes

LEMMA StartSyncSafe ==
    ASSUME SafeInv, NEW b \in Ahead(chain), StartSync(b)
    PROVE  SafeInv'
<1>1. /\ phase = "bootstrap" /\ phase' = "syncing" /\ chain' = b
      /\ index' = UpdateLastAccepted(index, Len(b))
      /\ first' = Len(b) /\ minTimestamp' = OldestAllowed(Timestamp(b))
      /\ win' = Populate(win, index', b)
      /\ oldest' = PopulateLow(index', b) /\ lastBlock' = oldest'
      /\ syncDone' = Complete(index', b) /\ client' \in {"none", "run"}
      /\ UNCHANGED <<processing, unchecked, done, restarts, resultChan>>
  BY DEF StartSync, Height
<1>2. Timely(b) /\ NoneTwice(b) /\ Len(chain) < Len(b) /\ \A i \in 1 .. Len(chain) : b[i] = chain[i]
  BY TypeFacts, AheadFacts
<1>3. /\ b \in Seq(Payloads) /\ Len(b) \in Nat /\ Timestamp(b) \in Nat
      /\ chain \in Seq(Payloads) /\ Len(chain) \in Nat
  BY <1>2, TimelyFacts, BlockFacts, TypeFacts
<1>4. processing = {} /\ unchecked = {}
  BY <1>1 DEF SafeInv, ForksInv, WindowTypeOK
<1>5. ForksInv' /\ unchecked' \subseteq processing'
  <2>1. processing' = {c \in processing : IsStrictPrefix(b, c)} /\ unchecked' = unchecked \cap processing'
    BY <1>1, <1>4
  <2> QED
    BY <1>1, <1>2, <1>4, <2>1, DecideForks
<1>6. /\ win' \in [seen : SUBSET Txs, height : Nat]
      /\ win'.seen \subseteq TxsOn(b) /\ win'.height = Len(b)
  <2>1. win \in [seen : SUBSET Txs, height : Nat] /\ win.seen \subseteq TxsOn(chain)
    BY TypeFacts
  <2>2. TxsOn(chain) \subseteq TxsOn(b)
    BY <1>2, <1>3, TxsOnPrefix
  <2>3. PICK ix : ix = index'
    OBVIOUS
  <2>4. win' = Populate(win, ix, b)
    BY <1>1, <2>3
  <2>5. /\ Populate(win, ix, b) \in [seen : SUBSET Txs, height : Nat]
        /\ Populate(win, ix, b).seen \subseteq win.seen \cup TxsOn(b)
        /\ Populate(win, ix, b).height = Len(b)
    BY <1>2, <2>1, PopulateFacts
  <2> QED
    BY <2>1, <2>2, <2>4, <2>5
<1>7. SeenInv'
  BY <1>1, <1>6 DEF SeenInv
<1>8. NodeTypes'
  <2>1. win' \in [seen : SUBSET Txs, height : 0 .. Len(b)]
    BY <1>3, <1>6
  <2>2. index' \in [last : {Len(b)}, stored : SUBSET (0 .. Len(b))]
    BY <1>1, <1>2, <1>3, TypeFacts, UpdateFacts
  <2>3. done' \in 0 .. Len(b)
    BY <1>1, <1>2, <1>3, TypeFacts
  <2>4. restarts' \in 0 .. MaxRestarts
    BY <1>1, TypesSplit DEF SafeInv, NodeTypes
  <2> QED
    BY <1>1, <1>5, <2>1, <2>2, <2>3, <2>4 DEF NodeTypes, Height
<1>9. SyncTypes'
  <2>1. oldest' \in 0 .. Len(b)
    <3>1. PICK ix : ix = index'
      OBVIOUS
    <3>2. oldest' = PopulateLow(ix, b)
      BY <1>1, <3>1
    <3> QED
      BY <1>3, <3>2, PopulateLowFacts
  <2>2. {first', oldest', lastBlock'} \subseteq 0 .. Len(b)
    BY <1>1, <1>3, <2>1
  <2>3. minTimestamp' \in Nat
    BY <1>1, <1>3, OldestFacts
  <2>4. syncDone' \in BOOLEAN
    <3>1. PICK ix : ix = index'
      OBVIOUS
    <3>2. Complete(ix, b) \in BOOLEAN
      BY DEF Complete
    <3> QED
      BY <1>1, <3>1, <3>2
  <2>5. resultChan' \in {<<>>} \cup {<<h>> : h \in 0 .. Len(b)}
    <3>1. resultChan \in {<<>>} \cup {<<h>> : h \in 0 .. Len(chain)}
      BY TypesSplit DEF SafeInv, SyncTypes, Height
    <3>2. 0 .. Len(chain) \subseteq 0 .. Len(b)
      BY <1>2, <1>3
    <3> QED
      BY <1>1, <3>1, <3>2
  <2> QED
    BY <1>1, <2>2, <2>3, <2>4, <2>5 DEF SyncTypes, Height
<1> QED
  BY <1>5, <1>7, <1>8, <1>9 DEF SafeInv, WindowTypeOK, NodeTypes, SyncTypes

LEMMA UpdateSyncTargetSafe ==
    ASSUME SafeInv, NEW b \in NetChildren(chain), UpdateSyncTarget(b)
    PROVE  SafeInv'
<1>1. /\ phase = "syncing" /\ chain' = b /\ index' = UpdateLastAccepted(index, Len(b))
      /\ processing' = {c \in processing : IsStrictPrefix(b, c)}
      /\ unchecked' = unchecked \cap processing'
      /\ win' = WindowAccept(win, b)
      /\ syncDone' \in {TRUE, syncDone} /\ client' \in {client, "cancelled"}
      /\ minTimestamp' \in {minTimestamp, OldestAllowed(Timestamp(b))}
      /\ UNCHANGED <<done, phase, restarts, first, oldest, lastBlock, resultChan>>
  BY DEF UpdateSyncTarget, Decide, Height
<1>2. Timely(b) /\ NoneTwice(b) /\ Len(chain) < Len(b) /\ \A i \in 1 .. Len(chain) : b[i] = chain[i]
  BY NetChildFacts
<1>3. /\ b \in Seq(Payloads) /\ Len(b) \in Nat /\ Timestamp(b) \in Nat
      /\ chain \in Seq(Payloads) /\ Len(chain) \in Nat
  BY <1>2, TimelyFacts, BlockFacts, TypeFacts
<1>4. ForksInv' /\ unchecked' \subseteq processing'
  <2>1. processing = {}
    BY <1>1 DEF SafeInv, ForksInv
  <2> QED
    BY <1>1, <1>2, <2>1, DecideForks
<1>5. win' \in [seen : SUBSET Txs, height : 0 .. Len(b)] /\ win'.seen \subseteq TxsOn(b)
  <2>1. win.seen \subseteq TxsOn(chain) /\ TxsOn(chain) \subseteq TxsOn(b) /\ TxsOn(b) \subseteq Txs
    BY <1>2, <1>3, TypeFacts, TxsOnPrefix, TxsOnFacts
  <2>2. ToSet(Containers(b)) \subseteq TxsOn(b)
    <3>1. Len(b) \in 1 .. Len(b) /\ Containers(b) = b[Len(b)].txs
      BY <1>2, <1>3, BlockFacts
    <3> QED
      BY <1>3, <3>1, TxsOnFacts
  <2>3. win' = [seen |-> {x \in win.seen : Expiry[x] >= Timestamp(b)}
                             \cup {x \in ToSet(Containers(b)) : Expiry[x] # 0},
                height |-> Len(b)]
    BY <1>1 DEF WindowAccept, Add, SetMin, Height
  <2> QED
    BY <1>3, <2>1, <2>2, <2>3
<1>6. SeenInv'
  BY <1>1, <1>5 DEF SeenInv
<1>7. 0 .. Len(chain) \subseteq 0 .. Len(b)
  BY <1>2, <1>3
<1>8. NodeTypes'
  <2>1. index' \in [last : {Len(b)}, stored : SUBSET (0 .. Len(b))]
    BY <1>1, <1>2, <1>3, TypeFacts, UpdateFacts, SMTT(20)
  <2>2. done' \in 0 .. Len(b) /\ restarts' \in 0 .. MaxRestarts
    BY <1>1, <1>7, TypesSplit DEF SafeInv, NodeTypes, Height
  <2> QED
    BY <1>1, <1>4, <1>5, <2>1, <2>2 DEF NodeTypes, Height
<1>9. SyncTypes'
  <2>1. SyncTypes
    BY TypesSplit DEF SafeInv
  <2>2. minTimestamp' \in Nat
    BY <1>1, <1>3, <2>1, OldestFacts DEF SyncTypes
  <2> QED
    BY <1>1, <1>7, <2>1, <2>2 DEF SyncTypes, Height
<1> QED
  BY <1>4, <1>6, <1>8, <1>9 DEF SafeInv, WindowTypeOK, NodeTypes, SyncTypes

LEMMA ResultFacts ==
    ASSUME SafeInv
    PROVE  /\ \/ resultChan = <<>>
              \/ /\ resultChan = <<Head(resultChan)>> /\ Head(resultChan) \in 0 .. Len(chain)
                 /\ ToSet(resultChan) = {Head(resultChan)}
           /\ ToSet(<<>>) = {}
<1>1. resultChan \in {<<>>} \cup {<<h>> : h \in 0 .. Len(chain)}
  BY TypesSplit DEF SafeInv, SyncTypes, Height
<1>2. ASSUME NEW h \in 0 .. Len(chain), resultChan = <<h>>
      PROVE  Head(resultChan) = h /\ ToSet(resultChan) = {h}
  BY <1>2 DEF ToSet
<1>3. ToSet(<<>>) = {}
  BY DEF ToSet
<1> QED
  BY <1>1, <1>2, <1>3

LEMMA FetchSafe ==
    ASSUME SafeInv, FetchClosed \/ FetchBlock \/ SignalDone
    PROVE  SafeInv'
<1>1. SyncTypes /\ Len(chain) \in Nat
  BY TypesSplit, TypeFacts DEF SafeInv
<1>2. UNCHANGED <<chain, processing, unchecked, done, index, win, restarts, phase>>
  BY DEF FetchClosed, FetchBlock, SignalDone, vars
<1>3. SyncTypes'
  <2>1. CASE FetchClosed
    BY <1>1, <1>2, <2>1 DEF FetchClosed, SyncTypes
  <2>2. CASE SignalDone
    BY <1>1, <1>2, <2>2 DEF SignalDone, SyncTypes, fetchVars
  <2>3. CASE FetchBlock
    <3>1. lastBlock - 1 \in 0 .. Len(chain)
      BY <1>1, <2>3 DEF FetchBlock, SyncTypes, Height
    <3> QED
      BY <1>1, <1>2, <2>3, <3>1 DEF FetchBlock, SyncTypes, Height
  <2> QED
    BY <2>1, <2>2, <2>3
<1> QED
  BY <1>2, <1>3, PhaseSafe

LEMMA TakeBlockSafe ==
    ASSUME SafeInv, TakeBlock
    PROVE  SafeInv'
<1>1. PICK h \in 0 .. Len(chain) : h = Head(resultChan)
  BY ResultFacts DEF TakeBlock
<1>2. /\ index' = [index EXCEPT !.stored = @ \cup {h}]
      /\ win' = [win EXCEPT !.seen = Add(@, Containers(Ancestor(chain, h)))]
      /\ resultChan' = <<>>
      /\ UNCHANGED <<chain, processing, unchecked, done, phase, restarts, first, oldest,
                     minTimestamp, client, lastBlock, syncDone>>
  BY <1>1 DEF TakeBlock, SaveHistorical, WriteBlock, AcceptHistorical
<1>3. /\ chain \in Seq(Payloads) /\ Len(chain) \in Nat /\ win.seen \subseteq TxsOn(chain)
      /\ TxsOn(chain) \subseteq Txs
  BY TypeFacts, TxsOnFacts
<1>4. NodeTypes /\ SyncTypes
  BY TypesSplit DEF SafeInv
<1>5. win'.seen = win.seen \cup {x \in ToSet(Containers(Ancestor(chain, h))) : Expiry[x] # 0}
      /\ win'.height = win.height
  BY <1>2, <1>4 DEF NodeTypes, Add
<1>6. ToSet(Containers(Ancestor(chain, h))) \subseteq TxsOn(chain)
  <2>1. CASE h = 0
    <3>1. Containers(Ancestor(chain, h)) = <<>>
      BY <1>3, <2>1, AncestorFacts
    <3> QED
      BY <3>1, ResultFacts
  <2>2. CASE h # 0
    <3>1. h \in 1 .. Len(chain)
      BY <2>2
    <3>2. Containers(Ancestor(chain, h)) = chain[h].txs
      BY <1>3, <2>2, AncestorFacts
    <3> QED
      BY <1>3, <3>1, <3>2, TxsOnFacts
  <2> QED
    BY <2>1, <2>2
<1>7. win'.seen \subseteq TxsOn(chain) /\ win.seen \subseteq win'.seen
  BY <1>3, <1>5, <1>6
<1>8. NodeTypes'
  <2>1. win' \in [seen : SUBSET Txs, height : 0 .. Len(chain)]
    <3>1. Add(win.seen, Containers(Ancestor(chain, h))) \subseteq Txs
      BY <1>3, <1>6 DEF Add
    <3> QED
      BY <1>2, <1>4, <3>1 DEF NodeTypes, Height
  <2>2. index' \in [last : {Len(chain)}, stored : SUBSET (0 .. Len(chain))]
    BY <1>2, <1>4 DEF NodeTypes, Height
  <2> QED
    BY <1>2, <1>4, <2>1, <2>2 DEF NodeTypes, Height
<1>9. SyncTypes'
  BY <1>2, <1>4 DEF SyncTypes
<1>10. ForksInv'
  BY <1>2 DEF SafeInv, ForksInv
<1>11. SeenInv'
  BY <1>2, <1>5, <1>7 DEF SafeInv, SeenInv
<1> QED
  BY <1>8, <1>9, <1>10, <1>11 DEF SafeInv, WindowTypeOK, NodeTypes, SyncTypes

LEMMA FinishSyncSafe ==
    ASSUME SafeInv, NEW t \in first .. Height(chain), FinishSync(t)
    PROVE  SafeInv'
<1>1. /\ phase = "syncing" /\ phase' = "ready" /\ done' = Len(chain)
      /\ win' = AcceptRange(win, chain, t, Len(chain))
      /\ UNCHANGED <<chain, processing, unchecked, index, restarts>> /\ UNCHANGED syncVars
  BY DEF FinishSync, Height
<1>2. /\ Timely(chain) /\ Len(chain) \in Nat
      /\ win \in [seen : SUBSET Txs, height : Nat] /\ win.seen \subseteq TxsOn(chain)
  BY TypeFacts
<1>3. t \in 0 .. Len(chain)
  BY <1>2, TypesSplit DEF SafeInv, SyncTypes, Height
<1>4. PICK to \in Nat : to = Len(chain)
  BY <1>2
<1>5. /\ win' \in [seen : SUBSET Txs, height : Nat]
      /\ win'.seen \subseteq TxsOn(chain) /\ win'.height = Len(chain)
  <2>1. t \in Nat /\ t <= to + 1 /\ to <= Len(chain) /\ t # to + 1
    BY <1>3, <1>4
  <2>2. /\ AcceptRange(win, chain, t, to) \in [seen : SUBSET Txs, height : Nat]
        /\ AcceptRange(win, chain, t, to).seen \subseteq win.seen \cup TxsOn(chain)
        /\ AcceptRange(win, chain, t, to).height = to
    BY <1>2, <2>1, AcceptRangeFacts
  <2> QED
    BY <1>1, <1>2, <1>4, <2>2
<1>6. NodeTypes'
  <2>1. win' \in [seen : SUBSET Txs, height : 0 .. Len(chain)] /\ done' \in 0 .. Len(chain)
    BY <1>1, <1>2, <1>5
  <2> QED
    BY <1>1, <2>1, TypesSplit DEF SafeInv, NodeTypes, Height
<1>7. ForksInv'
  BY <1>1 DEF SafeInv, ForksInv
<1>8. SeenInv'
  BY <1>1, <1>5 DEF SeenInv
<1> QED
  BY <1>1, <1>6, <1>7, <1>8, SyncSame DEF SafeInv, WindowTypeOK, NodeTypes, SyncTypes

LEMMA InitSafe == SyncInit => SafeInv
<1>1. SUFFICES ASSUME SyncInit PROVE SafeInv
  OBVIOUS
<1>2. /\ chain = <<>> /\ processing = {} /\ unchecked = {} /\ done = 0
      /\ index = [last |-> 0, stored |-> {0}] /\ win = [seen |-> {}, height |-> 0]
      /\ phase = "bootstrap" /\ restarts = 0
      /\ first = 0 /\ oldest = 0 /\ minTimestamp = 0
      /\ client = "none" /\ lastBlock = 0 /\ resultChan = <<>> /\ syncDone = FALSE
  BY <1>1 DEF SyncInit, Init, Genesis, EmptyIndex
<1>3. Height(chain) = 0 /\ chain \in Seq(Payloads) /\ DOMAIN chain = {} /\ MaxHeight \in Nat
      /\ MaxRestarts \in Nat
  BY <1>2, WindowAssumption DEF Height
<1>4. WindowTypeOK
  <2>1. 0 \in 0 .. 0 /\ 0 \in 0 .. MaxRestarts
    BY <1>3
  <2>2. NodeTypes
    BY <1>2, <1>3, <2>1 DEF NodeTypes
  <2>3. SyncTypes
    BY <1>2, <1>3, <2>1 DEF SyncTypes
  <2> QED
    BY <2>2, <2>3, TypesSplit
<1>5. ForksInv
  BY <1>2, <1>3 DEF ForksInv, Timely, NoneTwice
<1>6. SeenInv
  BY <1>2 DEF SeenInv
<1> QED
  BY <1>4, <1>5, <1>6 DEF SafeInv

LEMMA StepSafe == SafeInv /\ [Next]_<<vars, syncVars>> => SafeInv'
<1> SUFFICES ASSUME SafeInv, [Next]_<<vars, syncVars>> PROVE SafeInv'
  OBVIOUS
<1>1. ASSUME NodeNext, UNCHANGED syncVars PROVE SafeInv'
  <2>1. ASSUME NEW p \in Parents, NEW b \in Children(p), VerifyBlock(b) PROVE SafeInv'
    BY <1>1, <2>1, VerifyBlockSafe
  <2>2. ASSUME NEW b \in processing, AcceptBlock(b) PROVE SafeInv'
    BY <1>1, <2>2, AcceptBlockSafe
  <2>3. ASSUME NEW b \in NetChildren(chain), BootstrapBlock(b) PROVE SafeInv'
    BY <1>1, <2>3, BootstrapBlockSafe
  <2>4. ASSUME NEW b, AcceptFails(b) PROVE SafeInv'
    BY <1>1, <2>4, FailsSafe
  <2> QED
    BY <1>1, <2>1, <2>2, <2>3, <2>4, StartNormalOpSafe, ProcessSafe, StopSafe, StartSafe
       DEF NodeNext
<1>2. ASSUME NEW b \in Ahead(chain), StartSync(b) PROVE SafeInv'
  BY <1>2, StartSyncSafe
<1>3. ASSUME NEW b, TargetFails(b) PROVE SafeInv'
  BY <1>3, FailsSafe
<1>4. ASSUME NEW b \in NetChildren(chain), UpdateSyncTarget(b) PROVE SafeInv'
  BY <1>4, UpdateSyncTargetSafe
<1>5. CASE SyncStep
  BY <1>5, FetchSafe, TakeBlockSafe, FinishSyncSafe DEF SyncStep
<1>6. CASE UNCHANGED <<vars, syncVars>>
  <2>1. UNCHANGED <<chain, processing, unchecked, done, index, win, restarts, phase>>
        /\ UNCHANGED syncVars
    BY <1>6 DEF vars
  <2> QED
    BY <2>1, SyncSame, PhaseSafe
<1> QED
  BY <1>1, <1>2, <1>3, <1>4, <1>5, <1>6 DEF Next

-----------------------------------------------------------------------------
(* The index                                                                 *)

(* A complete window is in the index.                                        *)
Grounded(ix, b) == \E l \in 0 .. Len(b) : Kept(ix, l) /\ Reaches(b, l)

(* The index of block b.                                                     *)
IndexOf(ix, b) ==
    ix \in [last : {Len(b)}, stored : SUBSET (0 .. Len(b))] /\ 0 \in ix.stored

LEMMA BlockWindowFacts ==
    ASSUME KeepsWindow
    PROVE  /\ Window \in Nat /\ BlockWindow \in Nat
           /\ BlockWindow = 0 \/ BlockWindow >= Window + 2
  BY WindowAssumption, BlockWindowAssumption DEF KeepsWindow

(* What the index keeps reaches back for a window.                           *)
LEMMA KeepsReaches ==
    ASSUME KeepsWindow, BlockWindow # 0, NEW b, Timely(b),
           NEW l \in 1 .. Len(b), l + BlockWindow <= Len(b) + 1
    PROVE  Reaches(b, l)
<1>1. b \in Seq(Payloads) /\ Len(b) \in Nat /\ Timestamp(b) \in Nat
  BY TimelyFacts, BlockFacts
<1>2. Len(b) \in 1 .. Len(b) /\ l \in 0 .. Len(b)
  BY <1>1
<1>3. Timestamp(Ancestor(b, l)) = b[l].ts /\ Timestamp(b) = b[Len(b)].ts
  BY <1>1, <1>2, AncestorFacts, BlockFacts
<1>4. b[l].ts + (Len(b) - l) <= b[Len(b)].ts /\ b[l].ts \in Nat /\ b[Len(b)].ts \in Nat
  <2>1. PICK n \in 1 .. Len(b) : n = Len(b)
    BY <1>2
  <2>2. l <= n
    BY <1>1, <2>1
  <2>3. b[l].ts + (n - l) <= b[n].ts
    BY <2>2, TimelyFacts
  <2>4. b[l].ts \in Nat /\ b[n].ts \in Nat
    BY TimelyFacts
  <2> QED
    BY <2>1, <2>3, <2>4
<1>5. b[l].ts + Window < b[Len(b)].ts
  <2>1. Window \in Nat /\ BlockWindow \in Nat /\ BlockWindow >= Window + 2
    BY BlockWindowFacts
  <2>2. Len(b) - l >= Window + 1
    BY <1>1, <2>1
  <2> QED
    BY <1>1, <1>4, <2>1, <2>2, SMTT(20)
<1>6. b[l].ts < OldestAllowed(b[Len(b)].ts)
  BY <1>4, <1>5, OldestFacts
<1> QED
  BY <1>3, <1>6 DEF Reaches

LEMMA ReachesStays ==
    ASSUME NEW b, Timely(b), NEW c, Timely(c), Len(b) <= Len(c),
           \A i \in 1 .. Len(b) : c[i] = b[i],
           NEW l \in 0 .. Len(b)
    PROVE  /\ Ancestor(c, l) = Ancestor(b, l)
           /\ Timestamp(b) \in Nat /\ Timestamp(c) \in Nat /\ Timestamp(b) <= Timestamp(c)
           /\ OldestAllowed(Timestamp(b)) <= OldestAllowed(Timestamp(c))
           /\ Reaches(b, l) => Reaches(c, l)
<1>1. /\ b \in Seq(Payloads) /\ Len(b) \in Nat /\ c \in Seq(Payloads) /\ Len(c) \in Nat
      /\ Timestamp(b) \in Nat /\ Timestamp(c) \in Nat
  BY TimelyFacts, BlockFacts
<1>2. Ancestor(c, l) = Ancestor(b, l)
  <2>1. l \in Nat /\ l <= Len(b) /\ l <= Len(c) /\ \A i \in 1 .. l : c[i] = b[i]
    BY <1>1
  <2> QED
    BY <1>1, <2>1, SameAncestor
<1>3. Timestamp(b) <= Timestamp(c)
  <2>1. Len(b) \in 0 .. Len(c) /\ Len(c) \in 0 .. Len(c)
    BY <1>1
  <2>2. Ancestor(c, Len(b)) = b /\ Ancestor(c, Len(c)) = c
    BY <1>1, SameAncestor, WholeAncestor
  <2>3. Timestamp(Ancestor(c, Len(b))) <= Timestamp(Ancestor(c, Len(c)))
    BY <2>1, TimeGrows
  <2> QED
    BY <2>2, <2>3
<1>4. OldestAllowed(Timestamp(b)) <= OldestAllowed(Timestamp(c))
  BY <1>1, <1>3, WindowAssumption DEF OldestAllowed
<1>5. Timestamp(Ancestor(b, l)) \in Nat /\ OldestAllowed(Timestamp(b)) \in Nat
      /\ OldestAllowed(Timestamp(c)) \in Nat
  BY <1>1, AncestorFacts, OldestFacts
<1>6. Reaches(b, l) => Reaches(c, l)
  BY <1>2, <1>4, <1>5 DEF Reaches
<1> QED
  BY <1>1, <1>2, <1>3, <1>4, <1>6

LEMMA UpdateIndex ==
    ASSUME NEW b, Len(b) \in Nat, NEW ix, IndexOf(ix, b), NEW c, Len(c) \in Nat, Len(b) < Len(c)
    PROVE  /\ IndexOf(UpdateLastAccepted(ix, Len(c)), c)
           /\ UpdateLastAccepted(ix, Len(c)).last = Len(c)
           /\ \A h \in ix.stored \cup {Len(c)} :
                  (BlockWindow = 0 \/ h # Len(c) - BlockWindow) =>
                      h \in UpdateLastAccepted(ix, Len(c)).stored
<1> DEFINE U == UpdateLastAccepted(ix, Len(c))
<1>1. /\ U = [last |-> Len(c),
              stored |-> (ix.stored \cup {Len(c)})
                             \ (IF Expires(Len(c)) THEN {Len(c) - BlockWindow} ELSE {})]
  BY DEF UpdateLastAccepted
<1>2. ix.stored \subseteq 0 .. Len(b) /\ 0 \in ix.stored
  BY DEF IndexOf
<1>3. U.last = Len(c) /\ U.stored = (ix.stored \cup {Len(c)})
          \ (IF Expires(Len(c)) THEN {Len(c) - BlockWindow} ELSE {})
  BY <1>1
<1>4. U \in [last : {Len(c)}, stored : SUBSET (0 .. Len(c))]
  <2>1. U.stored \subseteq 0 .. Len(c)
    BY <1>2, <1>3
  <2> QED
    BY <1>1, <2>1
<1> HIDE DEF U
<1>5. 0 \in U.stored
  BY <1>2, <1>3, BlockWindowAssumption DEF Expires
<1>6. ASSUME NEW h \in ix.stored \cup {Len(c)}, BlockWindow = 0 \/ h # Len(c) - BlockWindow
      PROVE  h \in U.stored
  BY <1>3, <1>6 DEF Expires
<1> QED
  BY <1>3, <1>4, <1>5, <1>6 DEF U, IndexOf

(* The chain grows by a block: what is pruned is not needed.                 *)
LEMMA UpdateGrounded ==
    ASSUME KeepsWindow, NEW b, Timely(b), NEW c, Timely(c), Len(c) = Len(b) + 1,
           \A i \in 1 .. Len(b) : c[i] = b[i],
           NEW ix, IndexOf(ix, b), Grounded(ix, b)
    PROVE  Grounded(UpdateLastAccepted(ix, Len(c)), c)
<1>1. /\ Len(b) \in Nat /\ Len(c) \in Nat /\ Len(b) < Len(c) /\ Len(b) <= Len(c)
      /\ ix.last = Len(b)
  BY TimelyFacts DEF IndexOf
<1>2. PICK u : u = UpdateLastAccepted(ix, Len(c))
  OBVIOUS
<1>3. /\ u.last = Len(c)
      /\ \A h \in ix.stored \cup {Len(c)} :
             (BlockWindow = 0 \/ h # Len(c) - BlockWindow) => h \in u.stored
  BY <1>1, <1>2, UpdateIndex
<1>4. PICK l \in 0 .. Len(b) : Kept(ix, l) /\ Reaches(b, l)
  BY DEF Grounded
<1>5. \A h \in l .. Len(c) : h \in ix.stored \cup {Len(c)}
  BY <1>1, <1>4 DEF Kept
<1>6. Reaches(c, l)
  BY <1>1, <1>4, ReachesStays
<1>7. CASE BlockWindow = 0 \/ l > Len(c) - BlockWindow
  <2>1. \A h \in l .. Len(c) : BlockWindow = 0 \/ h # Len(c) - BlockWindow
    BY <1>1, <1>7, BlockWindowFacts
  <2>2. Kept(u, l)
    BY <1>3, <1>5, <2>1 DEF Kept
  <2>3. l \in 0 .. Len(c)
    BY <1>1
  <2> QED
    BY <1>2, <1>6, <2>2, <2>3 DEF Grounded
<1>8. CASE BlockWindow # 0 /\ l <= Len(c) - BlockWindow
  <2>1. PICK m \in 1 .. Len(c) : m + BlockWindow = Len(c) + 1 /\ l <= m
    <3>1. Len(c) + 1 - BlockWindow \in 1 .. Len(c)
      BY <1>1, <1>8, BlockWindowFacts
    <3>2. (Len(c) + 1 - BlockWindow) + BlockWindow = Len(c) + 1 /\ l <= Len(c) + 1 - BlockWindow
      BY <1>1, <1>8, BlockWindowFacts
    <3> QED
      BY <3>1, <3>2
  <2>2. \A h \in m .. Len(c) : h \in l .. Len(c) /\ h # Len(c) - BlockWindow
    BY <1>1, <2>1, BlockWindowFacts
  <2>3. Kept(u, m)
    BY <1>3, <1>5, <2>2 DEF Kept
  <2>4. Reaches(c, m)
    BY <1>1, <1>8, <2>1, KeepsReaches
  <2>5. m \in 0 .. Len(c)
    BY <1>1
  <2> QED
    BY <1>2, <2>3, <2>4, <2>5 DEF Grounded
<1> QED
  BY <1>1, <1>7, <1>8, BlockWindowFacts

LEMMA UpdateComing ==
    ASSUME NEW b, Timely(b), NEW c, Timely(c), Len(c) = Len(b) + 1,
           NEW ix, IndexOf(ix, b), NEW l \in 0 .. Len(b), NEW S, Coming(ix, l, S)
    PROVE  Coming(UpdateLastAccepted(ix, Len(c)), l, S)
<1>1. /\ Len(b) \in Nat /\ Len(c) \in Nat /\ Len(b) < Len(c) /\ ix.last = Len(b)
  BY TimelyFacts DEF IndexOf
<1>2. PICK u : u = UpdateLastAccepted(ix, Len(c))
  OBVIOUS
<1>3. /\ u.last = Len(c)
      /\ \A h \in ix.stored \cup {Len(c)} :
             (BlockWindow = 0 \/ h # Len(c) - BlockWindow) => h \in u.stored
  BY <1>1, <1>2, UpdateIndex
<1>4. ASSUME NEW h \in l .. Len(c), BlockWindow = 0 \/ h > Len(c) - BlockWindow, h \notin S
      PROVE  h \in u.stored
  <2>1. BlockWindow = 0 \/ h # Len(c) - BlockWindow
    BY <1>1, <1>4, BlockWindowAssumption
  <2>2. h \in ix.stored \cup {Len(c)}
    <3>1. CASE h = Len(c)
      BY <3>1
    <3>2. CASE h # Len(c)
      <4>1. h \in l .. ix.last /\ (BlockWindow = 0 \/ h > ix.last - BlockWindow)
        BY <1>1, <1>4, <3>2, BlockWindowAssumption
      <4> QED
        BY <1>4, <4>1 DEF Coming
    <3> QED
      BY <3>1, <3>2
  <2> QED
    BY <1>3, <2>1, <2>2
<1> QED
  BY <1>2, <1>3, <1>4 DEF Coming

LEMMA CleanupGrounded ==
    ASSUME KeepsWindow, NEW b, Timely(b), NEW ix, IndexOf(ix, b), Grounded(ix, b)
    PROVE  Grounded(CleanupOnStartup(ix), b) /\ 0 \in CleanupOnStartup(ix).stored
<1>1. Len(b) \in Nat /\ ix.last = Len(b)
  BY TimelyFacts DEF IndexOf
<1>2. CASE ~Expires(ix.last)
  BY <1>2 DEF CleanupOnStartup, IndexOf
<1>3. CASE Expires(ix.last)
  <2>1. PICK u : u = CleanupOnStartup(ix)
    OBVIOUS
  <2>2. u = [ix EXCEPT !.stored = {h \in @ : h = 0 \/ h >= ix.last - BlockWindow}]
    BY <1>3, <2>1 DEF CleanupOnStartup
  <2>3. u.last = Len(b) /\ u.stored = {h \in ix.stored : h = 0 \/ h >= Len(b) - BlockWindow}
    BY <1>1, <2>2 DEF IndexOf
  <2>4. PICK l \in 0 .. Len(b) : Kept(ix, l) /\ Reaches(b, l)
    BY DEF Grounded
  <2>5. BlockWindow # 0 /\ Len(b) > BlockWindow
    BY <1>1, <1>3 DEF Expires
  <2>6. CASE l >= Len(b) - BlockWindow
    <3>1. Kept(u, l)
      BY <1>1, <2>3, <2>4, <2>6, BlockWindowFacts DEF Kept
    <3> QED
      BY <2>1, <2>3, <2>4, <3>1 DEF Grounded, IndexOf
  <2>7. CASE l < Len(b) - BlockWindow
    <3>1. PICK m \in 1 .. Len(b) : m + BlockWindow = Len(b) + 1 /\ l <= m
      <4>1. Len(b) + 1 - BlockWindow \in 1 .. Len(b)
        BY <1>1, <2>5, BlockWindowFacts
      <4>2. (Len(b) + 1 - BlockWindow) + BlockWindow = Len(b) + 1 /\ l <= Len(b) + 1 - BlockWindow
        BY <1>1, <2>7, BlockWindowFacts
      <4> QED
        BY <4>1, <4>2
    <3>2. \A h \in m .. Len(b) : h \in l .. Len(b) /\ h >= Len(b) - BlockWindow
      BY <1>1, <3>1, BlockWindowFacts
    <3>3. Kept(u, m)
      BY <1>1, <2>3, <2>4, <3>2 DEF Kept
    <3>4. Reaches(b, m)
      BY <1>1, <2>5, <3>1, KeepsReaches
    <3>5. m \in 0 .. Len(b)
      BY <1>1
    <3> QED
      BY <2>1, <2>3, <3>3, <3>4, <3>5 DEF Grounded, IndexOf
  <2> QED
    BY <1>1, <2>6, <2>7, BlockWindowFacts
<1> QED
  BY <1>2, <1>3

(* What populate reads from an index that has the last block.                *)
LEMMA PopulateKept ==
    ASSUME NEW b, Timely(b), NEW ix, IndexOf(ix, b), Len(b) \in ix.stored
    PROVE  /\ PopulateLow(ix, b) \in 0 .. Len(b)
           /\ Kept(ix, PopulateLow(ix, b))
           /\ Complete(ix, b) => Reaches(b, PopulateLow(ix, b))
<1>1. Len(b) \in Nat /\ ix.last = Len(b)
  BY TimelyFacts DEF IndexOf
<1>2. PICK low \in 0 .. Len(b) : low = PopulateLow(ix, b)
  BY <1>1, PopulateLowFacts
<1>3. \A h \in 0 .. Len(b) : PopulateEnds(ix, b, h) => h <= low
  BY <1>1, <1>2, PopulateLowFacts
<1>4. ASSUME NEW g \in low .. Len(b) PROVE g \in ix.stored
  <2>1. CASE g = Len(b)
    BY <2>1
  <2>2. CASE g # Len(b)
    <3>1. PICK h \in 0 .. Len(b) : h = g + 1
      BY <1>1, <2>2
    <3>2. ~(h <= low) /\ h - 1 = g
      BY <1>1, <3>1
    <3>3. HasBlock(ix, h - 1)
      BY <1>3, <3>2 DEF PopulateEnds
    <3> QED
      BY <3>2, <3>3 DEF HasBlock
  <2> QED
    BY <2>1, <2>2
<1>5. Kept(ix, low)
  BY <1>1, <1>4 DEF Kept
<1>6. Complete(ix, b) => Reaches(b, low)
  BY <1>2 DEF Complete, Reaches
<1> QED
  BY <1>2, <1>5, <1>6

(* An index with a complete window populates one.                            *)
LEMMA GroundedComplete ==
    ASSUME NEW b, Timely(b), NEW ix, IndexOf(ix, b), Grounded(ix, b)
    PROVE  Complete(ix, b)
<1>1. /\ Len(b) \in Nat /\ ix.last = Len(b) /\ b \in Seq(Payloads) /\ Timestamp(b) \in Nat
  BY TimelyFacts, BlockFacts DEF IndexOf
<1>2. PICK low \in 0 .. Len(b) : low = PopulateLow(ix, b)
  BY <1>1, PopulateLowFacts
<1>3. /\ PopulateEnds(ix, b, low)
      /\ \A h \in 0 .. Len(b) : PopulateEnds(ix, b, h) => h <= low
  BY <1>1, <1>2, PopulateLowFacts
<1>4. PICK l \in 0 .. Len(b) : Kept(ix, l) /\ Reaches(b, l)
  BY DEF Grounded
<1>5. CASE low = 0
  BY <1>2, <1>5 DEF Complete
<1>6. CASE low # 0 /\ low > l
  <2>1. low - 1 \in l .. ix.last
    BY <1>1, <1>6
  <2>2. HasBlock(ix, low - 1)
    BY <1>4, <2>1 DEF Kept, HasBlock
  <2> QED
    BY <1>2, <1>3, <1>6, <2>2 DEF PopulateEnds, Complete
<1>7. CASE low # 0 /\ low <= l
  <2>1. l # 0
    BY <1>7
  <2>2. Timestamp(Ancestor(b, l)) < OldestAllowed(Timestamp(b))
    BY <1>4, <2>1 DEF Reaches
  <2>3. l # Len(b)
    <3>1. SUFFICES ASSUME l = Len(b) PROVE FALSE
      OBVIOUS
    <3>2. Ancestor(b, l) = b
      BY <1>1, <3>1, WholeAncestor
    <3>3. OldestAllowed(Timestamp(b)) \in Nat /\ OldestAllowed(Timestamp(b)) <= Timestamp(b)
      BY <1>1, OldestFacts
    <3> QED
      BY <1>1, <2>2, <3>2, <3>3
  <2>4. PopulateEnds(ix, b, l)
    BY <1>1, <2>2, <2>3 DEF PopulateEnds, Height
  <2>5. l = low
    BY <1>1, <1>3, <1>7, <2>4
  <2> QED
    BY <1>1, <1>2, <2>2, <2>3, <2>5 DEF Complete, Height
<1> QED
  BY <1>1, <1>5, <1>6, <1>7

(* A state sync that has what it waited for has a complete window.           *)
LEMMA ComingGrounded ==
    ASSUME KeepsWindow, NEW b, Timely(b), NEW ix, IndexOf(ix, b),
           NEW l \in 0 .. Len(b), Coming(ix, l, {}), Reaches(b, l)
    PROVE  Grounded(ix, b)
<1>1. Len(b) \in Nat /\ ix.last = Len(b)
  BY TimelyFacts DEF IndexOf
<1>2. CASE BlockWindow = 0 \/ l > Len(b) - BlockWindow
  <2>1. \A h \in l .. Len(b) : BlockWindow = 0 \/ h > ix.last - BlockWindow
    BY <1>1, <1>2, BlockWindowFacts
  <2>2. Kept(ix, l)
    BY <1>1, <2>1 DEF Coming, Kept
  <2> QED
    BY <2>2 DEF Grounded
<1>3. CASE BlockWindow # 0 /\ l <= Len(b) - BlockWindow
  <2>1. PICK m \in 1 .. Len(b) : m + BlockWindow = Len(b) + 1 /\ l <= m
    <3>1. Len(b) + 1 - BlockWindow \in 1 .. Len(b)
      BY <1>1, <1>3, BlockWindowFacts
    <3>2. (Len(b) + 1 - BlockWindow) + BlockWindow = Len(b) + 1 /\ l <= Len(b) + 1 - BlockWindow
      BY <1>1, <1>3, BlockWindowFacts
    <3> QED
      BY <3>1, <3>2
  <2>2. \A h \in m .. Len(b) : h \in l .. Len(b) /\ h > ix.last - BlockWindow
    BY <1>1, <2>1, BlockWindowFacts
  <2>3. Kept(ix, m)
    BY <1>1, <2>2 DEF Coming, Kept
  <2>4. Reaches(b, m) /\ m \in 0 .. Len(b)
    BY <1>1, <1>3, <2>1, KeepsReaches
  <2> QED
    BY <2>3, <2>4 DEF Grounded
<1> QED
  BY <1>1, <1>2, <1>3, BlockWindowFacts

-----------------------------------------------------------------------------
(* The index: the steps                                                      *)

(* What IndexInv says during a state sync.                                   *)
SyncIndex ==
    /\ Coming(index, oldest, {}) /\ Coming(index, lastBlock, ToSet(resultChan))
    /\ minTimestamp <= OldestAllowed(Timestamp(chain))
    /\ \/ client # "closed" \/ lastBlock = 0
       \/ Timestamp(Ancestor(chain, lastBlock)) < minTimestamp
    /\ \/ ~syncDone \/ Reaches(chain, oldest)
       \/ client = "closed" /\ resultChan = <<>>

LEMMA IndexSplit ==
    IndexInv <=> /\ 0 \in index.stored
                 /\ phase \notin {"syncing", "failed"} => Grounded(index, chain)
                 /\ phase = "syncing" => SyncIndex
  BY DEF IndexInv, Grounded, SyncIndex, Height

LEMMA IndexFacts ==
    ASSUME SafeInv, IndexInv
    PROVE  /\ IndexOf(index, chain) /\ index.last = Len(chain) /\ 0 \in index.stored
           /\ {oldest, lastBlock, first} \subseteq 0 .. Len(chain) /\ minTimestamp \in Nat
  BY TypesSplit DEF SafeInv, NodeTypes, SyncTypes, IndexInv, IndexOf, Height

(* A step that leaves the chain, the index and the state sync alone.         *)
LEMMA IndexSame ==
    ASSUME IndexInv, UNCHANGED <<chain, index>>,
           \/ phase' = "failed"
           \/ phase \notin {"syncing", "failed"} /\ phase' # "syncing"
           \/ phase' = phase /\ UNCHANGED <<oldest, lastBlock, resultChan, minTimestamp, client, syncDone>>
    PROVE  IndexInv'
<1>1. 0 \in index'.stored
  BY DEF IndexInv
<1>2. phase' \notin {"syncing", "failed"} => Grounded(index', chain')
  BY IndexSplit
<1>3. phase' = "syncing" => SyncIndex'
  <2>1. SUFFICES ASSUME phase' = "syncing" PROVE SyncIndex'
    OBVIOUS
  <2>2. /\ phase = "syncing"
        /\ UNCHANGED <<chain, index, oldest, lastBlock, resultChan, minTimestamp, client, syncDone>>
    BY <2>1
  <2>3. SyncIndex
    BY <2>2, IndexSplit
  <2> QED
    BY <2>2, <2>3 DEF SyncIndex
<1> QED
  BY <1>1, <1>2, <1>3, IndexSplit DEF Grounded, SyncIndex, IndexInv, Height

LEMMA DecideIndex ==
    ASSUME KeepsWindow, SafeInv, IndexInv, NEW b, Timely(b), Len(b) = Len(chain) + 1,
           \A i \in 1 .. Len(chain) : b[i] = chain[i],
           Decide(b), phase \notin {"syncing", "failed"}, phase' = phase
    PROVE  IndexInv'
<1>1. chain' = b /\ index' = UpdateLastAccepted(index, Len(b))
  BY DEF Decide, Height
<1>2. Timely(chain) /\ IndexOf(index, chain) /\ Grounded(index, chain)
  BY TypeFacts, IndexFacts, IndexSplit
<1>3. Grounded(UpdateLastAccepted(index, Len(b)), b)
  BY <1>2, UpdateGrounded
<1>4. IndexOf(UpdateLastAccepted(index, Len(b)), b)
  <2>1. Len(chain) \in Nat /\ Len(b) \in Nat /\ Len(chain) < Len(b)
    BY TypeFacts, TimelyFacts
  <2> QED
    BY <1>2, <2>1, UpdateIndex
<1>5. 0 \in index'.stored /\ Grounded(index, chain)'
  BY <1>1, <1>3, <1>4 DEF IndexOf, Grounded
<1> QED
  BY <1>5, IndexSplit DEF IndexInv, Grounded, Height

LEMMA AcceptIndex ==
    ASSUME KeepsWindow, SafeInv, IndexInv, NEW b,
           \/ b \in processing /\ AcceptBlock(b)
           \/ b \in NetChildren(chain) /\ BootstrapBlock(b)
    PROVE  IndexInv'
<1>1. Decide(b) /\ phase' = phase /\ phase \notin {"syncing", "failed"}
  BY DEF AcceptBlock, BootstrapBlock
<1>2. Timely(b) /\ Len(b) = Len(chain) + 1 /\ \A i \in 1 .. Len(chain) : b[i] = chain[i]
  <2>1. CASE b \in NetChildren(chain)
    BY <2>1, NetChildFacts
  <2>2. CASE b \in processing /\ AcceptBlock(b)
    <3>1. Timely(b) /\ IsStrictPrefix(chain, b) /\ Front(b) = chain
      BY <2>2 DEF SafeInv, ForksInv, AcceptBlock
    <3>2. b \in Seq(Payloads) /\ Len(b) \in Nat /\ chain \in Seq(Payloads) /\ Len(chain) \in Nat
      BY <3>1, TimelyFacts, TypeFacts
    <3>3. Len(chain) < Len(b) /\ \A i \in 1 .. Len(chain) : b[i] = chain[i]
      BY <3>1, <3>2, PrefixFacts
    <3>4. Len(chain) = Len(b) - 1
      BY <3>1, <3>2, <3>3, FrontFacts
    <3> QED
      BY <3>1, <3>2, <3>3, <3>4
  <2> QED
    BY <2>1, <2>2
<1> QED
  BY <1>1, <1>2, DecideIndex

LEMMA StopIndex ==
    ASSUME KeepsWindow, SafeInv, IndexInv, Stop
    PROVE  IndexInv'
<1>1. /\ phase \notin {"syncing", "failed"} /\ phase' = "down" /\ chain' = chain
      /\ index' = CleanupOnStartup(index)
  BY DEF Stop
<1>2. Timely(chain) /\ IndexOf(index, chain) /\ Grounded(index, chain)
  BY <1>1, TypeFacts, IndexFacts, IndexSplit
<1>3. Grounded(CleanupOnStartup(index), chain) /\ 0 \in CleanupOnStartup(index).stored
  BY <1>2, CleanupGrounded
<1>4. 0 \in index'.stored /\ Grounded(index, chain)'
  BY <1>1, <1>3 DEF Grounded
<1> QED
  BY <1>1, <1>4, IndexSplit DEF IndexInv, Grounded, Height

LEMMA StartSyncIndex ==
    ASSUME SafeInv, IndexInv, NEW b \in Ahead(chain), StartSync(b)
    PROVE  IndexInv'
<1>1. /\ phase' = "syncing" /\ chain' = b /\ index' = UpdateLastAccepted(index, Len(b))
      /\ minTimestamp' = OldestAllowed(Timestamp(b))
      /\ oldest' = PopulateLow(index', b) /\ lastBlock' = oldest'
      /\ syncDone' = Complete(index', b) /\ client' \in {"none", "run"}
  BY DEF StartSync, Height
<1>2. /\ Timely(b) /\ Len(chain) \in Nat /\ Len(b) \in Nat /\ Len(chain) < Len(b)
      /\ Timestamp(b) \in Nat
  BY TypeFacts, AheadFacts, TimelyFacts, BlockFacts
<1>3. PICK u : u = UpdateLastAccepted(index, Len(b))
  OBVIOUS
<1>4. IndexOf(u, b) /\ u.last = Len(b) /\ Len(b) \in u.stored
  <2>1. IndexOf(index, chain)
    BY IndexFacts
  <2>2. BlockWindow = 0 \/ Len(b) # Len(b) - BlockWindow
    BY <1>2, BlockWindowAssumption
  <2> QED
    BY <1>2, <1>3, <2>1, <2>2, UpdateIndex
<1>5. PICK low \in 0 .. Len(b) : low = PopulateLow(u, b)
  BY <1>2, <1>4, PopulateKept
<1>6. Kept(u, low) /\ (Complete(u, b) => Reaches(b, low))
  BY <1>2, <1>4, <1>5, PopulateKept
<1>7. \A S : Coming(u, low, S)
  BY <1>6 DEF Kept, Coming
<1>8. index' = u /\ oldest' = low /\ lastBlock' = low /\ syncDone' = Complete(u, b)
  BY <1>1, <1>3, <1>5
<1>9. OldestAllowed(Timestamp(b)) \in Nat
  BY <1>2, OldestFacts
<1>10. SyncIndex'
  BY <1>1, <1>6, <1>7, <1>8, <1>9 DEF SyncIndex
<1>11. 0 \in index'.stored
  BY <1>4, <1>8 DEF IndexOf
<1> QED
  BY <1>1, <1>10, <1>11 DEF IndexInv, SyncIndex

LEMMA UpdateSyncTargetIndex ==
    ASSUME SafeInv, IndexInv, NEW b \in NetChildren(chain), UpdateSyncTarget(b)
    PROVE  IndexInv'
<1>1. /\ phase = "syncing" /\ phase' = "syncing"
      /\ chain' = b /\ index' = UpdateLastAccepted(index, Len(b))
      /\ UNCHANGED <<oldest, lastBlock, resultChan>>
      /\ \/ /\ Timestamp(b) - Timestamp(Ancestor(b, oldest)) > Window
            /\ client' = IF client = "run" THEN "cancelled" ELSE client
            /\ minTimestamp' = minTimestamp
         \/ /\ minTimestamp' = OldestAllowed(Timestamp(b))
            /\ syncDone' = syncDone /\ client' = client
  BY DEF UpdateSyncTarget, Decide, Height
<1>2. /\ Timely(b) /\ Len(b) = Len(chain) + 1 /\ Len(chain) <= Len(b) /\ Len(chain) < Len(b)
      /\ \A i \in 1 .. Len(chain) : b[i] = chain[i]
      /\ Timely(chain) /\ Len(chain) \in Nat /\ Len(b) \in Nat
  BY NetChildFacts, TypeFacts, TimelyFacts
<1>3. /\ IndexOf(index, chain) /\ oldest \in 0 .. Len(chain) /\ lastBlock \in 0 .. Len(chain)
      /\ minTimestamp \in Nat
  BY IndexFacts
<1>4. SyncIndex
  BY <1>1, IndexSplit
<1>5. PICK u : u = UpdateLastAccepted(index, Len(b))
  OBVIOUS
<1>6. IndexOf(u, b)
  BY <1>2, <1>3, <1>5, UpdateIndex
<1>7. Coming(u, oldest, {}) /\ Coming(u, lastBlock, ToSet(resultChan))
  BY <1>2, <1>3, <1>4, <1>5, UpdateComing DEF SyncIndex
<1>8. /\ Ancestor(b, oldest) = Ancestor(chain, oldest)
      /\ Timestamp(chain) \in Nat /\ Timestamp(b) \in Nat
      /\ OldestAllowed(Timestamp(chain)) <= OldestAllowed(Timestamp(b))
      /\ Reaches(chain, oldest) => Reaches(b, oldest)
  BY <1>2, <1>3, ReachesStays
<1>9. Ancestor(b, lastBlock) = Ancestor(chain, lastBlock)
  BY <1>2, <1>3, ReachesStays
<1>10. /\ OldestAllowed(Timestamp(chain)) \in Nat /\ OldestAllowed(Timestamp(b)) \in Nat
       /\ Timestamp(Ancestor(b, oldest)) \in Nat /\ Timestamp(Ancestor(chain, lastBlock)) \in Nat
  <2>1. oldest \in 0 .. Len(b) /\ b \in Seq(Payloads) /\ chain \in Seq(Payloads)
    BY <1>2, <1>3, TimelyFacts
  <2> QED
    BY <1>3, <1>8, <2>1, OldestFacts, AncestorFacts
<1>11. minTimestamp' <= OldestAllowed(Timestamp(b)) /\ minTimestamp <= minTimestamp'
       /\ minTimestamp' \in Nat
  BY <1>1, <1>3, <1>4, <1>8, <1>10 DEF SyncIndex
<1>12. \/ client' # "closed" \/ lastBlock = 0
       \/ Timestamp(Ancestor(b, lastBlock)) < minTimestamp'
  <2>1. client' = "closed" => client = "closed"
    BY <1>1
  <2> QED
    BY <1>3, <1>4, <1>9, <1>10, <1>11, <2>1 DEF SyncIndex
<1>13. \/ ~syncDone' \/ Reaches(b, oldest)
       \/ client' = "closed" /\ resultChan = <<>>
  <2>1. CASE Timestamp(b) - Timestamp(Ancestor(b, oldest)) > Window
    <3>1. Window \in Nat
      BY WindowAssumption
    <3>2. Timestamp(Ancestor(b, oldest)) + Window < Timestamp(b)
      BY <1>8, <1>10, <2>1, <3>1
    <3>3. Timestamp(Ancestor(b, oldest)) < OldestAllowed(Timestamp(b))
      BY <1>8, <1>10, <3>2, OldestFacts
    <3> QED
      BY <3>3 DEF Reaches
  <2>2. CASE syncDone' = syncDone /\ client' = client
    BY <1>4, <1>8, <2>2 DEF SyncIndex
  <2> QED
    BY <1>1, <2>1, <2>2
<1>14. SyncIndex'
  <2>1. index' = u
    BY <1>1, <1>5
  <2> QED
    BY <1>1, <2>1, <1>7, <1>11, <1>12, <1>13 DEF SyncIndex
<1>15. 0 \in index'.stored
  BY <1>1, <1>5, <1>6 DEF IndexOf
<1> QED
  BY <1>1, <1>14, <1>15 DEF IndexInv, SyncIndex

LEMMA FetchIndex ==
    ASSUME SafeInv, IndexInv, FetchClosed \/ FetchBlock \/ SignalDone
    PROVE  IndexInv'
<1>1. UNCHANGED <<chain, index, phase, oldest, minTimestamp>>
  BY DEF FetchClosed, FetchBlock, SignalDone, vars
<1>2. CASE phase # "syncing"
  BY <1>1, <1>2 DEF IndexInv
<1>3. CASE phase = "syncing"
  <2>1. SyncIndex
    BY <1>3, IndexSplit
  <2>2. CASE FetchClosed
    <3>1. /\ client = "run" /\ client' = "closed" /\ UNCHANGED <<lastBlock, resultChan, syncDone>>
          /\ Timestamp(Ancestor(chain, lastBlock)) < minTimestamp
      BY <2>2 DEF FetchClosed
    <3>2. SyncIndex'
      BY <1>1, <2>1, <3>1 DEF SyncIndex
    <3> QED
      BY <1>1, <1>3, <3>2 DEF IndexInv, SyncIndex
  <2>3. CASE FetchBlock
    <3>1. /\ client = "run" /\ resultChan = <<>> /\ lastBlock > 0
          /\ lastBlock' = lastBlock - 1 /\ resultChan' = <<lastBlock - 1>>
          /\ UNCHANGED <<client, syncDone>>
      BY <2>3 DEF FetchBlock
    <3>2. lastBlock \in Nat /\ index.last \in Nat
      BY IndexFacts, TypeFacts
    <3>3. ToSet(resultChan') = {lastBlock - 1} /\ ToSet(resultChan) = {}
      BY <3>1, ResultFacts DEF ToSet
    <3>4. Coming(index, lastBlock - 1, {lastBlock - 1})
      <4>1. Coming(index, lastBlock, {})
        BY <2>1, <3>3 DEF SyncIndex
      <4>2. ASSUME NEW h \in lastBlock - 1 .. index.last, h # lastBlock - 1
            PROVE  h \in lastBlock .. index.last
        BY <3>2, <4>2
      <4> QED
        BY <4>1, <4>2 DEF Coming
    <3>5. SyncIndex'
      BY <1>1, <2>1, <3>1, <3>3, <3>4 DEF SyncIndex
    <3> QED
      BY <1>1, <1>3, <3>5 DEF IndexInv, SyncIndex
  <2>4. CASE SignalDone
    <3>1. client = "closed" /\ resultChan = <<>> /\ UNCHANGED <<client, lastBlock, resultChan>>
      BY <2>4 DEF SignalDone, fetchVars
    <3>2. SyncIndex'
      BY <1>1, <2>1, <3>1 DEF SyncIndex
    <3> QED
      BY <1>1, <1>3, <3>2 DEF IndexInv, SyncIndex
  <2> QED
    BY <2>2, <2>3, <2>4
<1> QED
  BY <1>2, <1>3

LEMMA TakeBlockIndex ==
    ASSUME SafeInv, IndexInv, TakeBlock
    PROVE  IndexInv'
<1>1. PICK h \in 0 .. Len(chain) : h = Head(resultChan) /\ ToSet(resultChan) = {h}
  BY ResultFacts DEF TakeBlock
<1>2. /\ resultChan # <<>> /\ resultChan' = <<>>
      /\ index' = [index EXCEPT !.stored = @ \cup {h}]
      /\ UNCHANGED <<chain, phase, oldest, lastBlock, minTimestamp, client, syncDone>>
  BY <1>1 DEF TakeBlock, SaveHistorical, WriteBlock
<1>3. index'.last = index.last /\ index'.stored = index.stored \cup {h}
  BY <1>2, TypesSplit DEF SafeInv, NodeTypes
<1>4. phase \notin {"syncing", "failed"} => Grounded(index, chain)'
  <2>1. ASSUME Grounded(index, chain) PROVE Grounded(index, chain)'
    BY <1>2, <1>3, <2>1 DEF Grounded, Kept
  <2> QED
    BY <2>1, IndexSplit
<1>5. phase = "syncing" => SyncIndex'
  <2>1. SUFFICES ASSUME phase = "syncing" PROVE SyncIndex'
    OBVIOUS
  <2>2. SyncIndex
    BY <2>1, IndexSplit
  <2>3. Coming(index', oldest, {})
    BY <1>3, <2>2 DEF SyncIndex, Coming
  <2>4. Coming(index', lastBlock, {})
    BY <1>1, <1>3, <2>2 DEF SyncIndex, Coming
  <2>5. ToSet(resultChan') = {}
    BY <1>2, ResultFacts
  <2> QED
    BY <1>2, <2>2, <2>3, <2>4, <2>5 DEF SyncIndex
<1>6. 0 \in index'.stored
  BY <1>3 DEF IndexInv
<1> QED
  BY <1>2, <1>4, <1>5, <1>6 DEF IndexInv, Grounded, SyncIndex, Height

LEMMA FinishSyncIndex ==
    ASSUME KeepsWindow, SafeInv, IndexInv, NEW t, FinishSync(t)
    PROVE  IndexInv'
<1>1. phase = "syncing" /\ phase' = "ready" /\ syncDone /\ UNCHANGED <<chain, index>>
  BY DEF FinishSync
<1>2. /\ Timely(chain) /\ IndexOf(index, chain) /\ oldest \in 0 .. Len(chain)
      /\ lastBlock \in 0 .. Len(chain) /\ minTimestamp \in Nat
  BY TypeFacts, IndexFacts
<1>3. SyncIndex
  BY <1>1, IndexSplit
<1>4. Grounded(index, chain)
  <2>1. CASE Reaches(chain, oldest)
    <3>1. Coming(index, oldest, {})
      BY <1>3 DEF SyncIndex
    <3> QED
      BY <1>2, <2>1, <3>1, ComingGrounded
  <2>2. CASE client = "closed" /\ resultChan = <<>>
    <3>1. /\ Timestamp(Ancestor(chain, lastBlock)) \in Nat
          /\ OldestAllowed(Timestamp(chain)) \in Nat
      BY <1>2, TypeFacts, AncestorFacts, OldestFacts
    <3>2. Reaches(chain, lastBlock)
      BY <1>2, <1>3, <2>2, <3>1 DEF SyncIndex, Reaches
    <3>3. Coming(index, lastBlock, {})
      BY <1>3, <2>2, ResultFacts DEF SyncIndex
    <3> QED
      BY <1>2, <3>2, <3>3, ComingGrounded
  <2> QED
    BY <1>1, <1>3, <2>1, <2>2 DEF SyncIndex
<1> QED
  BY <1>1, <1>4 DEF IndexInv, Grounded, Height

LEMMA StepIndex ==
    ASSUME KeepsWindow, SafeInv, IndexInv, [Next]_<<vars, syncVars>>
    PROVE  IndexInv'
<1>1. ASSUME NodeNext, UNCHANGED syncVars PROVE IndexInv'
  <2>1. UNCHANGED <<oldest, lastBlock, resultChan, minTimestamp, client, syncDone>>
    BY <1>1 DEF syncVars, fetchVars
  <2>2. ASSUME NEW b, VerifyBlock(b) PROVE IndexInv'
    <3>1. UNCHANGED <<chain, index, phase>>
      BY <2>2 DEF VerifyBlock
    <3> QED
      BY <2>1, <3>1, IndexSame
  <2>3. ASSUME NEW b, AcceptFails(b) PROVE IndexInv'
    <3>1. UNCHANGED <<chain, index>> /\ phase' = "failed"
      BY <2>3 DEF AcceptFails
    <3> QED
      BY <3>1, IndexSame
  <2>4. CASE StartNormalOp \/ Process \/ Start
    <3>1. UNCHANGED <<chain, index>> /\ phase \notin {"syncing", "failed"} /\ phase' # "syncing"
      BY <2>4 DEF StartNormalOp, Process, Start
    <3> QED
      BY <3>1, IndexSame
  <2> QED
    BY <1>1, <2>2, <2>3, <2>4, AcceptIndex, StopIndex DEF NodeNext
<1>2. ASSUME NEW b, TargetFails(b) PROVE IndexInv'
  <2>1. UNCHANGED <<chain, index>> /\ phase' = "failed"
    BY <1>2 DEF TargetFails
  <2> QED
    BY <2>1, IndexSame
<1>3. CASE SyncStep
  BY <1>3, FetchIndex, TakeBlockIndex, FinishSyncIndex DEF SyncStep
<1>4. CASE UNCHANGED <<vars, syncVars>>
  <2>1. UNCHANGED <<chain, index, phase, oldest, lastBlock, resultChan, minTimestamp, client, syncDone>>
    BY <1>4 DEF vars, syncVars, fetchVars
  <2> QED
    BY <2>1, IndexSame
<1> QED
  BY <1>1, <1>2, <1>3, <1>4, StartSyncIndex, UpdateSyncTargetIndex DEF Next

LEMMA InitIndex == SyncInit => IndexInv
<1>1. SUFFICES ASSUME SyncInit PROVE IndexInv
  OBVIOUS
<1>2. chain = <<>> /\ index = [last |-> 0, stored |-> {0}] /\ phase = "bootstrap"
  BY <1>1 DEF SyncInit, Init, Genesis, EmptyIndex
<1>3. Len(chain) = 0 /\ index.stored = {0} /\ index.last = 0 /\ 0 .. 0 = {0}
  BY <1>2
<1>4. Kept(index, 0) /\ Reaches(chain, 0) /\ 0 \in 0 .. Len(chain)
  BY <1>3 DEF Kept, Reaches
<1>5. Grounded(index, chain)
  BY <1>4 DEF Grounded
<1> QED
  BY <1>2, <1>3, <1>5 DEF IndexInv, Grounded, Height

-----------------------------------------------------------------------------
(* Replay protection is exact                                                *)

(* The blocks that a walk needs are in processing or in the index.           *)
LEMMA WalkSucceeds ==
    ASSUME SafeInv, IndexInv, phase = "normal", NEW p \in Parents,
           NEW t \in Nat, t > Timestamp(p)
    PROVE  ~RepeatFails(win, p, OldestAllowed(t))
<1>1. /\ Timely(p) /\ p \in Seq(Payloads) /\ Len(p) \in Nat
      /\ Len(chain) <= Len(p) /\ \A i \in 1 .. Len(chain) : p[i] = chain[i]
      /\ Timestamp(p) \in Nat /\ Timestamp(chain) <= Timestamp(p)
      /\ chain \in Seq(Payloads) /\ Len(chain) \in Nat /\ Timestamp(chain) \in Nat
      /\ Timely(chain)
  BY ParentFacts, TypeFacts
<1>2. PICK h \in 0 .. Len(p) : h = WalkEnd(win, p, OldestAllowed(t))
  BY <1>1, WalkFacts
<1>3. WalkEnds(win, p, OldestAllowed(t), h)
  BY <1>1, <1>2, WalkFacts
<1>4. /\ Timestamp(Ancestor(p, h)) \in Nat /\ OldestAllowed(t) \in Nat
      /\ win.height \in Nat /\ win.height <= Len(chain)
      /\ OldestAllowed(Timestamp(chain)) \in Nat
  BY <1>1, AncestorFacts, OldestFacts, TypeFacts
<1>5. SUFFICES ASSUME ~(Timestamp(Ancestor(p, h)) < OldestAllowed(t)), h > win.height, h # 0
               PROVE  FALSE
  BY <1>2, <1>4 DEF RepeatFails
<1>6. ~Available(Ancestor(p, h - 1))
  BY <1>3, <1>4, <1>5 DEF WalkEnds
<1>7. h - 1 \in 0 .. Len(p) /\ h \in Nat
  BY <1>1, <1>5
<1>8. CASE h - 1 > Len(chain)
  <2>1. p \in processing
    BY <1>1, <1>7, <1>8 DEF Parents
  <2>2. h - 1 \in Len(chain) + 1 .. Len(p)
    BY <1>1, <1>7, <1>8
  <2>3. Ancestor(p, h - 1) \in processing
    BY <2>1, <2>2 DEF SafeInv, ForksInv, Height
  <2> QED
    BY <1>6, <2>3 DEF Available
<1>9. CASE h - 1 <= Len(chain)
  <2>1. PICK g \in 0 .. Len(chain) : g = h - 1
    BY <1>7, <1>9
  <2>2. /\ Ancestor(p, g) \in Seq(Payloads) /\ Len(Ancestor(p, g)) = g
        /\ \A i \in 1 .. g : Ancestor(p, g)[i] = p[i]
    BY <1>1, <1>7, <2>1, AncestorFacts
  <2>3. IsPrefix(Ancestor(p, g), chain)
    <3>1. \A i \in 1 .. g : Ancestor(p, g)[i] = chain[i]
      BY <1>1, <2>1, <2>2, SMTT(20)
    <3> QED
      BY <1>1, <2>1, <2>2, <3>1, PrefixFacts
  <2>4. g \notin index.stored
    BY <1>6, <2>1, <2>2, <2>3 DEF Available, HasBlock, Height
  <2>5. PICK l \in 0 .. Len(chain) : Kept(index, l) /\ Reaches(chain, l)
    BY IndexSplit DEF Grounded
  <2>6. g < l
    <3>1. index.last = Len(chain)
      BY TypeFacts
    <3> QED
      BY <1>1, <2>1, <2>4, <2>5, <3>1 DEF Kept
  <2>7. l # 0 /\ h <= l /\ l \in 0 .. Len(p)
    BY <1>1, <1>7, <2>1, <2>6
  <2>8. Timestamp(Ancestor(chain, l)) < OldestAllowed(Timestamp(chain))
    BY <2>5, <2>7 DEF Reaches
  <2>9. Ancestor(p, l) = Ancestor(chain, l)
    BY <1>1, <2>5, <2>7, ReachesStays
  <2>10. Timestamp(Ancestor(p, h)) <= Timestamp(Ancestor(p, l))
    BY <1>1, <2>7, TimeGrows
  <2>11. OldestAllowed(Timestamp(chain)) <= OldestAllowed(t)
    BY <1>1, WindowAssumption DEF OldestAllowed
  <2>12. Timestamp(Ancestor(p, l)) \in Nat
    BY <1>1, <2>7, AncestorFacts
  <2>13. Timestamp(Ancestor(p, h)) < OldestAllowed(t)
    BY <1>4, <2>8, <2>9, <2>10, <2>11, <2>12
  <2> QED
    BY <1>5, <2>13
<1> QED
  BY <1>1, <1>7, <1>8, <1>9

(* A walk finds nothing that is not in an ancestor.                          *)
LEMMA RepeatsAreOld ==
    ASSUME SafeInv, NEW p \in Parents, NEW old
    PROVE  Repeats(win, p, old) \subseteq TxsOn(p)
<1>1. /\ p \in Seq(Payloads) /\ Len(p) \in Nat
      /\ Len(chain) <= Len(p) /\ \A i \in 1 .. Len(chain) : p[i] = chain[i]
      /\ chain \in Seq(Payloads)
  BY ParentFacts, TypeFacts
<1>2. PICK h \in 0 .. Len(p) : h = WalkEnd(win, p, old)
  BY <1>1, WalkFacts
<1>3. ASSUME NEW g \in h + 1 .. Len(p) PROVE ToSet(Containers(Ancestor(p, g))) \subseteq TxsOn(p)
  <2>1. g \in 0 .. Len(p) /\ g \in 1 .. Len(p) /\ g # 0
    BY <1>1
  <2>2. Containers(Ancestor(p, g)) = p[g].txs
    BY <1>1, <2>1, AncestorFacts
  <2> QED
    BY <1>1, <2>1, <2>2, TxsOnFacts
<1>4. UNION {ToSet(Containers(Ancestor(p, g))) : g \in h + 1 .. Len(p)} \subseteq TxsOn(p)
  BY <1>3
<1>5. win.seen \subseteq TxsOn(p)
  BY <1>1, TypeFacts, TxsOnPrefix
<1> QED
  BY <1>2, <1>4, <1>5 DEF Repeats, Height

LEMMA ExactlyRepeats ==
    ASSUME SafeInv, IndexInv, phase = "normal", NEW p \in Parents,
           NEW t \in Nat, t > Timestamp(p), NEW x, Expiry[x] >= t
    PROVE  x \in Repeats(win, p, OldestAllowed(t)) <=> x \in TxsOn(p)
  BY WalkSucceeds, WalkFinds, RepeatsAreOld

LEMMA Exact == SafeInv /\ IndexInv => VerifyIsExact
<1>1. SUFFICES ASSUME SafeInv, IndexInv, phase = "normal", NEW p \in Parents
               PROVE  /\ \A b \in Children(p) :
                            VerifyExpiryReplayProtection(b) <=>
                                /\ IsInjective(Containers(b))
                                /\ ToSet(Containers(b)) \cap TxsOn(p) = {}
                      /\ \A t \in {u \in Times : u > Timestamp(p)} :
                            LET valid == {x \in Txs : VerifyTimestamp(x, t)}
                            IN IsRepeat(p, t, valid) = valid \cap TxsOn(p)
  BY DEF VerifyIsExact
<1>2. /\ Timely(p) /\ p \in Seq(Payloads) /\ Len(p) \in Nat /\ Len(chain) <= Len(p)
      /\ Timestamp(p) \in Nat /\ Len(chain) \in Nat
      /\ win.height \in Nat /\ win.height <= Len(chain)
  BY <1>1, ParentFacts, TypeFacts
<1>3. ASSUME NEW b \in Children(p)
      PROVE  VerifyExpiryReplayProtection(b) <=>
                 /\ IsInjective(Containers(b))
                 /\ ToSet(Containers(b)) \cap TxsOn(p) = {}
  <2>1. Timely(b) /\ Len(b) = Len(p) + 1 /\ Front(b) = p /\ Timestamp(b) > Timestamp(p)
    BY <1>2, ChildFacts
  <2>2. b \in Seq(Payloads) /\ Len(b) \in Nat /\ Timestamp(b) \in Nat
    BY <2>1, TimelyFacts, BlockFacts
  <2>3. ~(Height(b) <= win.height)
    BY <1>2, <2>1 DEF Height
  <2>4. Available(p)
    <3>1. CASE p \in processing
      BY <3>1 DEF Available
    <3>2. CASE p = chain
      <4>1. IsPrefix(chain, chain)
        BY <1>2, <3>2, PrefixFacts
      <4>2. PICK l \in 0 .. Len(chain) : Kept(index, l)
        BY <1>1, IndexSplit DEF Grounded
      <4>3. index.last = Len(chain) /\ Len(chain) \in l .. Len(chain)
        BY <1>1, <1>2, TypeFacts
      <4>4. HasBlock(index, Height(chain))
        BY <4>2, <4>3 DEF Kept, HasBlock, Height
      <4> QED
        BY <3>2, <4>1, <4>4 DEF Available
    <3> QED
      BY <3>1, <3>2 DEF Parents
  <2>5. ~RepeatFails(win, p, OldestAllowed(Timestamp(b)))
    BY <1>1, <2>1, <2>2, WalkSucceeds
  <2>6. ASSUME NEW x \in ToSet(Containers(b))
        PROVE  x \in Repeats(win, p, OldestAllowed(Timestamp(b))) <=> x \in TxsOn(p)
    <3>1. Len(b) \in 1 .. Len(b) /\ Containers(b) = b[Len(b)].txs /\ Timestamp(b) = b[Len(b)].ts
      BY <1>2, <2>1, <2>2, BlockFacts
    <3>2. Expiry[x] >= Timestamp(b)
      BY <2>1, <2>6, <3>1, TimelyFacts
    <3> QED
      BY <1>1, <2>1, <2>2, <3>2, ExactlyRepeats
  <2>7. ToSet(Containers(b)) \cap Repeats(win, p, OldestAllowed(Timestamp(b))) = {}
            <=> ToSet(Containers(b)) \cap TxsOn(p) = {}
    BY <2>6
  <2> QED
    BY <2>1, <2>3, <2>4, <2>5, <2>7 DEF VerifyExpiryReplayProtection, IsRepeat
<1>4. ASSUME NEW t \in Times, t > Timestamp(p),
             NEW valid, valid = {x \in Txs : VerifyTimestamp(x, t)}
      PROVE  IsRepeat(p, t, valid) = valid \cap TxsOn(p)
  <2>1. t \in Nat
    BY WindowAssumption
  <2>2. ASSUME NEW x \in valid
        PROVE  x \in Repeats(win, p, OldestAllowed(t)) <=> x \in TxsOn(p)
    <3>1. Expiry[x] >= t
      BY <1>4, <2>2 DEF VerifyTimestamp
    <3> QED
      BY <1>1, <1>4, <2>1, <3>1, ExactlyRepeats
  <2> QED
    BY <2>2 DEF IsRepeat
<1> QED
  BY <1>3, <1>4

-----------------------------------------------------------------------------
(* Where the index keeps the blocks of a window: outside of state sync, a    *)
(* complete window is in it, after any pruning, restart, or state sync that  *)
(* a new target cut short.                                                   *)
THEOREM WindowHolds ==
    ASSUME KeepsWindow
    PROVE  Spec => []WindowInv
<1>1. SafeInv /\ IndexInv => WindowInv
  <2>1. ASSUME SafeInv, IndexInv, phase \notin {"syncing", "failed"}
        PROVE  Complete(index, chain)
    BY <2>1, TypeFacts, IndexFacts, IndexSplit, GroundedComplete
  <2> QED
    BY <2>1 DEF SafeInv, WindowInv
<1>2. SyncInit => SafeInv /\ IndexInv
  BY InitSafe, InitIndex
<1>3. SafeInv /\ IndexInv /\ [Next]_<<vars, syncVars>> => (SafeInv /\ IndexInv)'
  BY StepSafe, StepIndex
<1> QED
  BY <1>1, <1>2, <1>3, PTL DEF Spec

(* There, replay protection in normal operation refuses exactly the blocks   *)
(* with a transaction that is twice in them or in an ancestor, on every      *)
(* branch, and tells the builder which transactions an ancestor has.         *)
THEOREM ReplayProtectionExact ==
    ASSUME KeepsWindow
    PROVE  Spec => []VerifyIsExact
<1>1. WindowInv => VerifyIsExact
  BY Exact DEF SafeInv, WindowInv
<1> QED
  BY <1>1, WindowHolds, PTL

(* However little the index keeps, no transaction is twice on the accepted   *)
(* chain.                                                                    *)
THEOREM ChainWithoutReplays == Spec => []NoReplay
<1>1. SafeInv => NoReplay
  BY TypeFacts DEF NoReplay
<1> QED
  BY <1>1, InitSafe, StepSafe, PTL DEF Spec
=============================================================================
