--------------------------- MODULE ExecutorProofs ---------------------------
(***************************************************************************)
(* For every block, every plan of its keys and any number of workers:      *)
(* ExecutorInv is inductive, so conflicting tasks run in block order, no   *)
(* task waits for one that is already executed, and the verdict of Wait    *)
(* does not depend on the schedule.                                        *)
(*                                                                         *)
(* Then the same executor inside executeTxs: OrderedInv and ExecuteTxsInv  *)
(* are inductive for BlockSpec.  Each of its steps is one of the executor  *)
(* or a task's return (BlockOrder), one of the fetcher or none             *)
(* (BlockFetches); CallsStep relates the two.                              *)
(***************************************************************************)
EXTENDS ExecuteTxs, FiniteSetTheorems, TLAPS

USE DEF Tasks, None

(* A set of tasks is finite and has at most N elements.                      *)
LEMMA TaskSets ==
  ASSUME NEW S \in SUBSET Tasks
  PROVE  IsFiniteSet(S) /\ Cardinality(S) \in Nat /\ Cardinality(S) <= N
<1>1. IsFiniteSet(1 .. N) /\ Cardinality(1 .. N) <= N
  BY FS_Interval, SizeAssumption
<1>2. IsFiniteSet(S) /\ Cardinality(S) <= Cardinality(1 .. N)
  BY <1>1, FS_Subset
<1> QED  BY <1>1, <1>2, FS_CardinalityType, SizeAssumption

(* The dependencies that are executed and those that are not.                *)
LEMMA Split ==
  ASSUME NEW S \in SUBSET Tasks, NEW P \in SUBSET S
  PROVE  Cardinality(S) = Cardinality(P) + Cardinality(S \ P)
<1>1. /\ IsFiniteSet(P) /\ IsFiniteSet(S \ P)
      /\ Cardinality(P) \in Nat /\ Cardinality(S \ P) \in Nat
  BY TaskSets
<1>2. P \cup (S \ P) = S /\ P \cap (S \ P) = {}
  OBVIOUS
<1>3. Cardinality(P \cup (S \ P)) = Cardinality(P) + Cardinality(S \ P)
                                      - Cardinality(P \cap (S \ P))
  BY <1>1, FS_Union
<1>4. Cardinality(P \cap (S \ P)) = 0
  BY <1>2, FS_EmptySet
<1>5. Cardinality(S) = Cardinality(P) + Cardinality(S \ P) - 0
  BY <1>2, <1>3, <1>4, Zenon
<1> QED  BY <1>1, <1>5

LEMMA InitInv == Init => OrderedInv
<1> SUFFICES ASSUME Init PROVE OrderedInv
  OBVIOUS
<1>1. TypeOK
  BY PlanAssumption, FailureAssumption, SizeAssumption DEF Init, TypeOK
<1>2. current = 0 /\ \A t \in Tasks : ~(t \in 1 .. current) /\ t # current
  BY SizeAssumption DEF Init
<1>3. NodeInv /\ OrderInv
  BY <1>2 DEF Init, NodeInv, OrderInv, Handled
<1>4. ReaderInv /\ BlockInv
  BY DEF Init, ReaderInv, BlockInv
<1>5. CountInv
  BY <1>2 DEF CountInv, Adjusted
<1>6. ReleaseInv /\ ConflictOrder
  BY <1>2, FailureAssumption
     DEF Init, ReleaseInv, ConflictOrder, Started, Returned, Done
<1> QED  BY <1>1, <1>3, <1>4, <1>5, <1>6 DEF OrderedInv

-----------------------------------------------------------------------------
(* Run takes the next task.                                                  *)
LEMMA RunInv == OrderedInv /\ Run => OrderedInv'
<1> SUFFICES ASSUME OrderedInv, Run PROVE OrderedInv'
  OBVIOUS
<1> DEFINE c == current + 1
<1>1. /\ TypeOK /\ runPc = "idle" /\ runPc' = "keys" /\ current' = c
      /\ c \in Tasks /\ current \in Nat
      /\ UNCHANGED <<plan, failing, dependsOn, nodes, reading, readers, blocked,
                     executed, work, err>>
  BY SizeAssumption DEF OrderedInv, TypeOK, Run
<1>2. UNCHANGED <<executable, taskPc>>
  BY <1>1 DEF work
<1>3. \A t \in Tasks : \A k \in Keys : Handled(t, k)' <=> Handled(t, k)
  BY <1>1 DEF Handled, Access, Run
<1>4. \A t \in Tasks : Adjusted(t)' <=> Adjusted(t)
  BY <1>1 DEF Adjusted
<1>5. /\ \A t \in Tasks : /\ Started(t)' = Started(t) /\ Done(t)' = Done(t)
                          /\ Returned(t)' = Returned(t) /\ Pending(t)' = Pending(t)
      /\ \A t, u \in Tasks : Conflict(t, u)' = Conflict(t, u)
      /\ \A t, u \in Tasks : \A k \in Keys : ConflictOn(t, u, k)' = ConflictOn(t, u, k)
  BY <1>1, <1>2 DEF Started, Done, Returned, Pending, Conflict, ConflictOn, Access
<1>6. TypeOK'
  BY <1>1, <1>2, DependencyAssumption DEF TypeOK, Run, Access
<1>7. NodeInv'
  BY <1>1, <1>3, <1>5 DEF OrderedInv, NodeInv, TypeOK
<1>8. OrderInv'
  BY <1>1, <1>3, <1>5 DEF OrderedInv, OrderInv, TypeOK
<1>9. ReaderInv' /\ BlockInv'
  BY <1>1, <1>2, <1>5 DEF OrderedInv, ReaderInv, BlockInv
<1>10. CountInv'
  <2>1. dependsOn[c] = {}
    BY <1>1 DEF OrderedInv, BlockInv, TypeOK
  <2>2. Cardinality(dependsOn[c] \ Pending(c)) = 0
    BY <2>1, FS_EmptySet
  <2>3. dependencies' = [dependencies EXCEPT ![c] = MaxDependencies] /\ ~Adjusted(c)
    BY <1>1 DEF Run, Adjusted
  <2>4. \A t \in Tasks : Adjusted(t) => dependencies'[t] = Cardinality(Pending(t))
    BY <1>1, <2>3 DEF OrderedInv, CountInv, TypeOK
  <2>5. dependencies'[c] = MaxDependencies - Cardinality(dependsOn[c] \ Pending(c))
    BY <1>1, <2>2, <2>3, DependencyAssumption DEF TypeOK
  <2> QED  BY <1>1, <1>4, <1>5, <2>4, <2>5 DEF CountInv
<1>11. ReleaseInv' /\ ConflictOrder'
  BY <1>1, <1>2, <1>4, <1>5 DEF OrderedInv, ReleaseInv, ConflictOrder
<1> QED  BY <1>6, <1>7, <1>8, <1>9, <1>10, <1>11 DEF OrderedInv
-----------------------------------------------------------------------------
(* A key that Run handles: the task found there is an earlier one, and so    *)
(* are its readers.                                                          *)
LEMMA KeyFacts ==
  ASSUME OrderedInv, NEW k \in Keys, RunKey(k)
  PROVE  /\ current \in Tasks /\ current \in Nat /\ Access(current, k)
         /\ ~Adjusted(current) /\ ~Started(current) /\ current \notin executable
         /\ nodes[k] # None =>
               /\ nodes[k] \in Tasks /\ nodes[k] < current
               /\ Handled(nodes[k], k)
               /\ \A r \in readers[nodes[k]] \ {current} :
                     r \in Tasks /\ r < current /\ ~executed[r]
<1>1. TypeOK /\ runPc = "keys" /\ k \in keysLeft
  BY DEF OrderedInv, RunKey
<1>2. /\ current \in Tasks /\ current \in Nat /\ Access(current, k)
      /\ ~Adjusted(current) /\ ~Started(current) /\ current \notin executable
  BY <1>1, SizeAssumption DEF OrderedInv, TypeOK, ReleaseInv, Adjusted
<1>3. ASSUME nodes[k] # None
      PROVE  /\ nodes[k] \in Tasks /\ nodes[k] < current
             /\ Handled(nodes[k], k)
  <2>1. nodes[k] \in Tasks /\ Handled(nodes[k], k)
    BY <1>1, <1>3 DEF OrderedInv, NodeInv, TypeOK
  <2>2. nodes[k] \in 1 .. current /\ nodes[k] # current
    BY <1>1, <2>1 DEF Handled
  <2> QED  BY <1>2, <2>1, <2>2
<1>4. ASSUME nodes[k] # None, NEW r \in readers[nodes[k]], r # current
      PROVE  r \in Tasks /\ r < current /\ ~executed[r]
  <2>1. r \in Tasks
    BY <1>1, <1>3, <1>4 DEF TypeOK
  <2>2. r \in 1 .. current /\ ~executed[r]
    BY <1>3, <1>4, <2>1 DEF OrderedInv, ReaderInv, ReleaseInv
  <2> QED  BY <1>2, <1>4, <2>1, <2>2
<1> QED  BY <1>2, <1>3, <1>4

(* Waiting for earlier tasks that are not executed.                          *)
LEMMA BlockOnInv ==
  ASSUME OrderedInv, NEW k \in Keys, RunKey(k),
         NEW D \in SUBSET Tasks, \A d \in D : d < current /\ ~executed[d],
         BlockOn(D),
         UNCHANGED <<plan, failing, runPc, current, executed, dependencies,
                     executable, taskPc, err>>
  PROVE  /\ dependsOn' \in [Tasks -> SUBSET Tasks]
         /\ blocked' \in [Tasks -> SUBSET Tasks]
         /\ \A t \in Tasks : dependsOn[t] \subseteq dependsOn'[t]
         /\ dependsOn'[current] = dependsOn[current] \cup D
         /\ BlockInv' /\ CountInv' /\ ReleaseInv' /\ ConflictOrder'
<1> DEFINE c == current
<1>1. TypeOK /\ c \in Tasks /\ c \in Nat /\ ~Adjusted(c) /\ runPc = "keys"
  BY KeyFacts DEF OrderedInv, RunKey
<1>2. dependsOn' = [dependsOn EXCEPT ![c] = @ \cup D]
  BY DEF BlockOn
<1>3. /\ dependsOn' \in [Tasks -> SUBSET Tasks]
      /\ blocked' \in [Tasks -> SUBSET Tasks]
      /\ dependsOn'[c] = dependsOn[c] \cup D
      /\ \A t \in Tasks : t # c => dependsOn'[t] = dependsOn[t]
      /\ \A t \in Tasks : blocked'[t] = IF t \in D THEN blocked[t] \cup {c}
                                                   ELSE blocked[t]
  <2>1. /\ dependsOn' \in [Tasks -> SUBSET Tasks]
        /\ dependsOn'[c] = dependsOn[c] \cup D
        /\ \A t \in Tasks : t # c => dependsOn'[t] = dependsOn[t]
    BY <1>1, <1>2 DEF TypeOK
  <2>2. blocked \in [Tasks -> SUBSET Tasks]
    BY <1>1 DEF TypeOK
  <2> QED  BY <1>1, <2>1, <2>2 DEF BlockOn
<1>4. BlockInv'
  BY <1>1, <1>3 DEF OrderedInv, BlockInv
<1>5. \A t \in Tasks : Adjusted(t)' <=> Adjusted(t)
  BY DEF Adjusted
<1>6. CountInv'
  <2>1. dependsOn'[c] \ Pending(c)' = dependsOn[c] \ Pending(c)
    BY <1>3 DEF Pending
  <2>2. \A t \in Tasks : t # c => Pending(t)' = Pending(t)
    BY <1>3 DEF Pending
  <2> QED  BY <1>1, <1>5, <2>1, <2>2 DEF OrderedInv, CountInv
<1>7. ReleaseInv'
  BY <1>1, <1>3, <1>5 DEF OrderedInv, ReleaseInv, Started, Done
<1>8. ConflictOrder'
  BY DEF OrderedInv, ConflictOrder, Started, Returned, Done,
         Conflict, ConflictOn, Access
<1> QED  BY <1>1, <1>3, <1>4, <1>6, <1>7, <1>8

(* What Run has handled after the key k.                                     *)
LEMMA HandledStep ==
  ASSUME OrderedInv, NEW k \in Keys, RunKey(k), UNCHANGED <<plan, runPc, current>>
  PROVE  \A t \in Tasks : \A j \in Keys :
             Handled(t, j)' <=> Handled(t, j) \/ (t = current /\ j = k)
<1>1. current \in Tasks /\ current \in Nat /\ Access(current, k)
  BY KeyFacts
<1> QED  BY <1>1 DEF RunKey, Handled, Access

(* The last task on the key, and everybody before it that conflicts with it, *)
(* has returned, or the current task waits for it.                           *)
LEMMA LastCovers ==
  ASSUME OrderedInv, NEW k \in Keys, RunKey(k), nodes[k] # None,
         NEW u \in Tasks, u < current, ConflictOn(u, current, k),
         u = nodes[k] \/ u < nodes[k]
  PROVE  \/ Returned(u)
         \/ u \in Last(k)
         \/ nodes[k] \in Last(k) /\ u < nodes[k] /\ ConflictOn(u, nodes[k], k)
<1> DEFINE n == nodes[k]
<1>1. /\ TypeOK /\ n \in Tasks /\ n < current /\ Handled(n, k)
      /\ current \in Tasks /\ current \in Nat /\ executed[n] \in BOOLEAN
  BY KeyFacts DEF OrderedInv, TypeOK
<1>2. Handled(u, k)
  BY <1>1 DEF Handled, ConflictOn
<1>3. u < n => ConflictOn(u, n, k)
  BY <1>1, <1>2 DEF OrderedInv, NodeInv, Handled, ConflictOn, Access
<1>4. executed[n] => Done(n) /\ Started(n) /\ Returned(n)
  BY <1>1 DEF OrderedInv, ReleaseInv, Done, Started, Returned
<1>5. executed[n] /\ u < n => Returned(u)
  BY <1>1, <1>3, <1>4 DEF OrderedInv, ConflictOrder, Conflict
<1>6. ~executed[n] => n \in Last(k)
  BY DEF Last
<1> QED  BY <1>3, <1>4, <1>5, <1>6
(* The three ways in which Run handles a key.                                *)
LEMMA RunFirstInv ==
  ASSUME OrderedInv, NEW k \in Keys, RunFirst(k)
  PROVE  OrderedInv'
<1> DEFINE c == current
<1>1. /\ TypeOK /\ RunKey(k) /\ c \in Tasks /\ c \in Nat /\ Access(c, k)
      /\ ~Adjusted(c) /\ ~Started(c) /\ c \notin executable
      /\ nodes[k] = 0 /\ nodes' = [nodes EXCEPT ![k] = c]
      /\ UNCHANGED <<plan, failing, runPc, current, dependsOn, reading, readers,
                     blocked, executed, dependencies, executable, taskPc, err>>
  BY KeyFacts DEF RunFirst, work, OrderedInv
<1>2. \A t \in Tasks : \A j \in Keys :
          Handled(t, j)' <=> Handled(t, j) \/ (t = c /\ j = k)
  BY <1>1, HandledStep
<1>3. \A t \in Tasks : ~Handled(t, k)
  BY <1>1 DEF OrderedInv, NodeInv
<1>4. TypeOK'
  BY <1>1 DEF TypeOK, RunKey, Access
<1>5. NodeInv'
  BY <1>1, <1>2, <1>3 DEF OrderedInv, NodeInv, TypeOK, Returned
<1>6. OrderInv'
  <2> SUFFICES ASSUME NEW t \in Tasks, NEW u \in Tasks, NEW j \in Keys,
                      u < t, Handled(t, j)', ConflictOn(u, t, j)
               PROVE  \/ Returned(u) \/ u \in dependsOn[t]
                      \/ \E d \in dependsOn[t] : u < d /\ ConflictOn(u, d, j)
    BY <1>1 DEF OrderInv, ConflictOn, Access, Returned
  <2>1. ~(t = c /\ j = k)
    BY <1>1, <1>3 DEF Handled, ConflictOn
  <2> QED  BY <1>2, <2>1 DEF OrderedInv, OrderInv
<1>7. ReaderInv' /\ BlockInv'
  BY <1>1 DEF OrderedInv, ReaderInv, BlockInv, Done
<1>8. CountInv'
  <2>1. \A t \in Tasks : Pending(t)' = Pending(t) /\ Adjusted(t)' = Adjusted(t)
    BY <1>1 DEF Pending, Adjusted
  <2> QED  BY <1>1, <2>1 DEF OrderedInv, CountInv
<1>9. ReleaseInv'
  BY <1>1 DEF OrderedInv, ReleaseInv, Adjusted, Started, Returned, Done
<1>10. ConflictOrder'
  BY <1>1 DEF OrderedInv, ConflictOrder, Started, Returned, Conflict, ConflictOn,
              Access
<1> QED  BY <1>4, <1>5, <1>6, <1>7, <1>8, <1>9, <1>10 DEF OrderedInv

LEMMA RunReadInv ==
  ASSUME OrderedInv, NEW k \in Keys, RunRead(k)
  PROVE  OrderedInv'
<1> DEFINE c == current
           n == nodes[k]
<1>1. /\ TypeOK /\ RunKey(k) /\ c \in Tasks /\ c \in Nat /\ Access(c, k)
      /\ ~Started(c) /\ BlockOn(Last(k))
      /\ n # None /\ n \in Tasks /\ n < c /\ plan[c][k] = "read"
      /\ reading' = [reading EXCEPT ![c] = @ \cup {n}]
      /\ readers' = [readers EXCEPT ![n] = @ \cup {c}]
      /\ UNCHANGED <<plan, failing, runPc, current, nodes, executed, dependencies,
                     executable, taskPc, err>>
  BY KeyFacts DEF RunRead, work, OrderedInv
<1>2. Last(k) \in SUBSET Tasks /\ \A d \in Last(k) : d < c /\ ~executed[d]
  BY <1>1 DEF Last
<1>3. /\ dependsOn' \in [Tasks -> SUBSET Tasks]
      /\ blocked' \in [Tasks -> SUBSET Tasks]
      /\ \A t \in Tasks : dependsOn[t] \subseteq dependsOn'[t]
      /\ dependsOn'[c] = dependsOn[c] \cup Last(k)
      /\ BlockInv' /\ CountInv' /\ ReleaseInv' /\ ConflictOrder'
  BY <1>1, <1>2, BlockOnInv
<1>4. \A t \in Tasks : \A j \in Keys :
          Handled(t, j)' <=> Handled(t, j) \/ (t = c /\ j = k)
  BY <1>1, HandledStep
<1>5. /\ reading' \in [Tasks -> SUBSET Tasks] /\ readers' \in [Tasks -> SUBSET Tasks]
      /\ \A t, r \in Tasks : r \in readers'[t] <=> r \in readers[t] \/ (t = n /\ r = c)
      /\ \A t, r \in Tasks : t \in reading'[r] <=> t \in reading[r] \/ (t = n /\ r = c)
  BY <1>1 DEF TypeOK
<1>6. TypeOK'
  BY <1>1, <1>3, <1>5 DEF TypeOK, RunKey, Access
<1>7. NodeInv'
  <2>1. ASSUME NEW j \in Keys, nodes[j] = None, NEW t \in Tasks
        PROVE  ~Handled(t, j)'
    BY <1>1, <1>4, <2>1 DEF OrderedInv, NodeInv
  <2>2. ASSUME NEW j \in Keys, nodes[j] # None
        PROVE  /\ Handled(nodes[j], j)'
               /\ \A v \in Tasks : Handled(v, j)' /\ v < nodes[j] =>
                                        plan[nodes[j]][j] = "write"
               /\ \A v \in Tasks : Handled(v, j)' /\ v > nodes[j] =>
                                        /\ plan[v][j] = "read"
                                        /\ v \in readers'[nodes[j]] \/ Returned(v)
    <3>1. nodes[j] \in Tasks
      BY <1>1, <2>2 DEF TypeOK
    <3> QED  BY <1>1, <1>4, <1>5, <2>2, <3>1 DEF OrderedInv, NodeInv
  <2> QED  BY <1>1, <2>1, <2>2 DEF NodeInv, Returned
<1>8. OrderInv'
  <2> SUFFICES ASSUME NEW t \in Tasks, NEW u \in Tasks, NEW j \in Keys,
                      u < t, Handled(t, j)', ConflictOn(u, t, j)
               PROVE  \/ Returned(u) \/ u \in dependsOn'[t]
                      \/ \E d \in dependsOn'[t] : u < d /\ ConflictOn(u, d, j)
    BY <1>1 DEF OrderInv, ConflictOn, Access, Returned
  <2>1. CASE t = c /\ j = k
    <3>1. Handled(u, k) /\ plan[u][k] = "write"
      BY <1>1, <2>1 DEF Handled, ConflictOn
    <3>2. u = n \/ u < n
      BY <1>1, <3>1 DEF OrderedInv, NodeInv
    <3> QED  BY <1>1, <1>3, <2>1, <3>2, LastCovers
  <2>2. CASE ~(t = c /\ j = k)
    BY <1>3, <1>4, <2>2 DEF OrderedInv, OrderInv
  <2> QED  BY <2>1, <2>2
<1>9. ReaderInv'
  BY <1>1, <1>5 DEF OrderedInv, ReaderInv, Done, Started
<1> QED  BY <1>3, <1>6, <1>7, <1>8, <1>9 DEF OrderedInv

LEMMA RunWriteInv ==
  ASSUME OrderedInv, NEW k \in Keys, RunWrite(k)
  PROVE  OrderedInv'
<1> DEFINE c == current
           n == nodes[k]
           D == Last(k) \cup (readers[n] \ {c})
<1>1. /\ TypeOK /\ RunKey(k) /\ c \in Tasks /\ c \in Nat /\ Access(c, k)
      /\ BlockOn(D) /\ n # None /\ n \in Tasks /\ n < c /\ plan[c][k] = "write"
      /\ \A r \in readers[n] \ {c} : r \in Tasks /\ r < c /\ ~executed[r]
      /\ nodes' = [nodes EXCEPT ![k] = c]
      /\ UNCHANGED <<plan, failing, runPc, current, reading, readers, executed,
                     dependencies, executable, taskPc, err>>
  BY KeyFacts DEF RunWrite, work, OrderedInv
<1>2. D \in SUBSET Tasks /\ \A d \in D : d < c /\ ~executed[d]
  BY <1>1 DEF Last
<1> HIDE DEF D
<1>3. /\ dependsOn' \in [Tasks -> SUBSET Tasks]
      /\ blocked' \in [Tasks -> SUBSET Tasks]
      /\ \A t \in Tasks : dependsOn[t] \subseteq dependsOn'[t]
      /\ dependsOn'[c] = dependsOn[c] \cup D
      /\ BlockInv' /\ CountInv' /\ ReleaseInv' /\ ConflictOrder'
  BY <1>1, <1>2, BlockOnInv
<1>4. \A t \in Tasks : \A j \in Keys :
          Handled(t, j)' <=> Handled(t, j) \/ (t = c /\ j = k)
  BY <1>1, HandledStep
<1>5. \A v \in Tasks : v > c => ~Handled(v, k)
  BY <1>1 DEF Handled
<1>6. TypeOK'
  BY <1>1, <1>3 DEF TypeOK, RunKey, Access
<1>7. NodeInv'
  <2>1. ASSUME NEW j \in Keys, j # k
        PROVE  nodes'[j] = nodes[j] /\ \A t \in Tasks : Handled(t, j)' <=> Handled(t, j)
    BY <1>1, <1>4, <2>1 DEF TypeOK
  <2>2. nodes'[k] = c /\ c # None
    BY <1>1 DEF TypeOK
  <2> QED  BY <1>1, <1>4, <1>5, <2>1, <2>2 DEF OrderedInv, NodeInv, Returned, TypeOK
<1>8. OrderInv'
  <2> SUFFICES ASSUME NEW t \in Tasks, NEW u \in Tasks, NEW j \in Keys,
                      u < t, Handled(t, j)', ConflictOn(u, t, j)
               PROVE  \/ Returned(u) \/ u \in dependsOn'[t]
                      \/ \E d \in dependsOn'[t] : u < d /\ ConflictOn(u, d, j)
    BY <1>1 DEF OrderInv, ConflictOn, Access, Returned
  <2>1. CASE t = c /\ j = k /\ u > n
    <3>1. Handled(u, k)
      BY <1>1, <2>1 DEF Handled, ConflictOn
    <3>2. u \in readers[n] \/ Returned(u)
      BY <1>1, <2>1, <3>1 DEF OrderedInv, NodeInv
    <3>3. u \in readers[n] => u \in D
      BY <1>1, <2>1 DEF D
    <3> QED  BY <1>3, <2>1, <3>2, <3>3
  <2>2. CASE t = c /\ j = k /\ ~(u > n)
    <3>1. u = n \/ u < n
      BY <1>1, <2>2
    <3>2. Last(k) \subseteq dependsOn'[c]
      BY <1>3 DEF D
    <3> QED  BY <1>1, <2>2, <3>1, <3>2, LastCovers
  <2>3. CASE ~(t = c /\ j = k)
    BY <1>3, <1>4, <2>3 DEF OrderedInv, OrderInv
  <2> QED  BY <2>1, <2>2, <2>3
<1>9. ReaderInv'
  BY <1>1 DEF OrderedInv, ReaderInv, Done
<1> QED  BY <1>3, <1>6, <1>7, <1>8, <1>9 DEF OrderedInv
-----------------------------------------------------------------------------
(* The counter becomes the number of pending dependencies.                   *)
LEMMA RunAdjustInv == OrderedInv /\ RunAdjust => OrderedInv'
<1> SUFFICES ASSUME OrderedInv, RunAdjust PROVE OrderedInv'
  OBVIOUS
<1> DEFINE c == current
           left == dependencies[c] - (MaxDependencies - Cardinality(dependsOn[c]))
<1>1. /\ TypeOK /\ runPc = "keys" /\ runPc' = "idle" /\ c \in Tasks /\ c \in Nat
      /\ keysLeft = {} /\ dependencies' = [dependencies EXCEPT ![c] = left]
      /\ executable' = IF left > 0 THEN executable ELSE executable \cup {c}
      /\ UNCHANGED <<plan, failing, current, keysLeft, dependsOn, nodes, reading,
                     readers, blocked, executed, taskPc, err>>
  BY SizeAssumption DEF OrderedInv, TypeOK, RunAdjust
<1>2. left = Cardinality(Pending(c)) /\ left \in Nat
  <2>1. dependsOn[c] \in SUBSET Tasks /\ Pending(c) \in SUBSET dependsOn[c]
    BY <1>1 DEF TypeOK, Pending
  <2>2. Cardinality(dependsOn[c]) = Cardinality(Pending(c))
                                      + Cardinality(dependsOn[c] \ Pending(c))
    BY <2>1, Split
  <2>3. /\ Cardinality(Pending(c)) \in Nat /\ Cardinality(dependsOn[c]) \in Nat
        /\ Cardinality(dependsOn[c] \ Pending(c)) \in Nat
    BY <2>1, TaskSets
  <2>4. dependencies[c] = MaxDependencies - Cardinality(dependsOn[c] \ Pending(c))
    BY <1>1 DEF OrderedInv, CountInv
  <2> QED  BY <2>2, <2>3, <2>4, DependencyAssumption
<1>3. ~(left > 0) => Pending(c) = {}
  <2>1. Pending(c) \in SUBSET Tasks
    BY <1>1 DEF TypeOK, Pending
  <2> QED  BY <1>2, <2>1, TaskSets, FS_EmptySet
<1> HIDE DEF left
<1>4. /\ \A t \in Tasks : Adjusted(t)' <=> Adjusted(t) \/ t = c
      /\ \A t \in Tasks : \A k \in Keys : Handled(t, k)' <=> Handled(t, k)
      /\ \A t \in Tasks : Pending(t)' = Pending(t)
  BY <1>1 DEF Adjusted, Handled, Access, Pending
<1>5. TypeOK'
  BY <1>1, <1>2 DEF TypeOK
<1>6. NodeInv'
  BY <1>1, <1>4 DEF OrderedInv, NodeInv, Returned, TypeOK
<1>7. OrderInv'
  BY <1>1, <1>4 DEF OrderedInv, OrderInv, Returned, ConflictOn, Access, TypeOK
<1>8. ReaderInv' /\ BlockInv'
  BY <1>1 DEF OrderedInv, ReaderInv, BlockInv, Returned, Done
<1>9. CountInv'
  BY <1>1, <1>2, <1>4 DEF OrderedInv, CountInv, TypeOK
<1>10. ReleaseInv'
  <2>1. ~(left > 0) => \A d \in dependsOn[c] : executed[d]
    BY <1>3 DEF Pending
  <2>2. ~Started(c)
    BY <1>1 DEF OrderedInv, ReleaseInv, Adjusted
  <2> QED  BY <1>1, <1>4, <2>1, <2>2 DEF OrderedInv, ReleaseInv, Started, Done
<1>11. ConflictOrder'
  BY <1>1 DEF OrderedInv, ConflictOrder, Started, Returned, Conflict, ConflictOn,
              Access
<1> QED  BY <1>5, <1>6, <1>7, <1>8, <1>9, <1>10, <1>11 DEF OrderedInv

(* Wait and Stop only change where the caller is and the error.              *)
LEMMA CallerInv == OrderedInv /\ (Wait \/ WaitDone \/ Stop) => OrderedInv'
<1> SUFFICES ASSUME OrderedInv, Wait \/ WaitDone \/ Stop PROVE OrderedInv'
  OBVIOUS
<1>1. /\ TypeOK
      /\ runPc' = runPc \/ (runPc \in {"idle", "waiting"}
                              /\ runPc' \in {"waiting", "done"})
      /\ err' = err \/ err' = "stopped"
      /\ UNCHANGED <<plan, failing, current, keysLeft, dependsOn, nodes, reading,
                     readers, blocked, executed, dependencies, executable, taskPc>>
  BY DEF Wait, WaitDone, Stop, graph, work, caller, OrderedInv
<1>2. /\ \A t \in Tasks : Adjusted(t)' <=> Adjusted(t)
      /\ \A t \in Tasks : \A k \in Keys : Handled(t, k)' <=> Handled(t, k)
      /\ \A t \in Tasks : Pending(t)' = Pending(t)
  BY <1>1 DEF Adjusted, Handled, Access, Pending
<1>3. TypeOK'
  BY <1>1 DEF TypeOK, Access
<1>4. NodeInv'
  BY <1>1, <1>2 DEF OrderedInv, NodeInv, Returned, TypeOK
<1>5. OrderInv'
  BY <1>1, <1>2 DEF OrderedInv, OrderInv, Returned, ConflictOn, Access, TypeOK
<1>6. ReaderInv' /\ BlockInv'
  BY <1>1 DEF OrderedInv, ReaderInv, BlockInv, Done
<1>7. CountInv'
  BY <1>1, <1>2 DEF OrderedInv, CountInv
<1>8. ReleaseInv'
  BY <1>1, <1>2 DEF OrderedInv, ReleaseInv, Started, Done
<1>9. ConflictOrder'
  BY <1>1 DEF OrderedInv, ConflictOrder, Started, Returned, Conflict, ConflictOn,
              Access
<1> QED  BY <1>3, <1>4, <1>5, <1>6, <1>7, <1>8, <1>9 DEF OrderedInv

-----------------------------------------------------------------------------
(* A worker moves a task on without changing the graph: what the workers     *)
(* need of the states they see.                                              *)
LEMMA MoveInv ==
  ASSUME OrderedInv, TypeOK',
         UNCHANGED <<plan, failing, caller, nodes, blocked, executed, dependencies>>,
         \A t \in Tasks : /\ Returned(t) => Returned(t)'
                          /\ Done(t)' = Done(t),
         \A t, r \in Tasks : r \in readers[t] => r \in readers'[t] \/ Returned(r)'
  PROVE  NodeInv' /\ OrderInv' /\ BlockInv' /\ CountInv'
<1>1. /\ TypeOK
      /\ UNCHANGED <<runPc, current, keysLeft, dependsOn>>
  BY DEF caller, OrderedInv
<1>2. /\ \A t \in Tasks : Adjusted(t)' <=> Adjusted(t)
      /\ \A t \in Tasks : \A k \in Keys : Handled(t, k)' <=> Handled(t, k)
      /\ \A t \in Tasks : Pending(t)' = Pending(t)
  BY <1>1 DEF Adjusted, Handled, Access, Pending
<1>3. NodeInv'
  BY <1>1, <1>2 DEF OrderedInv, NodeInv, TypeOK
<1>4. OrderInv'
  BY <1>1, <1>2 DEF OrderedInv, OrderInv, ConflictOn, Access, TypeOK
<1>5. BlockInv' /\ CountInv'
  BY <1>1, <1>2 DEF OrderedInv, BlockInv, CountInv
<1> QED  BY <1>3, <1>4, <1>5

(* What a task that is with the workers may rely on.                         *)
LEMMA ReadyToRun ==
  ASSUME OrderedInv, NEW t \in Tasks, t \in executable,
         NEW u \in Tasks, u < t, Conflict(u, t)
  PROVE  Returned(u)
<1>1. TypeOK /\ Adjusted(t) /\ \A d \in dependsOn[t] : executed[d]
  BY DEF OrderedInv, ReleaseInv
<1>2. PICK k \in Keys : ConflictOn(u, t, k)
  BY DEF Conflict
<1>3. Handled(t, k)
  BY <1>1, <1>2 DEF Handled, Adjusted, ConflictOn
<1>4. \A d \in dependsOn[t] : d \in Tasks /\ Returned(d) /\ Started(d)
  BY <1>1 DEF OrderedInv, ReleaseInv, TypeOK, Returned, Done, Started
<1>5. \/ Returned(u)
      \/ u \in dependsOn[t]
      \/ \E d \in dependsOn[t] : u < d /\ ConflictOn(u, d, k)
  BY <1>2, <1>3 DEF OrderedInv, OrderInv
<1>6. ASSUME NEW d \in dependsOn[t], u < d, ConflictOn(u, d, k)
      PROVE  Returned(u)
  BY <1>4, <1>6 DEF OrderedInv, ConflictOrder, Conflict
<1> QED  BY <1>4, <1>5, <1>6
LEMMA StartInv ==
  ASSUME OrderedInv, NEW t \in Tasks, Start(t)
  PROVE  OrderedInv'
<1>1. /\ TypeOK /\ t \in executable /\ executable' = executable \ {t}
      /\ ~Started(t) /\ Started(t)' /\ ~Done(t)' /\ taskPc[t] = "none"
      /\ taskPc' = [taskPc EXCEPT ![t] = IF err = "nil" THEN "run" ELSE "clear"]
      /\ UNCHANGED <<plan, failing, runPc, current, keysLeft, dependsOn, nodes,
                     reading, readers, blocked, executed, dependencies, err>>
  BY DEF Start, Take, caller, graph, OrderedInv, ReleaseInv, Started, Done, TypeOK
<1>2. /\ \A u \in Tasks : u # t => taskPc'[u] = taskPc[u]
      /\ taskPc'[t] = IF err = "nil" THEN "run" ELSE "clear"
  BY <1>1 DEF TypeOK
<1>3. \A u \in Tasks : /\ Returned(u) => Returned(u)'
                       /\ Done(u)' = Done(u)
  BY <1>1, <1>2 DEF Returned, Done
<1>4. TypeOK'
  BY <1>1 DEF TypeOK, Access
<1>5. NodeInv' /\ OrderInv' /\ BlockInv' /\ CountInv'
  BY <1>1, <1>3, <1>4, MoveInv DEF caller
<1>6. ReaderInv'
  BY <1>1, <1>3 DEF OrderedInv, ReaderInv
<1>7. ReleaseInv'
  BY <1>1, <1>2, <1>3 DEF OrderedInv, ReleaseInv, Adjusted, Started, TypeOK
<1>8. ConflictOrder'
  <2>1. \A u \in Tasks : u < t /\ Conflict(u, t) => Returned(u)
    BY <1>1, ReadyToRun
  <2>2. \A u, v \in Tasks : Conflict(u, v)' <=> Conflict(u, v)
    BY <1>1 DEF Conflict, ConflictOn, Access
  <2> QED  BY <1>2, <1>3, <2>1, <2>2 DEF OrderedInv, ConflictOrder, Started
<1> QED  BY <1>4, <1>5, <1>6, <1>7, <1>8 DEF OrderedInv

(* A task returns, with whatever error.                                       *)
LEMMA ReturnInv ==
  ASSUME OrderedInv, NEW t \in Tasks, taskPc[t] = "run",
         taskPc' = [taskPc EXCEPT ![t] = "clear"],
         err' \in {"nil", "task", "stopped"},
         UNCHANGED <<plan, failing, caller, graph, executable>>
  PROVE  OrderedInv'
<1>1. /\ TypeOK /\ taskPc[t] = "run" /\ taskPc' = [taskPc EXCEPT ![t] = "clear"]
      /\ err' \in {"nil", "task", "stopped"}
      /\ UNCHANGED <<plan, failing, runPc, current, keysLeft, dependsOn, nodes,
                     reading, readers, blocked, executed, dependencies, executable>>
  BY DEF caller, graph, OrderedInv
<1>2. \A u \in Tasks : /\ Returned(u)' <=> Returned(u) \/ u = t
                       /\ Done(u)' = Done(u) /\ Started(u)' = Started(u)
  BY <1>1 DEF TypeOK, Returned, Done, Started
<1>3. TypeOK'
  BY <1>1 DEF TypeOK, Access
<1>4. NodeInv' /\ OrderInv' /\ BlockInv' /\ CountInv'
  BY <1>1, <1>2, <1>3, MoveInv DEF caller
<1>5. ReaderInv' /\ ReleaseInv'
  BY <1>1, <1>2 DEF OrderedInv, ReaderInv, ReleaseInv, Adjusted
<1>6. ConflictOrder'
  <2>1. \A u, v \in Tasks : Conflict(u, v)' <=> Conflict(u, v)
    BY <1>1 DEF Conflict, ConflictOn, Access
  <2> QED  BY <1>2, <2>1 DEF OrderedInv, ConflictOrder
<1> QED  BY <1>3, <1>4, <1>5, <1>6 DEF OrderedInv

LEMMA FinishInv ==
  ASSUME OrderedInv, NEW t \in Tasks, Finish(t)
  PROVE  OrderedInv'
<1>1. err' \in {"nil", "task", "stopped"}
  BY DEF Finish, OrderedInv, TypeOK
<1> QED  BY <1>1, ReturnInv DEF Finish

LEMMA ClearReadingInv ==
  ASSUME OrderedInv, NEW t \in Tasks, NEW u \in Tasks, ClearReading(t, u)
  PROVE  OrderedInv'
<1>1. /\ TypeOK /\ taskPc[t] = "clear"
      /\ readers' = [readers EXCEPT ![u] = @ \ {t}]
      /\ reading' = [reading EXCEPT ![t] = @ \ {u}]
      /\ UNCHANGED <<plan, failing, runPc, current, keysLeft, dependsOn, nodes,
                     blocked, executed, dependencies, executable, taskPc, err>>
  BY DEF ClearReading, caller, work, OrderedInv
<1>2. /\ reading' \in [Tasks -> SUBSET Tasks] /\ readers' \in [Tasks -> SUBSET Tasks]
      /\ \A v, r \in Tasks : r \in readers'[v] <=> r \in readers[v] /\ ~(v = u /\ r = t)
      /\ \A v, r \in Tasks : v \in reading'[r] <=> v \in reading[r] /\ ~(v = u /\ r = t)
  BY <1>1 DEF TypeOK
<1>3. /\ \A v \in Tasks : /\ Returned(v)' = Returned(v)
                           /\ Done(v)' = Done(v) /\ Started(v)' = Started(v)
      /\ Returned(t)
  BY <1>1 DEF Returned, Done, Started
<1>4. TypeOK'
  BY <1>1, <1>2 DEF TypeOK, Access
<1>5. NodeInv' /\ OrderInv' /\ BlockInv' /\ CountInv'
  BY <1>1, <1>2, <1>3, <1>4, MoveInv DEF caller
<1>6. ReaderInv'
  BY <1>1, <1>2, <1>3 DEF OrderedInv, ReaderInv
<1>7. ReleaseInv'
  <2>1. failing \subseteq Tasks /\ 1 .. current \subseteq Tasks
    BY <1>1, SizeAssumption DEF TypeOK
  <2> QED  BY <1>1, <1>3, <2>1 DEF OrderedInv, ReleaseInv, Adjusted
<1>8. ConflictOrder'
  <2>1. \A v, w \in Tasks : Conflict(v, w)' <=> Conflict(v, w)
    BY <1>1 DEF Conflict, ConflictOn, Access
  <2> QED  BY <1>3, <2>1 DEF OrderedInv, ConflictOrder
<1> QED  BY <1>4, <1>5, <1>6, <1>7, <1>8 DEF OrderedInv

(* The task is executed: a dependency less for everybody it blocks.          *)
LEMMA ReleaseStep ==
  ASSUME OrderedInv, NEW t \in Tasks, Release(t)
  PROVE  OrderedInv'
<1>1. /\ TypeOK /\ taskPc[t] = "clear" /\ reading[t] = {}
      /\ dependencies' = [b \in Tasks |-> IF b \in blocked[t] THEN dependencies[b] - 1
                                           ELSE dependencies[b]]
      /\ executable' = executable \cup {b \in blocked[t] : dependencies[b] - 1 <= 0}
      /\ blocked' = [blocked EXCEPT ![t] = {}]
      /\ executed' = [executed EXCEPT ![t] = TRUE]
      /\ taskPc' = [taskPc EXCEPT ![t] = "done"]
      /\ UNCHANGED <<plan, failing, runPc, current, keysLeft, dependsOn, nodes,
                     reading, readers, err>>
  BY DEF Release, caller, OrderedInv
<1>frame. UNCHANGED <<plan, failing, runPc, current, keysLeft, dependsOn, nodes,
                      reading, readers, err>>
  BY <1>1
<1>type. /\ failing \subseteq Tasks /\ 1 .. current \subseteq Tasks
         /\ current \in Nat /\ dependsOn \in [Tasks -> SUBSET Tasks]
         /\ nodes \in [Keys -> Tasks \cup {None}]
  BY <1>1, SizeAssumption DEF TypeOK
<1>pc. /\ \A u \in Tasks : taskPc'[u] = IF u = t THEN "done" ELSE taskPc[u]
       /\ \A u \in Tasks : executed'[u] = IF u = t THEN TRUE ELSE executed[u]
       /\ \A u \in Tasks : blocked'[u] = IF u = t THEN {} ELSE blocked[u]
       /\ taskPc[t] = "clear"
  BY <1>1 DEF TypeOK
<1>2. /\ \A u \in Tasks : Returned(u)' = Returned(u) /\ Started(u)' = Started(u)
      /\ \A u \in Tasks : Done(u)' <=> (Done(u) \/ u = t)
      /\ \A u \in Tasks : executed'[u] <=> (executed[u] \/ u = t)
      /\ ~executed[t] /\ Started(t)
  <2>1. executed[t] = Done(t)
    BY <1>1 DEF OrderedInv, ReleaseInv, TypeOK, Done
  <2>2. ~executed[t] /\ Started(t)
    BY <1>pc, <2>1 DEF Done, Started
  <2>3. \A u \in Tasks : Returned(u)' = Returned(u) /\ Started(u)' = Started(u)
    BY <1>pc DEF Returned, Started
  <2>4. \A u \in Tasks : Done(u)' <=> (Done(u) \/ u = t)
    BY <1>pc DEF Done
  <2>5. \A u \in Tasks : executed'[u] <=> (executed[u] \/ u = t)
    BY <1>pc
  <2> QED  BY <2>2, <2>3, <2>4, <2>5
<1>3. /\ \A u \in Tasks : Adjusted(u)' <=> Adjusted(u)
      /\ \A u \in Tasks : \A k \in Keys : Handled(u, k)' <=> Handled(u, k)
      /\ \A u, v \in Tasks : Conflict(u, v)' <=> Conflict(u, v)
  BY <1>1 DEF Adjusted, Handled, Conflict, ConflictOn, Access
<1>4. \A b \in Tasks : b \in blocked[t] <=> t \in Pending(b)
  BY <1>2 DEF OrderedInv, BlockInv, Pending
<1>5. \A b \in Tasks : Pending(b)' = Pending(b) \ {t}
  BY <1>1, <1>2 DEF Pending, TypeOK
<1>6. ASSUME NEW b \in Tasks
      PROVE  /\ Pending(b) \in SUBSET Tasks /\ dependsOn[b] \in SUBSET Tasks
             /\ Pending(b) \in SUBSET dependsOn[b]
             /\ Cardinality(Pending(b)) \in Nat
             /\ t \in Pending(b) => Cardinality(Pending(b)) > 0
             /\ Cardinality(Pending(b)') = IF b \in blocked[t]
                                           THEN Cardinality(Pending(b)) - 1
                                           ELSE Cardinality(Pending(b))
  <2>1. /\ Pending(b) \in SUBSET Tasks /\ dependsOn[b] \in SUBSET Tasks
        /\ Pending(b) \in SUBSET dependsOn[b]
    BY <1>1 DEF TypeOK, Pending
  <2>2. IsFiniteSet(Pending(b)) /\ Cardinality(Pending(b)) \in Nat
    BY <2>1, TaskSets
  <2>3. t \in Pending(b) => Cardinality(Pending(b)) > 0
    BY <2>2, FS_EmptySet
  <2>4. Cardinality(Pending(b) \ {t}) = IF t \in Pending(b)
                                        THEN Cardinality(Pending(b)) - 1
                                        ELSE Cardinality(Pending(b))
    BY <2>2, FS_RemoveElement
  <2> QED  BY <1>4, <1>5, <2>1, <2>2, <2>3, <2>4
<1>7. ASSUME NEW b \in Tasks
      PROVE  /\ Cardinality(dependsOn[b] \ Pending(b)) \in Nat
             /\ Cardinality(dependsOn[b] \ Pending(b)') <= N
             /\ Cardinality(dependsOn[b] \ Pending(b)') =
                    IF b \in blocked[t]
                    THEN Cardinality(dependsOn[b] \ Pending(b)) + 1
                    ELSE Cardinality(dependsOn[b] \ Pending(b))
  <2>1. /\ dependsOn[b] \ Pending(b) \in SUBSET Tasks
        /\ dependsOn[b] \ Pending(b)' \in SUBSET Tasks
    BY <1>6
  <2>2. dependsOn[b] \ Pending(b)' = IF b \in blocked[t]
                                     THEN (dependsOn[b] \ Pending(b)) \cup {t}
                                     ELSE dependsOn[b] \ Pending(b)
    BY <1>4, <1>5, <1>6
  <2>3. /\ IsFiniteSet(dependsOn[b] \ Pending(b))
        /\ Cardinality(dependsOn[b] \ Pending(b)) \in Nat
        /\ Cardinality(dependsOn[b] \ Pending(b)') <= N
    BY <2>1, TaskSets
  <2>4. t \in Pending(b) => Cardinality((dependsOn[b] \ Pending(b)) \cup {t})
                              = Cardinality(dependsOn[b] \ Pending(b)) + 1
    BY <2>3, FS_AddElement
  <2> QED  BY <1>4, <2>2, <2>3, <2>4
<1>8. ASSUME NEW b \in Tasks, b \in blocked[t]
      PROVE  /\ b \in 1 .. current /\ dependencies[b] - 1 \in Nat /\ ~Started(b)
             /\ dependencies[b] - 1 <= 0 => Adjusted(b) /\ Pending(b)' = {}
  <2>1. t \in dependsOn[b] /\ b <= current /\ current \in Nat
    BY <1>1, <1>4, <1>8 DEF OrderedInv, BlockInv, Pending, TypeOK
  <2>2. ~Started(b)
    BY <1>2, <2>1 DEF OrderedInv, ReleaseInv
  <2>3. CASE Adjusted(b)
    <3>1. dependencies[b] = Cardinality(Pending(b))
      BY <2>3 DEF OrderedInv, CountInv
    <3>2. Pending(b)' \in SUBSET Tasks
      BY <1>5, <1>6
    <3>3. Cardinality(Pending(b)') = 0 => Pending(b)' = {}
      BY <3>2, TaskSets, FS_EmptySet
    <3> QED  BY <1>4, <1>6, <1>8, <2>1, <2>2, <2>3, <3>1, <3>3
  <2>4. CASE ~Adjusted(b)
    <3>1. b = current /\ runPc = "keys"
      BY <2>1, <2>4 DEF Adjusted
    <3>2. dependencies[b] = MaxDependencies - Cardinality(dependsOn[b] \ Pending(b))
      BY <3>1 DEF OrderedInv, CountInv
    <3>3. dependencies[b] - 1 > 0
      <4>1. LET n == Cardinality(dependsOn[b] \ Pending(b))
            IN  n \in Nat /\ n + 1 <= N
        BY <1>7, <1>8, SizeAssumption
      <4> QED  BY <3>2, <4>1, DependencyAssumption, SizeAssumption
    <3> QED  BY <1>1, <2>1, <2>2, <3>3 DEF TypeOK
  <2> QED  BY <2>3, <2>4
<1>9. TypeOK'
  <2>1. dependencies' \in [Tasks -> Nat]
    BY <1>1, <1>8 DEF TypeOK
  <2>2. executable' \subseteq Tasks
    BY <1>1 DEF TypeOK
  <2>3. /\ blocked' \in [Tasks -> SUBSET Tasks] /\ executed' \in [Tasks -> BOOLEAN]
        /\ taskPc' \in [Tasks -> {"none", "run", "clear", "done"}]
    BY <1>1 DEF TypeOK
  <2> QED  BY <1>1, <1>frame, <2>1, <2>2, <2>3 DEF TypeOK, Access
<1>10. NodeInv' /\ OrderInv'
  <2>1. NodeInv'
    BY <1>frame, <1>type, <1>2, <1>3 DEF OrderedInv, NodeInv
  <2>2. OrderInv'
    BY <1>frame, <1>type, <1>2, <1>3 DEF OrderedInv, OrderInv, ConflictOn, Access
  <2> QED  BY <2>1, <2>2
<1>11. ReaderInv'
  <2>1. \A u \in Tasks : t \notin readers[u]
    BY <1>1 DEF OrderedInv, ReaderInv
  <2> QED  BY <1>frame, <1>2, <2>1 DEF OrderedInv, ReaderInv
<1>12. BlockInv'
  <2> SUFFICES ASSUME NEW b \in Tasks, NEW d \in Tasks
               PROVE  /\ d \in dependsOn[b] => d < b /\ b <= current
                      /\ b \in blocked'[d] <=> d \in dependsOn[b] /\ ~executed'[d]
    BY <1>frame DEF BlockInv
  <2>1. /\ d \in dependsOn[b] => d < b /\ b <= current
        /\ b \in blocked[d] <=> d \in dependsOn[b] /\ ~executed[d]
    BY DEF OrderedInv, BlockInv
  <2>2. CASE d = t
    BY <1>2, <1>pc, <2>1, <2>2
  <2>3. CASE d # t
    BY <1>pc, <2>1, <2>3
  <2> QED  BY <2>2, <2>3
<1>13. CountInv'
  <2> SUFFICES ASSUME NEW b \in Tasks
               PROVE  /\ Adjusted(b) => dependencies'[b] = Cardinality(Pending(b)')
                      /\ b = current /\ runPc = "keys" =>
                             dependencies'[b] = MaxDependencies
                                        - Cardinality(dependsOn[b] \ Pending(b)')
    BY <1>frame, <1>3 DEF CountInv
  <2>1. dependencies'[b] = IF b \in blocked[t] THEN dependencies[b] - 1
                                              ELSE dependencies[b]
    BY <1>1
  <2>2. /\ Adjusted(b) => dependencies[b] = Cardinality(Pending(b))
        /\ b = current /\ runPc = "keys" =>
               dependencies[b] = MaxDependencies - Cardinality(dependsOn[b] \ Pending(b))
    BY DEF OrderedInv, CountInv
  <2> QED  BY <1>6, <1>7, <2>1, <2>2, DependencyAssumption
<1>14. ReleaseInv'
  <2>1. \A b \in Tasks : Pending(b)' = {} => \A d \in dependsOn[b] : executed'[d]
    BY <1>1 DEF Pending
  <2>2. ASSUME NEW b \in Tasks, b \in executable' \/ Started(b)
        PROVE  Adjusted(b) /\ (\A d \in dependsOn[b] : executed'[d])
               /\ (b \in executable' => ~Started(b))
    <3>1. CASE b \in blocked[t] /\ dependencies[b] - 1 <= 0
      BY <1>8, <2>1, <3>1
    <3>2. CASE ~(b \in blocked[t] /\ dependencies[b] - 1 <= 0)
      <4>1. b \in executable' <=> b \in executable
        BY <1>1, <3>2
      <4>2. b \in executable \/ Started(b)
        BY <2>2, <4>1
      <4>3. \A d \in dependsOn[b] : executed[d] /\ executed'[d]
        BY <1>pc, <1>type, <4>2 DEF OrderedInv, ReleaseInv
      <4> QED  BY <4>1, <4>2, <4>3 DEF OrderedInv, ReleaseInv
    <3> QED  BY <3>1, <3>2
  <2> QED  BY <1>frame, <1>2, <1>3, <2>2 DEF OrderedInv, ReleaseInv
<1>15. ConflictOrder'
  BY <1>2, <1>3 DEF OrderedInv, ConflictOrder
<1> QED  BY <1>9, <1>10, <1>11, <1>12, <1>13, <1>14, <1>15 DEF OrderedInv

-----------------------------------------------------------------------------
LEMMA StutterInv == OrderedInv /\ UNCHANGED vars => OrderedInv'
<1> SUFFICES ASSUME OrderedInv, UNCHANGED vars PROVE OrderedInv'
  OBVIOUS
<1>1. UNCHANGED <<plan, failing, runPc, current, keysLeft, dependsOn, nodes, reading,
                  readers, blocked, executed, dependencies, executable, taskPc, err>>
  BY DEF vars, caller, graph, work
<1>2. TypeOK' /\ NodeInv' /\ OrderInv' /\ ReaderInv' /\ BlockInv'
  BY <1>1 DEF OrderedInv, TypeOK, NodeInv, OrderInv, ReaderInv, BlockInv, Handled,
              Returned, Done, ConflictOn, Access
<1>3. CountInv'
  <2>1. \A t \in Tasks : Pending(t)' = Pending(t) /\ Adjusted(t)' = Adjusted(t)
    BY <1>1 DEF Pending, Adjusted
  <2> QED  BY <1>1, <2>1 DEF OrderedInv, CountInv
<1>4. ReleaseInv'
  BY <1>1 DEF OrderedInv, ReleaseInv, Adjusted, Started, Returned, Done
<1>5. ConflictOrder'
  BY <1>1 DEF OrderedInv, ConflictOrder, Conflict, ConflictOn, Access, Started,
              Returned
<1> QED  BY <1>2, <1>3, <1>4, <1>5 DEF OrderedInv

LEMMA Inductive == OrderedInv /\ [Next]_vars => OrderedInv'
<1> SUFFICES ASSUME OrderedInv, [Next]_vars PROVE OrderedInv'
  OBVIOUS
<1>1. ASSUME NEW k \in Keys, RunFirst(k) \/ RunRead(k) \/ RunWrite(k)
      PROVE  OrderedInv'
  BY <1>1, RunFirstInv, RunReadInv, RunWriteInv
<1>2. ASSUME NEW t \in Tasks, Worker(t)
      PROVE  OrderedInv'
  <2>1. ASSUME NEW u \in Tasks, ClearReading(t, u)
        PROVE  OrderedInv'
    BY <2>1, ClearReadingInv
  <2> QED  BY <1>2, <2>1, StartInv, FinishInv, ReleaseStep DEF Worker
<1> QED  BY <1>1, <1>2, RunInv, RunAdjustInv, CallerInv, StutterInv DEF Next, Caller

(* The verdict: the executor's own tasks fail only on their own account.     *)
LEMMA VerdictStep == ExecutorInv /\ [Next]_vars => VerdictInv'
<1> SUFFICES ASSUME ExecutorInv, [Next]_vars PROVE VerdictInv'
  OBVIOUS
<1>1. /\ TypeOK /\ ReleaseInv /\ VerdictInv
      /\ current \in Nat /\ failing \subseteq Tasks /\ 1 .. current \subseteq Tasks
  BY SizeAssumption DEF ExecutorInv, OrderedInv, TypeOK
<1>2. ASSUME UNCHANGED <<failing, taskPc, err>>, runPc' # "done" \/ UNCHANGED <<runPc, current>>,
             1 .. current \subseteq 1 .. current'
      PROVE  VerdictInv'
  BY <1>1, <1>2 DEF VerdictInv, Returned, Done
<1>3. CASE Run \/ RunAdjust \/ Wait
  <2>1. /\ UNCHANGED <<failing, taskPc, err>> /\ runPc' # "done"
        /\ current' = current \/ current' = current + 1
    BY <1>3 DEF Run, RunAdjust, Wait, work
  <2> QED  BY <1>1, <1>2, <2>1
<1>4. ASSUME NEW k \in Keys, RunFirst(k) \/ RunRead(k) \/ RunWrite(k)
      PROVE  VerdictInv'
  BY <1>2, <1>4 DEF RunFirst, RunRead, RunWrite, work
<1>5. CASE WaitDone
  BY <1>1, <1>5 DEF WaitDone, work, Outstanding, VerdictInv, Returned, Done
<1>6. CASE Stop
  BY <1>1, <1>6 DEF Stop, work, caller, VerdictInv, Returned, Done
<1>7. ASSUME NEW t \in Tasks, Start(t)
      PROVE  VerdictInv'
  <2>1. /\ UNCHANGED <<failing, runPc, current, err>> /\ t \in executable
        /\ taskPc' = [taskPc EXCEPT ![t] = IF err = "nil" THEN "run" ELSE "clear"]
    BY <1>7 DEF Start, Take, caller
  <2>2. taskPc[t] = "none"
    BY <1>1, <2>1 DEF ReleaseInv, Started
  <2>3. /\ err = "nil" => \A u \in Tasks : Returned(u)' = Returned(u)
        /\ \A u \in Tasks : Done(u) => Done(u)'
    BY <1>1, <2>1, <2>2 DEF TypeOK, Returned, Done
  <2> QED  BY <1>1, <2>1, <2>3 DEF VerdictInv
<1>8. ASSUME NEW t \in Tasks, Finish(t)
      PROVE  VerdictInv'
  <2>1. /\ UNCHANGED <<failing, runPc, current>> /\ taskPc[t] = "run"
        /\ err' = IF t \in failing /\ err = "nil" THEN "task" ELSE err
        /\ taskPc' = [taskPc EXCEPT ![t] = "clear"]
    BY <1>8 DEF Finish, caller
  <2>2. t \in 1 .. current
    BY <1>1, <2>1 DEF ReleaseInv, Adjusted, Started
  <2>3. /\ \A u \in Tasks : Returned(u)' <=> Returned(u) \/ u = t
        /\ \A u \in Tasks : Done(u) => Done(u)'
    BY <1>1, <2>1 DEF TypeOK, Returned, Done
  <2> QED  BY <1>1, <2>1, <2>2, <2>3 DEF VerdictInv
<1>9. ASSUME NEW t \in Tasks, Release(t)
      PROVE  VerdictInv'
  <2>1. /\ UNCHANGED <<failing, runPc, current, err>> /\ taskPc[t] = "clear"
        /\ taskPc' = [taskPc EXCEPT ![t] = "done"]
    BY <1>9 DEF Release, caller
  <2>2. /\ \A u \in Tasks : Returned(u)' = Returned(u)
        /\ \A u \in Tasks : Done(u) => Done(u)'
    BY <1>1, <2>1 DEF TypeOK, Returned, Done
  <2> QED  BY <1>1, <2>1, <2>2 DEF VerdictInv
<1>10. ASSUME NEW t \in Tasks, NEW u \in Tasks, ClearReading(t, u)
       PROVE  VerdictInv'
  BY <1>1, <1>2, <1>10 DEF ClearReading, work, caller
<1>11. CASE UNCHANGED vars
  BY <1>1, <1>2, <1>11 DEF vars, work, caller
<1> QED  BY <1>3, <1>4, <1>5, <1>6, <1>7, <1>8, <1>9, <1>10, <1>11
         DEF Next, Caller, Worker

(* The inductive invariant: how the counters, the blocked sets and the       *)
(* readers of the tasks stand for the order of the block.                    *)
THEOREM ExecutorInvariant == Spec => []ExecutorInv
<1>1. Init => ExecutorInv
  <2>1. Init => VerdictInv
    BY FailureAssumption DEF Init, VerdictInv, Returned
  <2> QED  BY <2>1, InitInv DEF ExecutorInv
<1>2. ExecutorInv /\ [Next]_vars => ExecutorInv'
  BY Inductive, VerdictStep DEF ExecutorInv
<1> QED  BY <1>1, <1>2, PTL DEF Spec

(* Type correctness; no counter becomes negative.                            *)
THEOREM TypeCorrect == Spec => []TypeOK
<1>1. ExecutorInv => TypeOK
  BY DEF ExecutorInv, OrderedInv
<1> QED  BY <1>1, ExecutorInvariant, PTL

(* Conflicting tasks run in the order of the block (runTask and Run).        *)
THEOREM ConflictsInOrder == Spec => []ConflictOrder
<1>1. ExecutorInv => ConflictOrder
  BY DEF ExecutorInv, OrderedInv
<1> QED  BY <1>1, ExecutorInvariant, PTL

(* Nobody is added to the blocked tasks of one that is executed, and readers *)
(* are not executed: what the comments in Run rely on.                       *)
THEOREM BlockedIsReleased == Spec => [](NeverBlockedOnExecuted /\ ReadersNotExecuted)
<1>1. ExecutorInv => NeverBlockedOnExecuted
  BY DEF ExecutorInv, OrderedInv, TypeOK, BlockInv, NeverBlockedOnExecuted
<1>2. ExecutorInv => ReadersNotExecuted
  BY DEF ExecutorInv, OrderedInv, TypeOK, ReaderInv, ReleaseInv, ReadersNotExecuted
<1> QED  BY <1>1, <1>2, ExecutorInvariant, PTL

(* The counter of each task counts its pending dependencies.                 *)
THEOREM CountersAreExact == Spec => []CountersExact
<1>1. ExecutorInv => CountersExact
  <2> SUFFICES ASSUME ExecutorInv, NEW t \in 1 .. current,
                      ~(t = current /\ runPc = "keys")
               PROVE  dependencies[t] = Cardinality(Pending(t))
    BY DEF CountersExact
  <2>1. t \in Tasks /\ Adjusted(t)
    BY SizeAssumption DEF ExecutorInv, OrderedInv, TypeOK, Adjusted
  <2> QED  BY <2>1 DEF ExecutorInv, OrderedInv, CountInv
<1> QED  BY <1>1, ExecutorInvariant, PTL

(* Wait returns an error iff a task fails, whatever the schedule.            *)
THEOREM VerdictDeterministic == Spec => []VerdictIsDeterministic
<1>1. ExecutorInv => VerdictIsDeterministic
  <2> SUFFICES ASSUME ExecutorInv, runPc = "done", err # "stopped"
               PROVE  err = "task" <=> failing \cap 1 .. current # {}
    BY DEF VerdictIsDeterministic
  <2>1. err = "nil" => failing \cap 1 .. current = {}
    BY DEF ExecutorInv, VerdictInv, Returned, Done
  <2> QED  BY <2>1 DEF ExecutorInv, OrderedInv, VerdictInv, TypeOK
<1> QED  BY <1>1, ExecutorInvariant, PTL
-----------------------------------------------------------------------------
(* The fetcher, as executeTxs uses it.                                       *)

(* Fetcher counts as this module does.                                       *)
LEMMA SameCount == \A S : F!Cardinality(S) = Cardinality(S)
BY DEF F!Cardinality, Cardinality

(* The sets that the invariant counts are finite.                            *)
LEMMA FetchSets ==
  ASSUME F!TypeOK
  PROVE  /\ \A t \in Tasks : /\ F!Needs(t) \subseteq Keys
                             /\ IsFiniteSet(F!Registered(t))
                             /\ Cardinality(F!Registered(t)) \in Nat
         /\ \A k \in Keys : /\ IsFiniteSet(F!Sending(k))
                            /\ Cardinality(F!Sending(k)) \in Nat
                            /\ IsFiniteSet(F!Reading(k))
                            /\ Cardinality(F!Reading(k)) \in Nat
                            /\ F!Places(k) \in Nat
<1>1. ASSUME NEW t \in Tasks
      PROVE  /\ F!Needs(t) \subseteq Keys /\ IsFiniteSet(F!Registered(t))
             /\ Cardinality(F!Registered(t)) \in Nat
  <2>1. F!Needs(t) \subseteq Keys
    BY DEF F!Needs, KeysOf
  <2>2. F!Registered(t) \subseteq Keys
    BY DEF F!Registered
  <2>3. IsFiniteSet(F!Registered(t))
    BY <2>2, FetchAssumption, FS_Subset
  <2> QED  BY <2>1, <2>3, FS_CardinalityType
<1>2. ASSUME NEW k \in Keys
      PROVE  /\ IsFiniteSet(F!Sending(k)) /\ Cardinality(F!Sending(k)) \in Nat
             /\ IsFiniteSet(F!Reading(k)) /\ Cardinality(F!Reading(k)) \in Nat
  <2>1. F!Sending(k) \in SUBSET Tasks
    BY DEF F!Sending
  <2>2. F!Reading(k) \subseteq FetchWorkers
    BY DEF F!Reading
  <2>3. IsFiniteSet(F!Reading(k))
    BY <2>2, FetchAssumption, FS_Subset
  <2> QED  BY <2>1, <2>3, TaskSets, FS_CardinalityType
<1> QED  BY <1>1, <1>2, SameCount DEF F!Places

(* The counters of the transactions count what they still miss.              *)
LEMMA ExactStep ==
  ASSUME F!TypeOK', F!RegisterInv'
  PROVE  F!BlockersExact'
<1> SUFFICES ASSUME NEW t \in Tasks, (fetchPc[t] \in {"send", "fetched"})'
             PROVE  (F!Missing(t) = F!Registered(t))'
  BY DEF F!RegisterInv, F!BlockersExact, F!Registered
<1>1. /\ (F!Missing(t) \subseteq F!Registered(t))'
      /\ (F!Registered(t) \subseteq {k \in F!Needs(t) : keyState[k] = "pending"})'
  BY DEF F!RegisterInv
<1> QED  BY <1>1 DEF F!Missing

(* The steps that only move a call or a worker and leave the keys alone.     *)
LEMMA KeysAlone ==
  ASSUME F!FetcherInv, F!TypeOK', F!RegisterInv', F!PoolInv',
         UNCHANGED <<KeysOf(plan), keyState, toSend, tasks, held>>,
         F!stopped => F!stopped',
         \A t \in Tasks : getPc'[t] = "storage" /\ getPc[t] # "storage" => F!Missing(t) = {}
  PROVE  F!FetcherInv'
<1>1. \A t \in Tasks : F!Missing(t)' = F!Missing(t)
  BY DEF F!Missing, F!Needs
<1>2. F!StorageIsComplete'
  BY <1>1 DEF F!FetcherInv, F!StorageIsComplete
<1>3. \A k \in Keys : F!Places(k)' = F!Places(k)
  BY DEF F!Places, F!Sending, F!Reading
<1>4. F!FetchedOnce'
  BY <1>3, FetchSets DEF F!FetcherInv, F!FetchedOnce
<1> QED  BY <1>2, <1>4, ExactStep DEF F!FetcherInv

(* Fetch returns, with or without an error.                                  *)
LEMMA FetchMoves ==
  ASSUME F!FetcherInv, NEW t \in Tasks,
         F!FetchFails(t) \/ F!SendStopped(t) \/ F!FetchReturns(t)
  PROVE  F!FetcherInv'
<1>1. /\ F!TypeOK /\ F!RegisterInv /\ F!PoolInv
      /\ UNCHANGED <<KeysOf(plan), keyState, waiting, blockers, waiter, toSend, getPc,
                     tasks, worker, held, fetchErr, waitPc>>
      /\ \/ fetchPc[t] = "new" /\ F!stopped /\ fetchPc' = [fetchPc EXCEPT ![t] = "failed"]
         \/ fetchPc[t] = "send" /\ F!stopped /\ fetchPc' = [fetchPc EXCEPT ![t] = "failed"]
         \/ fetchPc[t] = "send" /\ fetchPc' = [fetchPc EXCEPT ![t] = "fetched"]
  BY DEF F!FetcherInv, F!FetchFails, F!SendStopped, F!FetchReturns, F!index, F!pool
<1>2. F!TypeOK' /\ F!PoolInv'
  BY <1>1 DEF F!TypeOK, F!PoolInv
<1>3. \A u \in Tasks : /\ F!Missing(u)' = F!Missing(u)
                       /\ F!Registered(u)' = F!Registered(u)
                       /\ F!Needs(u)' = F!Needs(u)
  BY <1>1 DEF F!Missing, F!Registered, F!Needs
<1>4. F!RegisterInv'
  <2>1. ASSUME NEW u \in Tasks
        PROVE  \/ fetchPc'[u] = fetchPc[u]
               \/ fetchPc'[u] = "failed" /\ F!stopped
               \/ fetchPc[u] = "send" /\ fetchPc'[u] = "fetched"
    <3>1. fetchPc \in [Tasks -> {"new", "send", "fetched", "failed"}]
      BY <1>1 DEF F!TypeOK
    <3>2. u # t => fetchPc'[u] = fetchPc[u]
      BY <1>1, <3>1
    <3>3. \/ fetchPc'[t] = "failed" /\ F!stopped
          \/ fetchPc[t] = "send" /\ fetchPc'[t] = "fetched"
      BY <1>1, <3>1
    <3> QED  BY <3>2, <3>3, Zenon
  <2>2. ASSUME NEW u \in Tasks
        PROVE  /\ getPc[u] # "none" => fetchPc[u] = "fetched"
               /\ fetchPc[u] = "failed" \/ getPc[u] = "error" => F!stopped
    BY <1>1 DEF F!RegisterInv
  <2>3. ASSUME NEW u \in Tasks
        PROVE  /\ getPc[u] # "none" => fetchPc'[u] = "fetched"
               /\ fetchPc'[u] = "failed" \/ getPc[u] = "error" => F!stopped
    <3>1. fetchPc[t] # "fetched" /\ fetchPc \in [Tasks -> {"new", "send", "fetched", "failed"}]
      BY <1>1 DEF F!TypeOK
    <3> QED  BY <1>1, <2>2, <3>1
  <2> QED  BY <1>1, <1>3, <2>1, <2>3 DEF F!RegisterInv, F!stopped
<1> QED  BY <1>1, <1>2, <1>4, KeysAlone DEF F!stopped

(* Get returns the storage or an error.                                      *)
LEMMA GetMoves ==
  ASSUME F!FetcherInv, NEW t \in Tasks, F!GetReturn(t)
  PROVE  F!FetcherInv'
<1>1. /\ F!TypeOK /\ F!RegisterInv /\ F!PoolInv
      /\ UNCHANGED <<KeysOf(plan), keyState, waiting, blockers, waiter, fetchPc, toSend,
                     tasks, worker, held, fetchErr, waitPc>>
      /\ fetchPc[t] = "fetched" /\ getPc[t] = "none"
      /\ \/ getPc' = [getPc EXCEPT ![t] = "storage"] /\ waiter[t] # "open"
         \/ getPc' = [getPc EXCEPT ![t] = "error"] /\ F!stopped
  BY DEF F!FetcherInv, F!GetReturn, F!GetStorage, F!GetError, F!GetStep, F!index, F!pool
<1>2. F!TypeOK' /\ F!PoolInv'
  BY <1>1 DEF F!TypeOK, F!PoolInv
<1>3. \A u \in Tasks : /\ F!Missing(u)' = F!Missing(u)
                       /\ F!Registered(u)' = F!Registered(u)
                       /\ F!Needs(u)' = F!Needs(u)
  BY <1>1 DEF F!Missing, F!Registered, F!Needs
<1>4. F!RegisterInv'
  <2>1. ASSUME NEW u \in Tasks
        PROVE  /\ getPc'[u] = "error" => getPc[u] = "error" \/ F!stopped
               /\ getPc'[u] # "none" => getPc[u] # "none" \/ fetchPc[u] = "fetched"
    BY <1>1 DEF F!TypeOK
  <2> QED  BY <1>1, <1>3, <2>1 DEF F!RegisterInv, F!stopped
<1>5. \A u \in Tasks : getPc'[u] = "storage" /\ getPc[u] # "storage" => F!Missing(u) = {}
  <2>1. waiter[t] # "open" => F!Missing(t) = {}
    BY <1>1 DEF F!RegisterInv
  <2> QED  BY <1>1, <2>1 DEF F!TypeOK
<1> QED  BY <1>1, <1>2, <1>4, <1>5, KeysAlone DEF F!stopped

(* Stop, Wait, and the end of a worker that reads nothing.                   *)
LEMMA PoolMoves ==
  ASSUME F!FetcherInv,
         F!Stop \/ F!Wait \/ F!WaitReturn \/ \E w \in FetchWorkers : F!WorkerReturns(w)
  PROVE  F!FetcherInv'
<1>1. /\ F!TypeOK /\ F!RegisterInv /\ F!PoolInv
      /\ UNCHANGED <<KeysOf(plan), keyState, waiting, blockers, waiter, fetchPc, toSend,
                     getPc, tasks, held>>
      /\ fetchErr' \in {"nil", "read", "stopped"} /\ (F!stopped => fetchErr' = fetchErr)
  BY DEF F!FetcherInv, F!TypeOK, F!Stop, F!Wait, F!WaitReturn, F!WorkerReturns,
         F!HandleErr, F!stopped, F!index, F!calls, F!pool
<1>2. /\ worker' \in [FetchWorkers -> {"idle", "busy", "gone"}]
      /\ waitPc' \in {"none", "waiting", "done"} /\ F!PoolInv'
  <2>1. CASE F!Stop \/ F!Wait
    BY <1>1, <2>1 DEF F!Stop, F!Wait, F!pool, F!TypeOK, F!PoolInv
  <2>2. CASE F!WaitReturn
    BY <1>1, <2>2 DEF F!WaitReturn, F!pool, F!TypeOK, F!PoolInv
  <2>3. ASSUME NEW w \in FetchWorkers, F!WorkerReturns(w)
        PROVE  /\ worker' \in [FetchWorkers -> {"idle", "busy", "gone"}]
               /\ waitPc' \in {"none", "waiting", "done"} /\ F!PoolInv'
    BY <1>1, <2>3 DEF F!WorkerReturns, F!TypeOK, F!PoolInv
  <2> QED  BY <2>1, <2>2, <2>3
<1>3. F!TypeOK'
  BY <1>1, <1>2 DEF F!TypeOK
<1>4. \A u \in Tasks : /\ F!Missing(u)' = F!Missing(u)
                       /\ F!Registered(u)' = F!Registered(u)
                       /\ F!Needs(u)' = F!Needs(u)
  BY <1>1 DEF F!Missing, F!Registered, F!Needs
<1>5. F!RegisterInv'
  BY <1>1, <1>4 DEF F!RegisterInv, F!stopped
<1> QED  BY <1>1, <1>2, <1>3, <1>5, KeysAlone DEF F!stopped

(* The places of a key, in the operators of this module.                     *)
LEMMA PlacesAre ==
  \A k : /\ F!Places(k) = Cardinality(F!Sending(k)) + Cardinality(F!Reading(k))
                              + (IF k \in tasks THEN 1 ELSE 0)
         /\ F!Places(k)' = Cardinality(F!Sending(k)') + Cardinality(F!Reading(k)')
                              + (IF k \in tasks' THEN 1 ELSE 0)
BY SameCount DEF F!Places

(* Fetch registers a transaction with its missing keys.                      *)
LEMMA RegisterMoves ==
  ASSUME F!FetcherInv, NEW t \in Tasks, F!Register(t)
  PROVE  F!FetcherInv'
<1> DEFINE fresh == {k \in F!Needs(t) : keyState[k] = "unknown"}
           miss == F!Missing(t)
<1>1. /\ F!TypeOK /\ F!RegisterInv /\ F!PoolInv /\ F!FetchedOnce /\ F!StorageIsComplete
      /\ UNCHANGED <<KeysOf(plan), getPc, tasks, worker, held, fetchErr, waitPc>>
      /\ fetchPc[t] = "new" /\ ~F!stopped
      /\ keyState' = [k \in Keys |-> IF k \in fresh THEN "pending" ELSE keyState[k]]
      /\ waiting' = [k \in Keys |-> IF k \in miss THEN waiting[k] \cup {t} ELSE waiting[k]]
      /\ blockers' = [blockers EXCEPT ![t] = Cardinality(miss)]
      /\ waiter' = [waiter EXCEPT ![t] = IF miss = {} THEN "nil" ELSE "open"]
      /\ toSend' = [toSend EXCEPT ![t] = fresh]
      /\ fetchPc' = [fetchPc EXCEPT ![t] = "send"]
  BY SameCount DEF F!FetcherInv, F!Register, F!RegisterWith, F!pool
<1>2. /\ F!Needs(t) \subseteq Keys /\ fresh \subseteq miss /\ miss \subseteq Keys
      /\ Cardinality(miss) \in Nat /\ fresh \in SUBSET Keys
      /\ \A k \in miss : k \in fresh \/ keyState[k] = "pending"
  <2>1. F!Needs(t) \subseteq Keys
    BY <1>1, FetchSets
  <2>2. /\ fresh \subseteq miss /\ miss \subseteq Keys
        /\ \A k \in miss : k \in fresh \/ keyState[k] = "pending"
    BY <1>1, <2>1 DEF F!Missing, F!TypeOK
  <2>3. Cardinality(miss) \in Nat
    BY <2>2, FetchAssumption, FS_Subset, FS_CardinalityType
  <2> QED  BY <2>1, <2>2, <2>3
<1> HIDE DEF fresh, miss
<1>3. F!TypeOK'
  BY <1>1, <1>2 DEF F!TypeOK
<1>4. F!PoolInv'
  BY <1>1 DEF F!PoolInv
<1>5. \A u \in Tasks : /\ F!Needs(u)' = F!Needs(u)
                       /\ F!Missing(u)' = F!Missing(u)
                       /\ F!Registered(u)' = IF u = t THEN miss ELSE F!Registered(u)
  <2>1. \A u \in Tasks : F!Needs(u)' = F!Needs(u) /\ F!Needs(u) \subseteq Keys
    BY <1>1, FetchSets DEF F!Needs
  <2>2. \A k \in Keys : keyState'[k] # "cached" <=> keyState[k] # "cached"
    BY <1>1 DEF fresh
  <2>3. \A u \in Tasks : F!Missing(u)' = F!Missing(u)
    BY <2>1, <2>2 DEF F!Missing
  <2>4. F!Registered(t) = {}
    BY <1>1 DEF F!RegisterInv
  <2>5. ASSUME NEW u \in Tasks
        PROVE  F!Registered(u)' = IF u = t THEN miss ELSE F!Registered(u)
    BY <1>1, <1>2, <2>4 DEF F!Registered
  <2> QED  BY <2>1, <2>3, <2>5
<1>6. F!RegisterInv'
  <2> SUFFICES ASSUME NEW u \in Tasks
               PROVE  /\ F!Registered(u)' \subseteq {k \in F!Needs(u)' : keyState'[k] = "pending"}
                      /\ blockers'[u] = Cardinality(F!Registered(u)')
                      /\ waiter'[u] = "open" <=> F!Registered(u)' # {}
                      /\ fetchPc'[u] \in {"send", "fetched"} => F!Missing(u)' \subseteq F!Registered(u)'
                      /\ fetchPc'[u] = "new" => F!Registered(u)' = {} /\ toSend'[u] = {}
                      /\ fetchPc'[u] = "failed" \/ getPc'[u] = "error" => F!stopped'
                      /\ getPc'[u] # "none" => fetchPc'[u] = "fetched"
    BY SameCount DEF F!RegisterInv
  <2>1. /\ F!Registered(u) \subseteq {k \in F!Needs(u) : keyState[k] = "pending"}
        /\ blockers[u] = Cardinality(F!Registered(u))
        /\ waiter[u] = "open" <=> F!Registered(u) # {}
        /\ fetchPc[u] \in {"send", "fetched"} => F!Missing(u) \subseteq F!Registered(u)
        /\ fetchPc[u] = "new" => F!Registered(u) = {} /\ toSend[u] = {}
        /\ fetchPc[u] = "failed" \/ getPc[u] = "error" => F!stopped
        /\ getPc[u] # "none" => fetchPc[u] = "fetched"
    BY <1>1, SameCount DEF F!RegisterInv
  <2>2. F!stopped' = F!stopped
    BY <1>1 DEF F!stopped
  <2>3. \A k \in Keys : keyState[k] = "pending" \/ k \in fresh => keyState'[k] = "pending"
    BY <1>1
  <2>4. CASE u # t
    <3>1. /\ blockers'[u] = blockers[u] /\ waiter'[u] = waiter[u] /\ toSend'[u] = toSend[u]
          /\ fetchPc'[u] = fetchPc[u] /\ getPc'[u] = getPc[u]
      BY <1>1, <2>4 DEF F!TypeOK
    <3>2. F!Needs(u) \subseteq Keys
      BY <1>1, FetchSets
    <3> QED  BY <1>5, <2>1, <2>2, <2>3, <2>4, <3>1, <3>2
  <2>5. CASE u = t
    <3>1. /\ blockers'[t] = Cardinality(miss) /\ fetchPc'[t] = "send"
          /\ waiter'[t] = IF miss = {} THEN "nil" ELSE "open"
          /\ getPc'[t] = "none"
      BY <1>1, <2>1, <2>5 DEF F!TypeOK
    <3>2. miss \subseteq {k \in F!Needs(t) : keyState'[k] = "pending"}
      BY <1>2, <2>3 DEF miss, F!Missing
    <3> QED  BY <1>5, <2>5, <3>1, <3>2 DEF miss
  <2> QED  BY <2>4, <2>5
<1>7. F!StorageIsComplete'
  BY <1>1, <1>5 DEF F!StorageIsComplete
<1>8. F!FetchedOnce'
  <2> SUFFICES ASSUME NEW k \in Keys
               PROVE  IF keyState'[k] = "pending"
                      THEN F!Places(k)' <= 1 /\ (F!stopped' \/ F!Places(k)' = 1)
                      ELSE F!Places(k)' = 0
    BY DEF F!FetchedOnce
  <2>1. toSend[t] = {} /\ toSend \in [Tasks -> SUBSET Keys]
    BY <1>1 DEF F!RegisterInv, F!TypeOK
  <2>2. /\ F!Sending(k)' = IF k \in fresh THEN F!Sending(k) \cup {t} ELSE F!Sending(k)
        /\ t \notin F!Sending(k)
    BY <1>1, <2>1 DEF F!Sending
  <2>3. F!Reading(k)' = F!Reading(k) /\ tasks' = tasks /\ F!stopped' = F!stopped
    BY <1>1 DEF F!Reading, F!stopped
  <2>4. CASE k \notin fresh
    BY <1>1, <2>2, <2>3, <2>4, PlacesAre DEF F!FetchedOnce
  <2>5. CASE k \in fresh
    <3>1. keyState[k] = "unknown" /\ keyState'[k] = "pending"
      BY <1>1, <2>5 DEF fresh
    <3>2. F!Places(k) = 0
      BY <1>1, <3>1 DEF F!FetchedOnce
    <3>3. /\ IsFiniteSet(F!Sending(k)) /\ Cardinality(F!Sending(k)) \in Nat
          /\ Cardinality(F!Reading(k)) \in Nat
      BY <1>1, FetchSets
    <3>4. Cardinality(F!Sending(k)') = Cardinality(F!Sending(k)) + 1
      BY <2>2, <2>5, <3>3, FS_AddElement
    <3>5. F!Places(k)' = F!Places(k) + 1
      BY <2>3, <3>3, <3>4, PlacesAre
    <3> QED  BY <3>1, <3>2, <3>5
  <2> QED  BY <2>4, <2>5
<1> QED  BY <1>3, <1>4, <1>6, <1>7, <1>8, ExactStep DEF F!FetcherInv

(* A key that is on its way somewhere is there once and nowhere else.        *)
LEMMA OnlyPlace ==
  ASSUME F!FetcherInv, NEW k \in Keys
  PROVE  /\ \A t \in Tasks : k \in toSend[t] =>
               /\ keyState[k] = "pending" /\ F!Sending(k) = {t} /\ F!Reading(k) = {}
               /\ k \notin tasks
         /\ \A w \in FetchWorkers : k \in held[w] =>
               /\ keyState[k] = "pending" /\ F!Sending(k) = {} /\ F!Reading(k) = {w}
               /\ k \notin tasks
         /\ k \in tasks =>
               keyState[k] = "pending" /\ F!Sending(k) = {} /\ F!Reading(k) = {}
<1> DEFINE s == Cardinality(F!Sending(k))
           r == Cardinality(F!Reading(k))
<1>1. /\ F!TypeOK /\ F!FetchedOnce
      /\ IsFiniteSet(F!Sending(k)) /\ s \in Nat /\ IsFiniteSet(F!Reading(k)) /\ r \in Nat
  BY FetchSets DEF F!FetcherInv
<1>2. /\ s = 0 <=> F!Sending(k) = {}
      /\ s = 1 <=> \E t : F!Sending(k) = {t}
      /\ r = 0 <=> F!Reading(k) = {}
      /\ r = 1 <=> \E w : F!Reading(k) = {w}
  BY <1>1, FS_EmptySet, FS_Singleton
<1>3. /\ keyState[k] # "pending" => s + r + (IF k \in tasks THEN 1 ELSE 0) = 0
      /\ s + r + (IF k \in tasks THEN 1 ELSE 0) <= 1
  BY <1>1, PlacesAre DEF F!FetchedOnce
<1> HIDE DEF s, r
<1>4. /\ s # 0 => s = 1 /\ r = 0 /\ k \notin tasks /\ keyState[k] = "pending"
      /\ r # 0 => s = 0 /\ r = 1 /\ k \notin tasks /\ keyState[k] = "pending"
      /\ k \in tasks => s = 0 /\ r = 0 /\ keyState[k] = "pending"
  BY <1>1, <1>3
<1>5. ASSUME NEW t \in Tasks, k \in toSend[t]
      PROVE  /\ keyState[k] = "pending" /\ F!Sending(k) = {t} /\ F!Reading(k) = {}
             /\ k \notin tasks
  <2>1. t \in F!Sending(k)
    BY <1>5 DEF F!Sending
  <2>2. s # 0
    BY <1>2, <2>1
  <2> QED  BY <1>2, <1>4, <2>1, <2>2
<1>6. ASSUME NEW w \in FetchWorkers, k \in held[w]
      PROVE  /\ keyState[k] = "pending" /\ F!Sending(k) = {} /\ F!Reading(k) = {w}
             /\ k \notin tasks
  <2>1. w \in F!Reading(k)
    BY <1>6 DEF F!Reading
  <2>2. r # 0
    BY <1>2, <2>1
  <2> QED  BY <1>2, <1>4, <2>1, <2>2
<1> QED  BY <1>2, <1>4, <1>5, <1>6

(* Where a key is after a step that moves it.                                *)
LEMMA OnePlace ==
  ASSUME NEW k, NEW S, NEW R,
         F!Sending(k)' = S, F!Reading(k)' = R,
         \/ \E x : S = {x} /\ R = {} /\ k \notin tasks'
         \/ \E x : S = {} /\ R = {x} /\ k \notin tasks'
         \/ S = {} /\ R = {} /\ k \in tasks'
  PROVE  F!Places(k)' = 1
<1>1. Cardinality({}) = 0 /\ \A x : Cardinality({x}) = 1
  BY FS_EmptySet, FS_Singleton
<1>2. F!Places(k)' = Cardinality(S) + Cardinality(R) + (IF k \in tasks' THEN 1 ELSE 0)
  BY PlacesAre
<1>3. \/ Cardinality(S) = 1 /\ Cardinality(R) = 0 /\ k \notin tasks'
      \/ Cardinality(S) = 0 /\ Cardinality(R) = 1 /\ k \notin tasks'
      \/ Cardinality(S) = 0 /\ Cardinality(R) = 0 /\ k \in tasks'
  BY <1>1, Zenon
<1> QED  BY ONLY <1>2, <1>3

(* Fetch sends a key to the workers.                                         *)
LEMMA SendMoves ==
  ASSUME F!FetcherInv, NEW t \in Tasks, NEW k \in Keys, F!Send(t, k)
  PROVE  F!FetcherInv'
<1>1. /\ F!TypeOK /\ F!RegisterInv /\ F!PoolInv /\ F!FetchedOnce /\ F!StorageIsComplete
      /\ UNCHANGED <<KeysOf(plan), keyState, waiting, blockers, waiter, fetchPc, getPc,
                     worker, held, fetchErr, waitPc>>
      /\ fetchPc[t] = "send" /\ k \in toSend[t]
      /\ Cardinality(tasks) < Cardinality(Tasks)
      /\ tasks' = tasks \cup {k} /\ toSend' = [toSend EXCEPT ![t] = @ \ {k}]
  BY SameCount DEF F!FetcherInv, F!Send, F!index, F!pool
<1>2. F!TypeOK'
  <2>1. IsFiniteSet(tasks) /\ Cardinality(tasks) \in Nat /\ Cardinality(Tasks) \in Nat
    BY <1>1, FetchAssumption, FS_Subset, FS_CardinalityType, TaskSets DEF F!TypeOK
  <2>2. Cardinality(tasks') <= Cardinality(Tasks)
    <3>1. Cardinality(tasks \cup {k}) = IF k \in tasks THEN Cardinality(tasks)
                                        ELSE Cardinality(tasks) + 1
      BY <2>1, FS_AddElement, Zenon
    <3>2. /\ Cardinality(tasks') = Cardinality(tasks \cup {k})
          /\ Cardinality(tasks) < Cardinality(Tasks)
      BY <1>1, Zenon
    <3> QED  BY ONLY <2>1, <3>1, <3>2
  <2> QED  BY <1>1, <2>2, SameCount DEF F!TypeOK
<1>3. F!PoolInv'
  BY <1>1 DEF F!PoolInv
<1>4. \A u \in Tasks : /\ F!Missing(u)' = F!Missing(u)
                       /\ F!Registered(u)' = F!Registered(u)
                       /\ F!Needs(u)' = F!Needs(u)
  BY <1>1 DEF F!Missing, F!Registered, F!Needs
<1>5. \A u \in Tasks : fetchPc[u] = "new" => toSend'[u] = toSend[u]
  BY <1>1 DEF F!TypeOK
<1>6. F!RegisterInv'
  BY <1>1, <1>4, <1>5 DEF F!RegisterInv, F!stopped
<1>7. F!StorageIsComplete'
  BY <1>1, <1>4 DEF F!StorageIsComplete
<1>8. F!FetchedOnce'
  <2>1. toSend \in [Tasks -> SUBSET Keys]
    BY <1>1 DEF F!TypeOK
  <2>2. ASSUME NEW j \in Keys, j # k
        PROVE  F!Places(j)' = F!Places(j)
    <3>1. F!Sending(j)' = F!Sending(j) /\ F!Reading(j)' = F!Reading(j)
      BY <1>1, <2>1, <2>2 DEF F!Sending, F!Reading
    <3>2. j \in tasks' <=> j \in tasks
      BY <1>1, <2>2
    <3> QED  BY <3>1, <3>2, PlacesAre
  <2>3. keyState[k] = "pending" /\ F!Places(k)' = 1
    <3>1. keyState[k] = "pending" /\ F!Sending(k) = {t} /\ F!Reading(k) = {}
      BY <1>1, OnlyPlace
    <3>2. F!Sending(k)' = {} /\ F!Reading(k)' = {} /\ k \in tasks'
      BY <1>1, <2>1, <3>1 DEF F!Sending, F!Reading
    <3> QED  BY <3>1, <3>2, OnePlace
  <2> QED  BY <1>1, <2>2, <2>3 DEF F!FetchedOnce, F!stopped
<1> QED  BY <1>2, <1>3, <1>6, <1>7, <1>8, ExactStep DEF F!FetcherInv

(* A worker takes a key.                                                     *)
LEMMA TakeMoves ==
  ASSUME F!FetcherInv, NEW w \in FetchWorkers, NEW k \in Keys, F!TakeTask(w, k)
  PROVE  F!FetcherInv'
<1>1. /\ F!TypeOK /\ F!RegisterInv /\ F!PoolInv /\ F!FetchedOnce /\ F!StorageIsComplete
      /\ UNCHANGED <<KeysOf(plan), keyState, waiting, blockers, waiter, fetchPc, toSend,
                     getPc, fetchErr, waitPc>>
      /\ worker[w] = "idle" /\ k \in tasks /\ tasks' = tasks \ {k}
      /\ worker' = [worker EXCEPT ![w] = "busy"] /\ held' = [held EXCEPT ![w] = {k}]
  BY DEF F!FetcherInv, F!TakeTask, F!index, F!calls
<1>2. F!TypeOK'
  <2>1. IsFiniteSet(tasks) /\ Cardinality(tasks) \in Nat /\ Cardinality(tasks) <= Cardinality(Tasks)
        /\ Cardinality(Tasks) \in Nat
    BY <1>1, FetchAssumption, FS_Subset, FS_CardinalityType, TaskSets, SameCount DEF F!TypeOK
  <2>2. Cardinality(tasks') <= Cardinality(Tasks)
    <3>1. Cardinality(tasks \ {k}) = IF k \in tasks THEN Cardinality(tasks) - 1
                                     ELSE Cardinality(tasks)
      BY <2>1, FS_RemoveElement, Zenon
    <3>2. Cardinality(tasks') = Cardinality(tasks \ {k})
      BY <1>1, Zenon
    <3> QED  BY ONLY <2>1, <3>1, <3>2
  <2> QED  BY <1>1, <2>2, SameCount DEF F!TypeOK
<1>3. F!PoolInv'
  <2>1. waitPc # "done"
    BY <1>1 DEF F!PoolInv
  <2> QED  BY <1>1, <2>1 DEF F!PoolInv, F!TypeOK
<1>4. \A u \in Tasks : /\ F!Missing(u)' = F!Missing(u)
                       /\ F!Registered(u)' = F!Registered(u)
                       /\ F!Needs(u)' = F!Needs(u)
  BY <1>1 DEF F!Missing, F!Registered, F!Needs
<1>5. F!RegisterInv'
  BY <1>1, <1>4 DEF F!RegisterInv, F!stopped
<1>6. F!StorageIsComplete'
  BY <1>1, <1>4 DEF F!StorageIsComplete
<1>7. F!FetchedOnce'
  <2>1. held \in [FetchWorkers -> SUBSET Keys] /\ held[w] = {}
    BY <1>1 DEF F!TypeOK, F!PoolInv
  <2>2. ASSUME NEW j \in Keys, j # k
        PROVE  F!Places(j)' = F!Places(j)
    <3>1. F!Sending(j)' = F!Sending(j) /\ F!Reading(j)' = F!Reading(j)
      BY <1>1, <2>1, <2>2 DEF F!Sending, F!Reading
    <3>2. j \in tasks' <=> j \in tasks
      BY <1>1, <2>2
    <3> QED  BY <3>1, <3>2, PlacesAre
  <2>3. keyState[k] = "pending" /\ F!Places(k)' = 1
    <3>1. keyState[k] = "pending" /\ F!Sending(k) = {} /\ F!Reading(k) = {}
      BY <1>1, OnlyPlace
    <3>2. F!Sending(k)' = {} /\ F!Reading(k)' = {w} /\ k \notin tasks'
      BY <1>1, <2>1, <3>1 DEF F!Sending, F!Reading
    <3> QED  BY <3>1, <3>2, OnePlace
  <2> QED  BY <1>1, <2>2, <2>3 DEF F!FetchedOnce, F!stopped
<1> QED  BY <1>2, <1>3, <1>5, <1>6, <1>7, ExactStep DEF F!FetcherInv

(* A worker is no longer reading the key k, the only one it held.            *)
LEMMA DropKey ==
  ASSUME F!FetcherInv, NEW w \in FetchWorkers, NEW k \in Keys, k \in held[w],
         UNCHANGED <<toSend, tasks>>, held' = [held EXCEPT ![w] = {}]
  PROVE  /\ keyState[k] = "pending" /\ F!Places(k)' = 0
         /\ \A j \in Keys : j # k => F!Places(j)' = F!Places(j)
<1>1. held \in [FetchWorkers -> SUBSET Keys] /\ held[w] = {k}
  BY DEF F!FetcherInv, F!TypeOK, F!PoolInv
<1>2. /\ keyState[k] = "pending" /\ F!Sending(k) = {} /\ F!Reading(k) = {w}
      /\ k \notin tasks
  BY OnlyPlace
<1>3. F!Sending(k)' = {} /\ F!Reading(k)' = {} /\ k \notin tasks'
  BY <1>1, <1>2 DEF F!Sending, F!Reading
<1>4. F!Places(k)' = Cardinality({}) + Cardinality({}) + 0
  BY <1>3, PlacesAre
<1>5. ASSUME NEW j \in Keys, j # k
      PROVE  F!Places(j)' = F!Places(j)
  <2>1. F!Sending(j)' = F!Sending(j) /\ F!Reading(j)' = F!Reading(j)
    BY <1>1, <1>5 DEF F!Sending, F!Reading
  <2> QED  BY <2>1, PlacesAre
<1> QED  BY <1>2, <1>4, <1>5, FS_EmptySet

(* A worker has read a key.                                                  *)
LEMMA SetKeyMoves ==
  ASSUME F!FetcherInv, NEW w \in FetchWorkers, NEW k \in Keys, F!SetKey(w, k)
  PROVE  F!FetcherInv'
<1>1. /\ F!TypeOK /\ F!RegisterInv /\ F!PoolInv /\ F!FetchedOnce /\ F!StorageIsComplete
      /\ UNCHANGED <<KeysOf(plan), fetchPc, toSend, getPc, tasks, fetchErr, waitPc>>
      /\ worker[w] = "busy" /\ k \in held[w]
      /\ keyState' = [keyState EXCEPT ![k] = "cached"]
      /\ blockers' = [t \in Tasks |-> IF t \in waiting[k] THEN blockers[t] - 1 ELSE blockers[t]]
      /\ waiter' = [t \in Tasks |-> IF t \in waiting[k] /\ blockers[t] = 1
                                    THEN "closed" ELSE waiter[t]]
      /\ waiting' = [waiting EXCEPT ![k] = {}]
      /\ worker' = [worker EXCEPT ![w] = "idle"] /\ held' = [held EXCEPT ![w] = {}]
  BY DEF F!FetcherInv, F!SetKey, F!calls
<1>2. ASSUME NEW t \in Tasks
      PROVE  /\ F!Needs(t)' = F!Needs(t)
             /\ F!Missing(t)' = F!Missing(t) \ {k}
             /\ F!Registered(t)' = F!Registered(t) \ {k}
             /\ t \in waiting[k] <=> k \in F!Registered(t)
  <2>1. F!Needs(t)' = F!Needs(t) /\ F!Needs(t) \subseteq Keys
    BY <1>1, FetchSets DEF F!Needs
  <2>2. keyState \in [Keys -> {"unknown", "pending", "cached"}] /\ waiting \in [Keys -> SUBSET Tasks]
    BY <1>1 DEF F!TypeOK
  <2>3. F!Missing(t)' = F!Missing(t) \ {k}
    BY <1>1, <2>1, <2>2 DEF F!Missing
  <2>4. F!Registered(t)' = F!Registered(t) \ {k} /\ (t \in waiting[k] <=> k \in F!Registered(t))
    BY <1>1, <2>2 DEF F!Registered
  <2> QED  BY <2>1, <2>3, <2>4
<1>3. ASSUME NEW t \in Tasks
      PROVE  /\ blockers'[t] = Cardinality(F!Registered(t)') /\ blockers'[t] \in Nat
             /\ waiter'[t] = "open" <=> F!Registered(t)' # {}
             /\ waiter'[t] \in {"nil", "open", "closed"}
  <2>1. /\ IsFiniteSet(F!Registered(t)) /\ Cardinality(F!Registered(t)) \in Nat
        /\ blockers[t] = Cardinality(F!Registered(t)) /\ (waiter[t] = "open" <=> F!Registered(t) # {})
        /\ waiter[t] \in {"nil", "open", "closed"}
    BY <1>1, FetchSets, SameCount DEF F!RegisterInv, F!TypeOK
  <2>2. CASE t \notin waiting[k]
    <3>1. F!Registered(t)' = F!Registered(t)
      BY <1>2, <2>2
    <3>2. blockers'[t] = blockers[t] /\ waiter'[t] = waiter[t]
      BY <1>1, <2>2
    <3> QED  BY <2>1, <3>1, <3>2
  <2>3. CASE t \in waiting[k]
    <3>1. k \in F!Registered(t) /\ F!Registered(t)' = F!Registered(t) \ {k}
      BY <1>2, <2>3
    <3>2. /\ IsFiniteSet(F!Registered(t) \ {k})
          /\ Cardinality(F!Registered(t) \ {k}) = Cardinality(F!Registered(t)) - 1
      BY <2>1, <3>1, FS_RemoveElement
    <3>3. /\ Cardinality(F!Registered(t) \ {k}) \in Nat
          /\ Cardinality(F!Registered(t) \ {k}) = 0 <=> F!Registered(t) \ {k} = {}
      BY <3>2, FS_EmptySet, FS_CardinalityType
    <3>4. /\ blockers'[t] = blockers[t] - 1
          /\ waiter'[t] = IF blockers[t] = 1 THEN "closed" ELSE waiter[t]
      BY <1>1, <2>3
    <3>5. blockers'[t] = Cardinality(F!Registered(t)') /\ blockers'[t] \in Nat
      BY <2>1, <3>1, <3>2, <3>3, <3>4
    <3>6. blockers[t] = 1 <=> F!Registered(t)' = {}
      BY <2>1, <3>1, <3>2, <3>3
    <3> QED  BY <2>1, <3>1, <3>4, <3>5, <3>6
  <2> QED  BY <2>2, <2>3
<1>4. F!TypeOK'
  <2>1. blockers' \in [Tasks -> Nat] /\ waiter' \in [Tasks -> {"nil", "open", "closed"}]
    BY <1>1, <1>3
  <2> QED  BY <1>1, <2>1 DEF F!TypeOK
<1>5. F!PoolInv'
  <2>1. waitPc # "done"
    BY <1>1 DEF F!PoolInv
  <2> QED  BY <1>1, <2>1 DEF F!PoolInv, F!TypeOK
<1>6. F!RegisterInv'
  <2> SUFFICES ASSUME NEW t \in Tasks
               PROVE  /\ F!Registered(t)' \subseteq {j \in F!Needs(t)' : keyState'[j] = "pending"}
                      /\ fetchPc'[t] \in {"send", "fetched"} => F!Missing(t)' \subseteq F!Registered(t)'
                      /\ fetchPc'[t] = "new" => F!Registered(t)' = {} /\ toSend'[t] = {}
                      /\ fetchPc'[t] = "failed" \/ getPc'[t] = "error" => F!stopped'
                      /\ getPc'[t] # "none" => fetchPc'[t] = "fetched"
    BY <1>3, SameCount DEF F!RegisterInv
  <2>1. /\ F!Registered(t) \subseteq {j \in F!Needs(t) : keyState[j] = "pending"}
        /\ fetchPc[t] \in {"send", "fetched"} => F!Missing(t) \subseteq F!Registered(t)
        /\ fetchPc[t] = "new" => F!Registered(t) = {} /\ toSend[t] = {}
        /\ fetchPc[t] = "failed" \/ getPc[t] = "error" => F!stopped
        /\ getPc[t] # "none" => fetchPc[t] = "fetched"
    BY <1>1 DEF F!RegisterInv
  <2>2. \A j : j # k => keyState'[j] = keyState[j]
    BY <1>1 DEF F!TypeOK
  <2>3. F!Registered(t)' \subseteq {j \in F!Needs(t)' : keyState'[j] = "pending"}
    BY <1>2, <2>1, <2>2
  <2> QED  BY <1>1, <1>2, <2>1, <2>3 DEF F!stopped
<1>7. F!StorageIsComplete'
  BY <1>1, <1>2 DEF F!StorageIsComplete
<1>8. F!FetchedOnce'
  <2>1. keyState'[k] = "cached" /\ \A j \in Keys : j # k => keyState'[j] = keyState[j]
    BY <1>1 DEF F!TypeOK
  <2>2. F!Places(k)' = 0 /\ \A j \in Keys : j # k => F!Places(j)' = F!Places(j)
    BY <1>1, DropKey
  <2> QED  BY <1>1, <2>1, <2>2 DEF F!FetchedOnce, F!stopped
<1> QED  BY <1>4, <1>5, <1>6, <1>7, <1>8, ExactStep DEF F!FetcherInv

(* A read fails.                                                             *)
LEMMA FailMoves ==
  ASSUME F!FetcherInv, NEW w \in FetchWorkers, NEW k \in Keys, F!ReadFails(w, k)
  PROVE  F!FetcherInv'
<1>1. /\ F!TypeOK /\ F!RegisterInv /\ F!PoolInv /\ F!FetchedOnce /\ F!StorageIsComplete
      /\ UNCHANGED <<KeysOf(plan), keyState, waiting, blockers, waiter, fetchPc, toSend,
                     getPc, tasks, waitPc>>
      /\ worker[w] = "busy" /\ k \in held[w]
      /\ fetchErr' = IF fetchErr = "nil" /\ waitPc # "done" THEN "read" ELSE fetchErr
      /\ worker' = [worker EXCEPT ![w] = "gone"] /\ held' = [held EXCEPT ![w] = {}]
  BY DEF F!FetcherInv, F!ReadFails, F!HandleErr, F!index, F!calls
<1>2. waitPc # "done" /\ F!stopped'
  BY <1>1 DEF F!PoolInv, F!stopped
<1>3. F!TypeOK'
  BY <1>1 DEF F!TypeOK
<1>4. F!PoolInv'
  BY <1>1, <1>2 DEF F!PoolInv, F!TypeOK
<1>5. \A u \in Tasks : /\ F!Missing(u)' = F!Missing(u)
                       /\ F!Registered(u)' = F!Registered(u)
                       /\ F!Needs(u)' = F!Needs(u)
  BY <1>1 DEF F!Missing, F!Registered, F!Needs
<1>6. F!RegisterInv'
  BY <1>1, <1>2, <1>5 DEF F!RegisterInv
<1>7. F!StorageIsComplete'
  BY <1>1, <1>5 DEF F!StorageIsComplete
<1>8. F!FetchedOnce'
  <2>1. /\ keyState[k] = "pending" /\ F!Places(k)' = 0
        /\ \A j \in Keys : j # k => F!Places(j)' = F!Places(j)
    BY <1>1, DropKey
  <2> QED  BY <1>1, <1>2, <2>1 DEF F!FetchedOnce
<1> QED  BY <1>3, <1>4, <1>6, <1>7, <1>8, ExactStep DEF F!FetcherInv

(* Every step of the fetcher keeps what it promises.                         *)
LEMMA FetcherStep ==
  ASSUME F!FetcherInv,
         \/ \E t \in Tasks : \/ F!FetchFails(t) \/ F!Register(t) \/ F!FetchStep(t)
                             \/ F!GetReturn(t)
         \/ \E w \in FetchWorkers : F!WorkerStep(w)
         \/ F!Stop \/ F!Wait \/ F!WaitReturn
         \/ UNCHANGED <<plan, fetchVars>>
  PROVE  F!FetcherInv'
<1>1. ASSUME NEW t \in Tasks,
             F!FetchFails(t) \/ F!Register(t) \/ F!FetchStep(t) \/ F!GetReturn(t)
      PROVE  F!FetcherInv'
  BY <1>1, FetchMoves, RegisterMoves, SendMoves, GetMoves DEF F!FetchStep
<1>2. ASSUME NEW w \in FetchWorkers, F!WorkerStep(w)
      PROVE  F!FetcherInv'
  BY <1>2, PoolMoves, TakeMoves, SetKeyMoves, FailMoves DEF F!WorkerStep
<1>3. CASE F!Stop \/ F!Wait \/ F!WaitReturn
  BY <1>3, PoolMoves
<1>4. CASE UNCHANGED <<plan, fetchVars>>
  <2>1. /\ UNCHANGED <<KeysOf(plan), keyState, waiting, blockers, waiter, fetchPc, toSend,
                       getPc, tasks, worker, held, fetchErr, waitPc>>
        /\ F!TypeOK /\ F!RegisterInv /\ F!PoolInv
    BY <1>4 DEF fetchVars, F!FetcherInv
  <2>2. F!TypeOK' /\ F!PoolInv'
    BY <2>1 DEF F!TypeOK, F!PoolInv
  <2>3. F!RegisterInv'
    <3>1. \A u \in Tasks : /\ F!Missing(u)' = F!Missing(u)
                           /\ F!Registered(u)' = F!Registered(u)
                           /\ F!Needs(u)' = F!Needs(u)
      BY <2>1 DEF F!Missing, F!Registered, F!Needs
    <3> QED  BY <2>1, <3>1 DEF F!RegisterInv, F!stopped
  <2> QED  BY <2>1, <2>2, <2>3, KeysAlone DEF F!stopped
<1> QED  BY <1>1, <1>2, <1>3, <1>4

-----------------------------------------------------------------------------
(* executeTxs: the executor and the fetcher together.                        *)

LEMMA BlockInit == Start0 => OrderedInv /\ ExecuteTxsInv
<1> SUFFICES ASSUME Start0 PROVE OrderedInv /\ ExecuteTxsInv
  OBVIOUS
<1>1. Init /\ F!Init /\ rejected \subseteq MayReject /\ pc = "next" /\ verdict = "nil"
  BY DEF Start0
<1>2. OrderedInv
  BY <1>1, InitInv
<1>3. F!TypeOK
  <2>1. Cardinality({}) = 0 /\ Cardinality(Tasks) \in Nat
    BY FS_EmptySet, TaskSets
  <2>2. /\ tasks = {} /\ Cardinality(tasks) <= Cardinality(Tasks)
    BY <1>1, <2>1 DEF F!Init
  <2> QED  BY <1>1, <2>2, SameCount DEF F!Init, F!TypeOK
<1>4. \A t \in Tasks : F!Registered(t) = {}
  BY <1>1 DEF F!Init, F!Registered
<1>5. F!RegisterInv
  <2>1. \A t \in Tasks : /\ blockers[t] = 0 /\ waiter[t] = "nil" /\ fetchPc[t] = "new"
                         /\ toSend[t] = {} /\ getPc[t] = "none"
    BY <1>1 DEF F!Init
  <2> QED  BY <1>4, <2>1, SameCount, FS_EmptySet DEF F!RegisterInv
<1>6. F!PoolInv /\ F!StorageIsComplete /\ F!BlockersExact
  BY <1>1 DEF F!Init, F!PoolInv, F!StorageIsComplete, F!BlockersExact
<1>7. F!FetchedOnce
  <2> SUFFICES ASSUME NEW k \in Keys PROVE keyState[k] = "unknown" /\ F!Places(k) = 0
    BY DEF F!FetchedOnce
  <2>1. F!Sending(k) = {} /\ F!Reading(k) = {} /\ k \notin tasks /\ keyState[k] = "unknown"
    BY <1>1 DEF F!Init, F!Sending, F!Reading
  <2> QED  BY <2>1, PlacesAre, FS_EmptySet
<1>8. CallsInv /\ VerdictIsExact
  BY <1>1, FetchAssumption, SizeAssumption
     DEF Init, F!Init, CallsInv, VerdictIsExact, Returned
<1> QED  BY <1>2, <1>3, <1>5, <1>6, <1>7, <1>8 DEF ExecuteTxsInv, F!FetcherInv

(* The executor goes its own ways, but for a task that fails because its     *)
(* keys cannot be read.                                                      *)
LEMMA BlockOrder == OrderedInv /\ [BlockNext]_allVars => OrderedInv'
<1> SUFFICES ASSUME OrderedInv, [BlockNext]_allVars PROVE OrderedInv'
  OBVIOUS
<1>1. CASE UNCHANGED vars
  BY <1>1, StutterInv
<1>2. CASE RunTx
  BY <1>2, RunInv, RunAdjustInv, RunFirstInv, RunReadInv, RunWriteInv DEF RunTx
<1>3. CASE Wait \/ WaitDone \/ Stop
  BY <1>3, CallerInv
<1>4. CASE ExecuteTxsStep
  BY <1>1, <1>2, <1>3, <1>4
     DEF ExecuteTxsStep, RejectTx, RejectReturns, FetchTx, FetchError, FetcherWait,
         FetcherWaitReturns, ExecutorWait, ExecutorWaitReturns
<1>5. ASSUME NEW t \in Tasks, RunTask(t)
      PROVE  OrderedInv'
  <2>1. CASE Get(t)
    BY <1>1, <2>1 DEF Get
  <2>2. CASE Execute(t)
    BY <2>2, FinishInv DEF Execute
  <2>3. CASE GetFails(t)
    <3>1. err' \in {"nil", "task", "stopped"}
      BY <2>3 DEF GetFails, OrderedInv, TypeOK
    <3> QED  BY <2>3, <3>1, ReturnInv DEF GetFails
  <2>4. CASE Start(t) \/ Release(t) \/ \E u \in Tasks : ClearReading(t, u)
    BY <2>4, StartInv, ReleaseStep, ClearReadingInv
  <2> QED  BY <1>5, <2>1, <2>2, <2>3, <2>4 DEF RunTask
<1>6. ASSUME NEW w \in FetchWorkers, FetchWorker(w)
      PROVE  OrderedInv'
  BY <1>1, <1>6 DEF FetchWorker
<1>7. UNCHANGED allVars => UNCHANGED vars
  BY DEF allVars
<1> QED  BY <1>1, <1>4, <1>5, <1>6, <1>7 DEF BlockNext

(* Each step is one of the fetcher, or leaves it alone.                      *)
LEMMA BlockFetches == OrderedInv /\ F!FetcherInv /\ [BlockNext]_allVars => F!FetcherInv'
<1> SUFFICES ASSUME OrderedInv, F!FetcherInv, [BlockNext]_allVars PROVE F!FetcherInv'
  OBVIOUS
<1>1. CASE UNCHANGED <<plan, fetchVars>>
  BY <1>1, FetcherStep
<1>2. UNCHANGED vars => UNCHANGED plan
  BY DEF vars
<1>3. CASE RejectTx \/ RejectReturns \/ FetchError
  BY <1>1, <1>2, <1>3, FetcherStep DEF RejectTx, RejectReturns, FetchError, Stop
<1>4. CASE FetchTx
  <2>1. current + 1 \in Tasks
    BY <1>4, SizeAssumption DEF FetchTx, Loop, OrderedInv, TypeOK
  <2> QED  BY <1>4, <2>1, FetcherStep DEF FetchTx, Next0
<1>5. CASE RunTx
  BY <1>1, <1>5 DEF RunTx, Run, RunAdjust, RunFirst, RunRead, RunWrite
<1>6. CASE FetcherWait \/ FetcherWaitReturns
  BY <1>6, FetcherStep DEF FetcherWait, FetcherWaitReturns
<1>7. CASE ExecutorWait \/ ExecutorWaitReturns
  BY <1>1, <1>7 DEF ExecutorWait, ExecutorWaitReturns, Wait, WaitDone
<1>8. ASSUME NEW t \in Tasks, RunTask(t)
      PROVE  F!FetcherInv'
  <2>1. CASE Get(t)
    BY <2>1, FetcherStep DEF Get
  <2>2. CASE UNCHANGED fetchVars
    BY <1>1, <1>8, <2>2
       DEF RunTask, Get, Execute, GetFails, Finish, Start, Release, ClearReading, vars
  <2> QED  BY <1>8, <2>1, <2>2 DEF RunTask, Execute, GetFails
<1>9. ASSUME NEW w \in FetchWorkers, FetchWorker(w)
      PROVE  F!FetcherInv'
  BY <1>9, FetcherStep DEF FetchWorker
<1>10. UNCHANGED allVars => UNCHANGED <<plan, fetchVars>>
  BY DEF allVars, vars
<1> QED  BY <1>1, <1>3, <1>4, <1>5, <1>6, <1>7, <1>8, <1>9, <1>10
         DEF BlockNext, ExecuteTxsStep

(* What a step of the goroutine, of a task or of the fetcher changes of what *)
(* the others rely on.                                                       *)
LEMMA CallsStep ==
  ASSUME OrderedInv, F!FetcherInv, CallsInv, VerdictIsExact, [BlockNext]_allVars
  PROVE  CallsInv' /\ VerdictIsExact'
<1>1. /\ TypeOK /\ ReleaseInv /\ F!TypeOK /\ F!RegisterInv /\ F!PoolInv
      /\ current \in Nat /\ current <= N /\ N \in Nat
      /\ 1 .. current \subseteq Tasks
  BY SizeAssumption DEF OrderedInv, TypeOK, F!FetcherInv
<1>types. /\ fetchPc \in [Tasks -> {"new", "send", "fetched", "failed"}]
          /\ getPc \in [Tasks -> {"none", "storage", "error"}]
          /\ taskPc \in [Tasks -> {"none", "run", "clear", "done"}]
          /\ err \in {"nil", "task", "stopped"} /\ fetchErr \in {"nil", "read", "stopped"}
  BY <1>1 DEF TypeOK, F!TypeOK
<1>2. CASE UNCHANGED allVars
  BY <1>2 DEF allVars, vars, caller, work, fetchVars, CallsInv, VerdictIsExact, Returned, Done
<1>3. CASE RejectTx
  <2>1. /\ UNCHANGED <<failing, runPc, current, taskPc, err, rejected, verdict, fetchPc,
                       getPc, waitPc>>
        /\ pc = "next" /\ pc' = "stop" /\ rejected # {}
        /\ fetchErr' \in {fetchErr, "stopped"} /\ (fetchErr # "nil" => fetchErr' = fetchErr)
    BY <1>3 DEF RejectTx, Loop, F!Stop, F!HandleErr, F!stopped, F!index, F!calls, F!pool,
                fetchVars, vars, caller, work
  <2> QED  BY <1>types, <2>1 DEF CallsInv, VerdictIsExact, Returned
<1>4. CASE RejectReturns
  <2>1. /\ UNCHANGED <<failing, runPc, current, taskPc, rejected, fetchErr, fetchPc, getPc,
                       waitPc>>
        /\ pc = "stop" /\ pc' = "returned" /\ verdict' = "rejected"
        /\ IF err = "nil" THEN err' = "stopped" ELSE err' = err
    BY <1>4 DEF RejectReturns, Return, Stop, fetchVars, vars, caller, work
  <2> QED  BY <2>1 DEF CallsInv, VerdictIsExact, Returned
<1>5. CASE FetchTx
  <2>1. /\ UNCHANGED <<failing, runPc, current, taskPc, err, rejected, pc, verdict, getPc,
                       fetchErr, waitPc>>
        /\ current + 1 \in Tasks /\ current + 1 \notin rejected
        /\ \A t \in Tasks : t # current + 1 => fetchPc'[t] = fetchPc[t]
    <3>1. /\ UNCHANGED <<vars, rejected, pc, verdict, getPc, fetchErr, waitPc>>
          /\ Loop /\ current + 1 \notin rejected
          /\ \E s \in {"send", "fetched", "failed", fetchPc[current + 1]} :
                fetchPc' = [fetchPc EXCEPT ![current + 1] = s]
      BY <1>5, <1>types DEF FetchTx, Next0, F!FetchFails, F!Register, F!RegisterWith,
            F!FetchStep, F!Send, F!SendStopped, F!FetchReturns
    <3> QED  BY <1>1, <1>types, <3>1 DEF Loop, vars, caller, work
  <2> QED  BY <1>1, <1>types, <2>1 DEF CallsInv, VerdictIsExact, Returned, Done
<1>6. CASE FetchError
  <2>1. /\ UNCHANGED <<failing, runPc, current, taskPc, err, rejected, fetchPc, getPc, fetchErr,
                       waitPc>>
        /\ pc = "next" /\ pc' = "returned" /\ verdict' = "fetch"
        /\ current + 1 \in Tasks /\ fetchPc[current + 1] = "failed"
    BY <1>1, <1>6 DEF FetchError, Loop, Next0, Return, fetchVars, vars, caller, work
  <2>2. fetchErr = "read"
    BY <1>1, <1>types, <2>1 DEF CallsInv, F!RegisterInv, F!stopped
  <2> QED  BY <2>1, <2>2 DEF CallsInv, VerdictIsExact, Returned
<1>7. CASE RunTx
  <2>1. /\ UNCHANGED <<failing, taskPc, err, rejected, pc, verdict, fetchPc, getPc, fetchErr,
                       waitPc>>
        /\ pc = "next"
        /\ current' = current \/ (current' = current + 1 /\ fetchPc[current'] = "fetched")
    BY <1>7 DEF RunTx, Loop, Next0, Run, RunAdjust, RunFirst, RunRead, RunWrite, work, fetchVars
  <2>2. \A t \in Tasks : t <= current' => fetchPc[t] = "fetched"
    BY <1>1, <2>1 DEF CallsInv
  <2> QED  BY <2>1, <2>2 DEF CallsInv, VerdictIsExact, Returned
<1>8. CASE FetcherWait
  <2>1. /\ UNCHANGED <<failing, runPc, current, taskPc, err, rejected, verdict, fetchPc, getPc,
                       fetchErr>>
        /\ pc = "next" /\ pc' = "fetcher" /\ runPc = "idle" /\ current = N
    BY <1>8 DEF FetcherWait, F!Wait, F!calls, vars, caller, work
  <2> QED  BY <2>1 DEF CallsInv, VerdictIsExact, Returned
<1>9. CASE FetcherWaitReturns
  <2>1. /\ UNCHANGED <<failing, runPc, current, taskPc, err, rejected, fetchPc, getPc, fetchErr>>
        /\ pc = "fetcher" /\ waitPc' = "done"
        /\ IF fetchErr = "nil" THEN pc' = "executor" /\ verdict' = verdict
                               ELSE pc' = "returned" /\ verdict' = "fetch"
    BY <1>9 DEF FetcherWaitReturns, Return, F!WaitReturn, F!calls, vars, caller, work
  <2> QED  BY <1>types, <2>1 DEF CallsInv, VerdictIsExact, Returned
<1>10. CASE ExecutorWait
  <2>1. /\ UNCHANGED <<failing, current, taskPc, err, rejected, pc, verdict, fetchPc, getPc,
                       fetchErr, waitPc>>
        /\ pc = "executor" /\ runPc' = "waiting"
    BY <1>10 DEF ExecutorWait, Wait, work, fetchVars
  <2> QED  BY <2>1 DEF CallsInv, VerdictIsExact, Returned
<1>11. CASE ExecutorWaitReturns
  <2>1. /\ UNCHANGED <<failing, current, taskPc, err, rejected, fetchPc, getPc, fetchErr, waitPc>>
        /\ pc = "executor" /\ pc' = "returned" /\ verdict' = err /\ runPc' = "done"
        /\ Outstanding = {}
    BY <1>11 DEF ExecutorWaitReturns, Return, WaitDone, work, fetchVars
  <2>2. current = N /\ fetchErr = "nil" /\ waitPc = "done" /\ err \in {"nil", "task"}
    BY <1>types, <2>1 DEF CallsInv
  <2>3. \A t \in Tasks : Done(t) /\ Returned(t) /\ fetchPc[t] = "fetched"
    BY <1>1, <2>1, <2>2 DEF Outstanding, CallsInv, Done, Returned
  <2>4. err = "nil" => rejected = {} /\ failing = {} /\ \A t \in Tasks : getPc[t] = "storage"
    BY <1>1, <2>3 DEF CallsInv, TypeOK
  <2>5. VerdictIsExact'
    BY <2>1, <2>2, <2>3, <2>4 DEF CallsInv, VerdictIsExact, Done
  <2>6. CallsInv'
    BY <2>1, <2>2 DEF CallsInv, Returned
  <2> QED  BY <2>5, <2>6
<1>12. ASSUME NEW t \in Tasks, Get(t)
       PROVE  CallsInv' /\ VerdictIsExact'
  <2>1. /\ UNCHANGED <<failing, runPc, current, taskPc, err, rejected, pc, verdict, fetchPc,
                       fetchErr, waitPc>>
        /\ getPc[t] = "none" /\ \A u \in Tasks : u # t => getPc'[u] = getPc[u]
    BY <1>types, <1>12 DEF Get, F!GetReturn, F!GetStorage, F!GetError, F!GetStep, vars,
                           caller, work
  <2>2. \A u \in Tasks : getPc[u] = "storage" => getPc'[u] = "storage"
    BY <2>1
  <2> QED  BY <2>1, <2>2 DEF CallsInv, VerdictIsExact, Returned, Done
<1>13. ASSUME NEW t \in Tasks, Execute(t) \/ GetFails(t)
       PROVE  CallsInv' /\ VerdictIsExact'
  <2>1. /\ UNCHANGED <<failing, runPc, current, rejected, pc, verdict, fetchPc, getPc,
                       fetchErr, waitPc>>
        /\ taskPc[t] = "run" /\ taskPc' = [taskPc EXCEPT ![t] = "clear"]
        /\ \/ /\ getPc[t] = "storage"
              /\ err' = IF t \in failing /\ err = "nil" THEN "task" ELSE err
           \/ getPc[t] = "error" /\ err' = IF err = "nil" THEN "task" ELSE err
    BY <1>13 DEF Execute, GetFails, Finish, caller, fetchVars
  <2>2. /\ getPc[t] = "error" => fetchErr # "nil"
        /\ \A u \in Tasks : Returned(u)' <=> Returned(u) \/ u = t
        /\ ~Done(t) /\ \A u \in Tasks : Done(u)' = Done(u)
    BY <1>1, <1>types, <2>1 DEF F!RegisterInv, F!stopped, Returned, Done
  <2>3. VerdictIsExact'
    BY <2>1, <2>2 DEF VerdictIsExact
  <2>4. CallsInv'
    BY <1>types, <2>1, <2>2 DEF CallsInv
  <2> QED  BY <2>3, <2>4
<1>14. ASSUME NEW t \in Tasks, Start(t) \/ Release(t) \/ (\E u \in Tasks : ClearReading(t, u)),
              UNCHANGED <<rejected, pc, verdict, fetchVars>>
       PROVE  CallsInv' /\ VerdictIsExact'
  <2>1. /\ UNCHANGED <<failing, runPc, current, err, rejected, pc, verdict, fetchPc, getPc,
                       fetchErr, waitPc>>
        /\ \/ UNCHANGED taskPc
           \/ t \in executable /\ taskPc' = [taskPc EXCEPT ![t] = IF err = "nil" THEN "run" ELSE "clear"]
           \/ taskPc[t] = "clear" /\ taskPc' = [taskPc EXCEPT ![t] = "done"]
    BY <1>14 DEF Start, Take, Release, ClearReading, caller, work, fetchVars
  <2>2. t \in executable => taskPc[t] = "none"
    BY <1>1 DEF ReleaseInv, Started
  <2>3. /\ \A u \in Tasks : Done(u) => Done(u)'
        /\ err = "nil" => \A u \in Tasks : Returned(u)' = Returned(u)
    <3>1. ASSUME NEW u \in Tasks, u # t PROVE taskPc'[u] = taskPc[u]
      BY <1>types, <2>1, <3>1
    <3>2. \/ taskPc'[t] = taskPc[t]
          \/ taskPc[t] = "none" /\ taskPc'[t] \in {"run", "clear"}
                               /\ (err = "nil" => taskPc'[t] = "run")
          \/ taskPc[t] = "clear" /\ taskPc'[t] = "done"
      BY <1>types, <2>1, <2>2
    <3> QED  BY <3>1, <3>2 DEF Done, Returned
  <2> QED  BY <2>1, <2>3 DEF CallsInv, VerdictIsExact
<1>15. ASSUME NEW w \in FetchWorkers, FetchWorker(w)
       PROVE  CallsInv' /\ VerdictIsExact'
  <2>1. /\ UNCHANGED <<failing, runPc, current, taskPc, err, rejected, pc, verdict, fetchPc,
                       getPc, waitPc>>
        /\ fetchErr' = fetchErr \/ (fetchErr = "nil" /\ waitPc # "done" /\ fetchErr' = "read")
    BY <1>15 DEF FetchWorker, F!WorkerStep, F!WorkerReturns, F!TakeTask, F!SetKey, F!ReadFails,
                 F!HandleErr, F!calls, vars, caller, work
  <2> QED  BY <2>1 DEF CallsInv, VerdictIsExact, Returned, Done
<1> QED  BY <1>2, <1>3, <1>4, <1>5, <1>6, <1>7, <1>8, <1>9, <1>10, <1>11, <1>12, <1>13,
            <1>14, <1>15
         DEF BlockNext, ExecuteTxsStep, RunTask

LEMMA BlockInvariant == BlockSpec => [](OrderedInv /\ ExecuteTxsInv)
<1>1. OrderedInv /\ ExecuteTxsInv /\ [BlockNext]_allVars => (OrderedInv /\ ExecuteTxsInv)'
  BY BlockOrder, BlockFetches, CallsStep DEF ExecuteTxsInv
<1> QED  BY <1>1, BlockInit, PTL DEF BlockSpec

(* Also where executeTxs drives the executor, with a fetcher that may stop   *)
(* the tasks, conflicting transactions run in the order of the block.        *)
THEOREM BlockInOrder == BlockSpec => []ConflictOrder
<1>1. OrderedInv => ConflictOrder
  BY DEF OrderedInv
<1> QED  BY <1>1, BlockInvariant, PTL

(* Each transaction runs on all of its keys, each key is fetched once, and   *)
(* the error that executeTxs returns is the one that happened: a block is    *)
(* accepted only if every transaction passed and was executed.               *)
THEOREM BlockVerdict == BlockSpec => []ExecuteTxsInv
<1> QED  BY BlockInvariant, PTL
=============================================================================
