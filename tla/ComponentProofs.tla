--------------------------- MODULE ComponentProofs ----------------------------
(***************************************************************************)
(* Three components: two that the execution of a block uses, and the one   *)
(* that tells the outside world of accepted blocks.                        *)
(*                                                                         *)
(* Temporary views, for all keys, values and scopes: ViewInv is inductive, *)
(* so a rollback restores the pending changes whatever operations and      *)
(* rollbacks came before it, and the write log agrees with them.           *)
(*                                                                         *)
(* The verification of signatures, for any number of blocks, signatures    *)
(* and workers, any size of the queue and of the batches: the invariant of *)
(* the pool and of the batches is inductive, so that a nil result means    *)
(* that every signature of the block was verified.  The argument follows a *)
(* signature from Add through the batch to a task, and the task through    *)
(* the scheduler to a worker: at each of these places an invariant says    *)
(* that none is lost, and the count of the tasks tells the scheduler when  *)
(* it has waited for all of them.                                          *)
(*                                                                         *)
(* Publication, for any number of connections, transactions, blocks and    *)
(* crashes: what has been sent to a connection is one stream, cut into     *)
(* what has arrived, the batches of its queue and its pending messages.    *)
(* The steps of the buffer move the cuts or lose a batch, and a message is *)
(* added only at the end, after all those it has to follow.  The index is  *)
(* described by the heights it has, in memory and on disk, and those it    *)
(* has missed.                                                             *)
(***************************************************************************)
EXTENDS TStateView, AuthBatch, Publication, FiniteSetTheorems, SequenceTheorems, TLAPS

-----------------------------------------------------------------------------
(* Temporary state views                                                     *)

LEMMA InitInv == ViewInit => ViewInv
<1> SUFFICES ASSUME ViewInit PROVE ViewInv
  OBVIOUS
<1>1. /\ hist = <<EmptyView>> /\ Len(hist) = 1 /\ hist[1] = EmptyView
      /\ ops = <<>> /\ Len(ops) = 0
  BY DEF ViewInit
<1>2. EmptyView \in Snapshot
  BY DEF EmptyView, Snapshot, Change
<1>3. View = EmptyView
  BY DEF ViewInit, View, EmptyView
<1>4. \A k \in Keys : Parent(k) # Unset
  BY DistinctAssumption DEF ViewInit, Parent
<1>5. TypeOK
  BY <1>1, <1>2, <1>3, BoundAssumption DEF ViewInit, TypeOK, Change, NoRollback
<1>6. RollbackRestores /\ UndoInv /\ AllocatesBounded
  BY <1>1 DEF ViewInit, RollbackRestores, UndoInv, AllocatesBounded, EmptyView
<1>7. WritesMatchChanges /\ HistInv
  BY <1>1, <1>4, DistinctAssumption
     DEF ViewInit, WritesMatchChanges, HistInv, Consistent, EmptyView
<1> QED  BY <1>5, <1>6, <1>7 DEF ViewInv

(* An operation that changes one key and logs how to go back.                *)
LEMMA LoggedStep ==
  ASSUME ViewInv,
         NEW k \in Keys, NEW c \in Change,
         NEW w \in {Unset, "deleted", "written"}, NEW a \in BOOLEAN,
         NEW o \in Op,
         Len(ops) < MaxOps, restorePoint = NoRollback,
         pending' = [pending EXCEPT ![k] = c],
         writes' = [writes EXCEPT ![k] = w],
         allocates' = [allocates EXCEPT ![k] = a],
         ops' = Append(ops, o), Logged,
         UNCHANGED <<parent, restorePoint>>,
         o.k = k, PastChange(o) = pending[k],
         c # Parent(k), w = Unset <=> c = Unset, w = "deleted" <=> c = None,
         a => c \in Values,
         o.pastWrites = "deleted" => o.t = "create",
         o.pastWrites = "written" => o.t # "create" /\ o.pastV \in Values,
         o.t = "create" => pending[k] \notin Values,
         o.t = "remove" => ~a,
         o.pastAllocates => allocates[k],
         a => allocates[k] \/ o.t = "create"
  PROVE  ViewInv'
<1> DEFINE n == Len(ops)
<1>1. TypeOK /\ n \in Nat /\ Len(hist) = n + 1 /\ hist \in Seq(Snapshot)
  BY DEF ViewInv, TypeOK
<1>2. /\ pending \in [Keys -> Change] /\ allocates \in [Keys -> BOOLEAN]
      /\ writes \in [Keys -> {Unset, "deleted", "written"}]
  BY <1>1 DEF TypeOK, View, Snapshot
<1>3. /\ pending' \in [Keys -> Change] /\ allocates' \in [Keys -> BOOLEAN]
      /\ writes' \in [Keys -> {Unset, "deleted", "written"}]
  BY <1>2
<1> DEFINE V == [pending |-> pending', allocates |-> allocates',
                 writes |-> writes']
<1>4. V \in Snapshot /\ hist' = Append(hist, V) /\ View' = V
  BY <1>3 DEF Logged, View, Snapshot
<1>5. V.pending = pending' /\ V.allocates = allocates'
  OBVIOUS
<1> HIDE DEF V
<1>6. /\ Len(ops') = n + 1 /\ Len(hist') = n + 2
      /\ hist'[n + 2] = V /\ ops'[n + 1] = o
      /\ \A i \in 1 .. n + 1 : hist'[i] = hist[i]
      /\ \A i \in 1 .. n : ops'[i] = ops[i]
      /\ hist' \in Seq(Snapshot) /\ ops' \in Seq(Op)
  BY <1>1, <1>4 DEF TypeOK
<1>7. \A j \in Keys : Parent(j)' = Parent(j)
  BY DEF Parent, parent
<1>8. TypeOK'
  <2>1. /\ storage' = storage /\ changedKeys' = changedKeys
        /\ allocatable' = allocatable /\ restorePoint' = restorePoint
    BY DEF parent
  <2>2. Len(ops') <= MaxOps
    BY <1>1, <1>6, BoundAssumption
  <2> QED  BY <1>1, <1>4, <1>6, <2>1, <2>2 DEF TypeOK
<1>9. RollbackRestores'
  BY <1>5, <1>6 DEF RollbackRestores
<1>10. WritesMatchChanges'
  <2> SUFFICES ASSUME NEW j \in Keys
               PROVE  /\ writes'[j] = Unset <=> pending'[j] = Unset
                      /\ writes'[j] = "deleted" <=> pending'[j] = None
                      /\ allocates'[j] => pending'[j] \in Values
    BY DEF WritesMatchChanges
  <2>1. CASE j = k
    BY <1>2, <2>1
  <2>2. CASE j # k
    BY <1>2, <2>2 DEF ViewInv, WritesMatchChanges
  <2> QED  BY <2>1, <2>2
<1>11. /\ hist[n + 1].pending = pending
       /\ \A j \in Keys : allocates[j] => hist[n + 1].allocates[j]
       /\ \A j \in Keys : /\ pending[j] # Parent(j)
                          /\ hist[n + 1].allocates[j] => pending[j] \in Values
  BY <1>1 DEF ViewInv, RollbackRestores, AllocatesBounded, HistInv, Consistent
<1>12. UndoInv'
  <2>1. Undoes(o, hist[n + 1], V)
    <3>1. pending = [pending' EXCEPT ![k] = pending[k]]
      BY <1>2
    <3>2. \A j \in Keys : allocates'[j] =>
              hist[n + 1].allocates[j] \/ (o.t = "create" /\ k = j)
      BY <1>2, <1>11
    <3>3. allocates'[k] = a
      BY <1>2
    <3> QED  BY <1>5, <1>11, <3>1, <3>2, <3>3 DEF Undoes
  <2> SUFFICES ASSUME NEW i \in 1 .. n + 1
               PROVE  Undoes(ops'[i], hist'[i], hist'[i + 1])
    BY <1>6 DEF UndoInv, Undoes, PastChange
  <2>2. CASE i \in 1 .. n
    <3>1. ops'[i] = ops[i] /\ hist'[i] = hist[i] /\ hist'[i + 1] = hist[i + 1]
      BY <1>1, <1>6, <2>2
    <3>2. Undoes(ops[i], hist[i], hist[i + 1])
      BY <2>2 DEF ViewInv, UndoInv
    <3> QED  BY <3>1, <3>2
  <2>3. CASE i = n + 1
    <3>1. ops'[i] = o /\ hist'[i] = hist[n + 1] /\ hist'[i + 1] = V
      BY <1>1, <1>6, <2>3
    <3> QED  BY <2>1, <3>1
  <2> QED  BY <1>1, <2>2, <2>3
<1>13. HistInv'
  <2> SUFFICES ASSUME NEW i \in 1 .. n + 2, NEW j \in Keys
               PROVE  /\ hist'[i].pending[j] # Parent(j)
                      /\ hist'[i].allocates[j] => hist'[i].pending[j] \in Values
    BY <1>6 DEF HistInv, Consistent, Parent, parent
  <2>1. CASE i \in 1 .. n + 1
    <3>1. hist'[i] = hist[i] /\ Consistent(hist[i])
      BY <1>1, <1>6, <2>1 DEF ViewInv, HistInv
    <3> QED  BY <3>1 DEF Consistent
  <2>2. CASE i = n + 2
    <3>1. hist'[i].pending = pending' /\ hist'[i].allocates = allocates'
      BY <1>5, <1>6, <2>2
    <3>2. pending[j] # Parent(j) /\ (allocates[j] => pending[j] \in Values)
      BY <1>11
    <3>3. pending'[j] # Parent(j) /\ (allocates'[j] => pending'[j] \in Values)
      BY <1>2, <3>2
    <3> QED  BY <3>1, <3>3
  <2> QED  BY <1>1, <2>1, <2>2
<1>14. AllocatesBounded'
  BY <1>5, <1>6 DEF AllocatesBounded
<1> QED  BY <1>8, <1>9, <1>10, <1>12, <1>13, <1>14 DEF ViewInv

LEMMA ParentType == TypeOK => \A k \in Keys : /\ Parent(k) \in Values \cup {None}
                                              /\ Parent(k) # Unset
  BY DistinctAssumption DEF TypeOK, Parent, Change

LEMMA OperationStep ==
  ASSUME ViewInv, NEW k \in Keys, NEW v \in Values,
         InsertExisting(k, v) \/ InsertNew(k, v) \/ RemoveKey(k)
  PROVE  ViewInv'
<1>1. /\ TypeOK /\ Ready
      /\ pending \in [Keys -> Change] /\ allocates \in [Keys -> BOOLEAN]
      /\ writes \in [Keys -> {Unset, "deleted", "written"}]
  BY DEF ViewInv, TypeOK, View, Snapshot, InsertExisting, InsertNew, RemoveKey
<1>2. Parent(k) \in Values \cup {None} /\ Parent(k) # Unset
  BY <1>1, ParentType
<1>3. Value(k) \in Values \cup {None}
  BY <1>1, <1>2 DEF Value, Overlay, Change
<1> DEFINE O(t) == [t |-> t, k |-> k, pastV |-> Value(k),
                    pastAllocates |-> allocates[k], pastWrites |-> writes[k]]
<1>4. \A t \in {"create", "insert", "remove"} : O(t) \in Op
  BY <1>1, <1>3 DEF Op
<1>5. /\ writes[k] = Unset <=> pending[k] = Unset
      /\ writes[k] = "deleted" <=> pending[k] = None
      /\ allocates[k] => pending[k] \in Values
      /\ Parent(k) # pending[k]
  BY <1>1 DEF ViewInv, WritesMatchChanges, HistInv, Consistent,
              RollbackRestores, TypeOK
<1>6. Len(ops) < MaxOps /\ restorePoint = NoRollback
  BY <1>1 DEF Ready
<1>7. CASE InsertExisting(k, v)
  <2> DEFINE same == v = Parent(k)
             c == IF same THEN Unset ELSE v
             w == IF same THEN Unset ELSE "written"
             a == ~same /\ allocates[k]
             o == O("insert")
  <2>1. Value(k) \in Values /\ pending[k] # None
    BY <1>3, <1>7, DistinctAssumption DEF InsertExisting, Value, Overlay
  <2>2. c \in Change /\ w \in {Unset, "deleted", "written"} /\ a \in BOOLEAN
    BY <1>1 DEF Change
  <2>3. PastChange(o) = pending[k]
    BY <1>5, <2>1, DistinctAssumption DEF PastChange, Value, Overlay
  <2>4. /\ pending' = [pending EXCEPT ![k] = c]
        /\ writes' = [writes EXCEPT ![k] = w]
        /\ allocates' = [allocates EXCEPT ![k] = a]
        /\ ops' = Append(ops, o) /\ Logged /\ UNCHANGED <<parent, restorePoint>>
    BY <1>7 DEF InsertExisting, SetKey, LogOp
  <2>5. /\ c # Parent(k) /\ (w = Unset <=> c = Unset)
        /\ (w = "deleted" <=> c = None) /\ (a => c \in Values)
    BY <1>2, DistinctAssumption
  <2>6. /\ o.pastWrites = "deleted" => o.t = "create"
        /\ o.pastWrites = "written" => o.t # "create" /\ o.pastV \in Values
    BY <1>5, <2>1
  <2> HIDE DEF c, w, a, same
  <2> QED
    BY <1>4, <1>6, <2>2, <2>3, <2>4, <2>5, <2>6, LoggedStep DEF a
<1>8. CASE InsertNew(k, v)
  <2> DEFINE same == v = Parent(k)
             c == IF same THEN Unset ELSE v
             w == IF same THEN Unset ELSE "written"
             a == ~same
             o == O("create")
  <2>1. pending[k] \in {None, Unset}
    BY <1>1, <1>8, DistinctAssumption DEF InsertNew, Value, Overlay, Change
  <2>2. c \in Change /\ w \in {Unset, "deleted", "written"} /\ a \in BOOLEAN
    BY DEF Change
  <2>3. PastChange(o) = pending[k] /\ o.pastWrites # "written" /\ pending[k] \notin Values
    BY <1>1, <1>5, <2>1, DistinctAssumption DEF PastChange
  <2>4. /\ pending' = [pending EXCEPT ![k] = c]
        /\ writes' = [writes EXCEPT ![k] = w]
        /\ allocates' = [allocates EXCEPT ![k] = a]
        /\ ops' = Append(ops, o) /\ Logged /\ UNCHANGED <<parent, restorePoint>>
    BY <1>8 DEF InsertNew, SetKey, LogOp
  <2>5. /\ c # Parent(k) /\ (w = Unset <=> c = Unset)
        /\ (w = "deleted" <=> c = None) /\ (a => c \in Values)
    BY <1>2, DistinctAssumption
  <2> HIDE DEF c, w, a, same
  <2> QED
    BY <1>4, <1>5, <1>6, <2>2, <2>3, <2>4, <2>5, LoggedStep
<1>9. CASE RemoveKey(k)
  <2> DEFINE o == O("remove")
  <2>1. Value(k) \in Values /\ pending[k] # None
    BY <1>3, <1>9, DistinctAssumption DEF RemoveKey, Value, Overlay
  <2>2. /\ PastChange(o) = pending[k]
        /\ o.pastWrites # "deleted"
        /\ o.pastWrites = "written" => o.t # "create" /\ o.pastV \in Values
    BY <1>5, <2>1, DistinctAssumption DEF PastChange, Value, Overlay
  <2>3. /\ ops' = Append(ops, o) /\ Logged /\ UNCHANGED <<parent, restorePoint>>
    BY <1>9 DEF RemoveKey, LogOp
  <2>4. PICK c \in {Unset, None} :
            /\ pending' = [pending EXCEPT ![k] = c]
            /\ writes' = [writes EXCEPT ![k] = IF c = Unset THEN Unset ELSE "deleted"]
            /\ allocates' = [allocates EXCEPT ![k] = FALSE]
            /\ c # Parent(k)
    <3>1. CASE allocates[k]
      BY <1>2, <1>9, <3>1 DEF RemoveKey
    <3>2. CASE ~allocates[k]
      BY <1>2, <1>9, <3>2, DistinctAssumption DEF RemoveKey, SetKey
    <3> QED  BY <3>1, <3>2
  <2> DEFINE w == IF c = Unset THEN Unset ELSE "deleted"
  <2>5. /\ c \in Change /\ w \in {Unset, "deleted", "written"}
        /\ (w = Unset <=> c = Unset) /\ (w = "deleted" <=> c = None)
    BY DistinctAssumption DEF Change
  <2> HIDE DEF w
  <2>6. writes' = [writes EXCEPT ![k] = w]
    BY <2>4 DEF w
  <2> QED
    BY <1>4, <1>5, <1>6, <2>2, <2>3, <2>4, <2>5, <2>6, LoggedStep
<1> QED  BY <1>7, <1>8, <1>9

LEMMA PrefixProperties ==
  ASSUME NEW S, NEW s \in Seq(S), NEW m \in 0 .. Len(s)
  PROVE  /\ SubSeq(s, 1, m) \in Seq(S)
         /\ Len(SubSeq(s, 1, m)) = m
         /\ \A i \in 1 .. m : SubSeq(s, 1, m)[i] = s[i]
<1>1. \A i \in 1 .. m : s[i] \in S
  OBVIOUS
<1>2. /\ SubSeq(s, 1, m) \in Seq(S)
      /\ Len(SubSeq(s, 1, m)) = IF 1 <= m THEN m - 1 + 1 ELSE 0
      /\ \A i \in 1 .. m - 1 + 1 : SubSeq(s, 1, m)[i] = s[1 + i - 1]
  BY <1>1, SubSeqProperties
<1> QED  BY <1>2

LEMMA UndoStep == ViewInv /\ Undo => ViewInv'
<1> SUFFICES ASSUME ViewInv, Undo PROVE ViewInv'
  OBVIOUS
<1> DEFINE n == Len(ops)
           o == ops[n]
<1>1. /\ TypeOK /\ n \in Nat \ {0} /\ Len(hist) = n + 1 /\ restorePoint \in 0 .. n - 1
      /\ hist \in Seq(Snapshot) /\ ops \in Seq(Op)
  BY DEF ViewInv, TypeOK, Undo
<1>2. o \in Op
  BY <1>1
<1>3. /\ pending \in [Keys -> Change] /\ allocates \in [Keys -> BOOLEAN]
      /\ writes \in [Keys -> {Unset, "deleted", "written"}]
  BY <1>1 DEF TypeOK, View, Snapshot
<1>4. /\ hist' = SubSeq(hist, 1, n) /\ Len(hist') = n
      /\ ops' = SubSeq(ops, 1, n - 1) /\ Len(ops') = n - 1
      /\ hist' \in Seq(Snapshot) /\ ops' \in Seq(Op)
      /\ \A i \in 1 .. n : hist'[i] = hist[i]
      /\ \A i \in 1 .. n - 1 : ops'[i] = ops[i]
  <2>1. hist' = SubSeq(hist, 1, n) /\ ops' = SubSeq(ops, 1, n - 1)
    BY DEF Undo
  <2>2. n \in 0 .. Len(hist) /\ n - 1 \in 0 .. Len(ops)
    BY <1>1
  <2>3. /\ Len(hist') = n /\ hist' \in Seq(Snapshot)
        /\ \A i \in 1 .. n : hist'[i] = hist[i]
    BY <1>1, <2>1, <2>2, PrefixProperties
  <2>4. /\ Len(ops') = n - 1 /\ ops' \in Seq(Op)
        /\ \A i \in 1 .. n - 1 : ops'[i] = ops[i]
    BY <1>1, <2>1, <2>2, PrefixProperties
  <2> QED  BY <2>1, <2>3, <2>4
<1>5. \A j \in Keys : Parent(j)' = Parent(j)
  BY DEF Parent, parent, Undo
<1>6. /\ hist[n + 1].pending = pending
      /\ hist[n].pending = [pending EXCEPT ![o.k] = PastChange(o)]
      /\ o.pastWrites = "deleted" => o.t = "create"
      /\ o.pastWrites = "written" => o.t # "create" /\ o.pastV \in Values
      /\ o.t = "create" => ~hist[n].allocates[o.k]
      /\ o.t = "remove" => ~hist[n + 1].allocates[o.k]
      /\ o.pastAllocates => hist[n].allocates[o.k]
      /\ \A j \in Keys : hist[n + 1].allocates[j] =>
                             hist[n].allocates[j] \/ (o.t = "create" /\ o.k = j)
      /\ \A j \in Keys : allocates[j] => hist[n + 1].allocates[j]
      /\ \A j \in Keys : hist[n].allocates[j] => hist[n].pending[j] \in Values
  <2>1. Undoes(o, hist[n], hist[n + 1]) /\ Consistent(hist[n])
    BY <1>1 DEF ViewInv, UndoInv, HistInv
  <2>2. hist[n + 1].pending = pending
    BY <1>1 DEF ViewInv, RollbackRestores
  <2>3. \A j \in Keys : allocates[j] => hist[n + 1].allocates[j]
    BY <1>1 DEF ViewInv, AllocatesBounded
  <2> QED  BY <2>1, <2>2, <2>3 DEF Undoes, Consistent
<1>7. /\ pending' = hist[n].pending
      /\ writes' = [writes EXCEPT ![o.k] = o.pastWrites]
  BY <1>6 DEF Undo
<1>8. /\ allocates' \in [Keys -> BOOLEAN]
      /\ \A j \in Keys : allocates'[j] => hist[n].allocates[j]
  <2> DEFINE b == IF o.t = "create" THEN FALSE
                  ELSE allocates[o.k] \/ (o.t = "remove" /\ o.pastAllocates)
  <2>1. allocates' = [allocates EXCEPT ![o.k] = b]
    BY <1>2, <1>3 DEF Undo, Op
  <2>2. b \in BOOLEAN /\ o.k \in Keys
    BY <1>2 DEF Op
  <2>3. b => hist[n].allocates[o.k]
    BY <1>2, <1>6 DEF Op
  <2> HIDE DEF b
  <2>4. \A j \in Keys : j # o.k => (allocates[j] => hist[n].allocates[j])
    BY <1>6
  <2> QED  BY <1>3, <2>1, <2>2, <2>3, <2>4
<1>9. View' \in Snapshot
  <2>1. pending' \in [Keys -> Change]
    <3>1. hist[n] \in Snapshot
      BY <1>1
    <3> QED  BY <1>7, <3>1 DEF Snapshot
  <2>2. writes' \in [Keys -> {Unset, "deleted", "written"}]
    BY <1>2, <1>3, <1>7 DEF Op
  <2> QED  BY <1>8, <2>1, <2>2 DEF View, Snapshot
<1>10. restorePoint' = NoRollback \/ restorePoint' \in 0 .. Len(ops') - 1
  BY <1>1, <1>4 DEF Undo
<1>11. TypeOK'
  BY <1>1, <1>4, <1>9, <1>10, BoundAssumption DEF TypeOK, Undo, parent
<1>12. RollbackRestores' /\ AllocatesBounded'
  BY <1>1, <1>4, <1>7, <1>8 DEF RollbackRestores, AllocatesBounded
<1>13. WritesMatchChanges'
  <2> SUFFICES ASSUME NEW j \in Keys
               PROVE  /\ writes'[j] = Unset <=> pending'[j] = Unset
                      /\ writes'[j] = "deleted" <=> pending'[j] = None
                      /\ allocates'[j] => pending'[j] \in Values
    BY DEF WritesMatchChanges
  <2>1. allocates'[j] => pending'[j] \in Values
    BY <1>6, <1>7, <1>8
  <2>2. CASE j # o.k
    BY <1>2, <1>3, <1>6, <1>7, <2>1, <2>2 DEF ViewInv, WritesMatchChanges, Op
  <2>3. CASE j = o.k
    <3>1. writes'[j] = o.pastWrites /\ pending'[j] = PastChange(o)
      BY <1>2, <1>3, <1>6, <1>7, <2>3 DEF Op
    <3>2. o.pastWrites \in {Unset, "deleted", "written"}
      BY <1>2 DEF Op
    <3> QED
      BY <1>6, <2>1, <3>1, <3>2, DistinctAssumption DEF PastChange
  <2> QED  BY <2>2, <2>3
<1>14. HistInv'
  <2> SUFFICES ASSUME NEW i \in 1 .. n PROVE Consistent(hist'[i])
    BY <1>4, <1>5 DEF HistInv, Consistent
  <2> QED  BY <1>1, <1>4 DEF ViewInv, HistInv
<1>15. UndoInv'
  <2> SUFFICES ASSUME NEW i \in 1 .. n - 1
               PROVE  Undoes(ops'[i], hist'[i], hist'[i + 1])
    BY <1>4 DEF UndoInv, Undoes, PastChange
  <2>1. ops'[i] = ops[i] /\ hist'[i] = hist[i] /\ hist'[i + 1] = hist[i + 1]
    BY <1>1, <1>4
  <2> QED  BY <1>1, <2>1 DEF ViewInv, UndoInv
<1> QED  BY <1>11, <1>12, <1>13, <1>14, <1>15 DEF ViewInv

(* Commit and Discard: the next transaction starts with an empty view.       *)
LEMMA NewViewStep ==
  ASSUME ViewInv, NewView, restorePoint = NoRollback,
         changedKeys' \in [Keys -> Change]
  PROVE  ViewInv'
<1>1. /\ hist' = <<EmptyView>> /\ Len(hist') = 1 /\ hist'[1] = EmptyView
      /\ ops' = <<>> /\ Len(ops') = 0 /\ restorePoint' = NoRollback
  BY DEF NewView
<1>2. View' = EmptyView /\ EmptyView \in Snapshot
  BY DEF NewView, View, EmptyView, Snapshot, Change
<1>3. TypeOK'
  BY <1>1, <1>2, BoundAssumption DEF ViewInv, TypeOK, NewView
<1>4. RollbackRestores' /\ UndoInv' /\ AllocatesBounded'
  BY <1>1 DEF NewView, RollbackRestores, UndoInv, AllocatesBounded, EmptyView
<1>5. \A k \in Keys : Parent(k)' # Unset
  BY <1>3, DistinctAssumption DEF TypeOK, Parent, Change
<1>6. WritesMatchChanges' /\ HistInv'
  BY <1>1, <1>5, DistinctAssumption
     DEF NewView, WritesMatchChanges, HistInv, Consistent, EmptyView
<1> QED  BY <1>3, <1>4, <1>6 DEF ViewInv

(* The start of a rollback, and a step that changes nothing.                 *)
LEMMA SameViewStep ==
  ASSUME ViewInv,
         UNCHANGED <<parent, pending, allocates, writes, ops, hist>>,
         restorePoint' = NoRollback \/ restorePoint' \in 0 .. Len(ops) - 1
  PROVE  ViewInv'
<1>1. /\ storage' = storage /\ changedKeys' = changedKeys
      /\ allocatable' = allocatable /\ View' = View
      /\ ops' = ops /\ hist' = hist
  BY DEF parent, View
<1>2. TypeOK'
  BY <1>1 DEF ViewInv, TypeOK, NoRollback
<1>3. RollbackRestores' /\ WritesMatchChanges' /\ AllocatesBounded'
  BY DEF ViewInv, RollbackRestores, WritesMatchChanges, AllocatesBounded
<1>4. UndoInv'
  BY <1>1 DEF ViewInv, UndoInv, Undoes, PastChange
<1>5. HistInv'
  BY <1>1 DEF ViewInv, HistInv, Consistent, Parent
<1> QED  BY <1>2, <1>3, <1>4, <1>5 DEF ViewInv

LEMMA NextInv == ViewInv /\ [ViewNext]_viewVars => ViewInv'
<1> SUFFICES ASSUME ViewInv, [ViewNext]_viewVars PROVE ViewInv'
  OBVIOUS
<1>1. CASE \E k \in Keys, v \in Values : InsertExisting(k, v) \/ InsertNew(k, v)
  BY <1>1, OperationStep
<1>2. ASSUME NEW k \in Keys, RemoveKey(k) PROVE ViewInv'
  <2>1. Value(k) # None /\ TypeOK
    BY <1>2 DEF RemoveKey, ViewInv
  <2>2. Value(k) \in Values
    BY <2>1, ParentType DEF TypeOK, View, Snapshot, Value, Overlay, Change
  <2> QED  BY <1>2, <2>2, OperationStep
<1>3. CASE \E point \in 0 .. MaxOps : Rollback(point)
  <2>1. PICK point \in 0 .. MaxOps : Rollback(point)
    BY <1>3
  <2>2. restorePoint' \in 0 .. Len(ops) - 1
    BY <2>1 DEF Rollback, ViewInv, TypeOK
  <2> QED  BY <2>1, <2>2, SameViewStep DEF Rollback
<1>4. CASE Undo
  BY <1>4, UndoStep
<1>5. CASE Commit
  <2>1. changedKeys' \in [Keys -> Change]
    BY <1>5 DEF Commit, ViewInv, TypeOK, View, Snapshot
  <2> QED  BY <1>5, <2>1, NewViewStep DEF Commit
<1>6. CASE Discard
  <2>1. changedKeys' \in [Keys -> Change]
    BY <1>6 DEF Discard, ViewInv, TypeOK
  <2> QED  BY <1>6, <2>1, NewViewStep DEF Discard
<1>7. CASE UNCHANGED viewVars
  BY <1>7, SameViewStep DEF viewVars, ViewInv, TypeOK
<1> QED  BY <1>1, <1>2, <1>3, <1>4, <1>5, <1>6, <1>7 DEF ViewNext

(* The log restores every restore point, for any keys, values and scopes:    *)
(* the invariant behind TStateView.Rollback.                                 *)
THEOREM ViewInvariant == ViewSpec => []ViewInv
<1>1. ViewInv /\ [ViewNext]_viewVars => ViewInv'
  BY NextInv
<1> QED  BY InitInv, <1>1, PTL DEF ViewSpec

(* Every variable of the view keeps its type.                                *)
THEOREM TypeCorrect == ViewSpec => []TypeOK
  BY ViewInvariant, PTL DEF ViewInv

(* TStateView.Rollback restores the pending changes of every restore point.  *)
THEOREM RollbackIsExact == ViewSpec => []RollbackRestores
  BY ViewInvariant, PTL DEF ViewInv

LEMMA ChangesReal == ViewInv => OnlyRealChanges
  BY DEF ViewInv, TypeOK, RollbackRestores, HistInv, Consistent,
         OnlyRealChanges

(* TStateView.Insert and Remove keep only real changes pending.              *)
THEOREM ChangesAreReal == ViewSpec => []OnlyRealChanges
  BY ChangesReal, ViewInvariant, PTL

(* The write log of a view agrees with its pending changes.                  *)
THEOREM WritesAreExact == ViewSpec => []WritesMatchChanges
  BY ViewInvariant, PTL DEF ViewInv

-----------------------------------------------------------------------------
(* The view implements UndoMap.                                              *)

LEMMA ViewTypes ==
  ViewInv => /\ pending \in [Keys -> Change]
             /\ \A k \in Keys : /\ Parent(k) \in Values \cup {None}
                                /\ Value(k) \in Values \cup {None}
                                /\ Parent(k) # Unset
             /\ hist \in Seq(Snapshot) /\ Len(hist) = Len(ops) + 1
             /\ Len(ops) \in Nat
             /\ pending = hist[Len(hist)].pending
<1> SUFFICES ASSUME ViewInv PROVE
             /\ pending \in [Keys -> Change]
             /\ \A k \in Keys : /\ Parent(k) \in Values \cup {None}
                                /\ Value(k) \in Values \cup {None}
                                /\ Parent(k) # Unset
             /\ hist \in Seq(Snapshot) /\ Len(hist) = Len(ops) + 1
             /\ Len(ops) \in Nat
             /\ pending = hist[Len(hist)].pending
  OBVIOUS
<1>1. TypeOK /\ RollbackRestores
  BY DEF ViewInv
<1>2. pending \in [Keys -> Change]
  BY <1>1 DEF TypeOK, View, Snapshot
<1>3. \A k \in Keys : Parent(k) \in Values \cup {None} /\ Parent(k) # Unset
  BY <1>1, ParentType
<1>4. \A k \in Keys : Value(k) \in Values \cup {None}
  BY <1>2, <1>3 DEF Value, Overlay, Change
<1> QED
  BY <1>1, <1>2, <1>3, <1>4 DEF TypeOK, RollbackRestores

(* An operation gives one key another value, and pushes the old contents.    *)
LEMMA OperationIsChange ==
  ASSUME ViewInv, NEW k \in Keys, NEW v \in Values \cup {None},
         UNCHANGED parent, Logged,
         \A j \in Keys \ {k} : pending'[j] = pending[j],
         Value(k)' = v, Value(k) # v
  PROVE  Map!Change(k, v)
<1>1. \A j \in Keys : Parent(j)' = Parent(j)
  BY DEF Parent, parent
<1>2. Contents(pending)' = [Contents(pending) EXCEPT ![k] = v]
  <2>1. ASSUME NEW j \in Keys
        PROVE  Contents(pending)'[j] = [Contents(pending) EXCEPT ![k] = v][j]
    BY <1>1 DEF Contents, Overlay, Value
  <2>2. /\ DOMAIN Contents(pending)' = Keys
        /\ DOMAIN [Contents(pending) EXCEPT ![k] = v] = Keys
    BY DEF Contents
  <2> QED
    BY <2>1, <2>2 DEF Contents
<1>3. Contents(pending)[k] # v
  BY DEF Contents, Value
<1>4. Stack' = Append(Stack, Contents(pending))
  <2> DEFINE n == Len(ops)
  <2>1. n \in Nat /\ Len(hist) = n + 1 /\ hist \in Seq(Snapshot)
        /\ hist[n + 1].pending = pending
    BY ViewTypes
  <2> HIDE DEF n
  <2>2. PICK s : hist' = Append(hist, s)
    BY DEF Logged
  <2>3. Len(hist') = n + 2 /\ \A i \in 1 .. n + 1 : hist'[i] = hist[i]
    BY <2>1, <2>2
  <2>4. \A i \in 1 .. n + 1 : Contents(hist[i].pending)' = Contents(hist[i].pending)
    BY <1>1, <2>3 DEF Contents, Overlay
  <2>5. Stack' = [i \in 1 .. n + 1 |-> Contents(hist[i].pending)]
    BY <2>1, <2>3, <2>4 DEF Stack
  <2>6. Stack = [i \in 1 .. n |-> Contents(hist[i].pending)] /\ Len(Stack) = n
    BY <2>1 DEF Stack
  <2> QED
    BY <2>1, <2>5, <2>6
<1>5. Committed' = Committed
  BY <1>1 DEF Committed
<1> QED
  BY <1>2, <1>3, <1>4, <1>5 DEF Map!Change

LEMMA UndoIsUndo == ViewInv /\ ViewInv' /\ Undo => Map!Undo
<1> SUFFICES ASSUME ViewInv, ViewInv', Undo PROVE Map!Undo
  OBVIOUS
<1> DEFINE n == Len(ops)
<1>1. /\ n \in Nat \ {0} /\ Len(hist) = n + 1 /\ hist \in Seq(Snapshot)
      /\ hist' = SubSeq(hist, 1, n)
  BY DEF ViewInv, TypeOK, Undo
<1> HIDE DEF n
<1>2. n \in 0 .. Len(hist)
  BY <1>1
<1>3. Len(hist') = n /\ \A i \in 1 .. n : hist'[i] = hist[i]
  BY <1>1, <1>2, PrefixProperties
<1>4. \A j \in Keys : Parent(j)' = Parent(j)
  BY DEF Parent, parent, Undo
<1>5. \A i \in 1 .. n : Contents(hist[i].pending)' = Contents(hist[i].pending)
  BY <1>3, <1>4 DEF Contents, Overlay
<1>6. Stack = [i \in 1 .. n |-> Contents(hist[i].pending)] /\ Len(Stack) = n
  BY <1>1 DEF Stack
<1>7. Stack' = [i \in 1 .. n - 1 |-> Contents(hist[i].pending)]
  BY <1>1, <1>3, <1>5 DEF Stack
<1>8. Stack' = SubSeq(Stack, 1, Len(Stack) - 1)
  BY <1>1, <1>6, <1>7
<1>9. pending' = hist[n].pending
  BY <1>1, <1>3 DEF ViewInv, RollbackRestores
<1>10. Contents(pending)' = Stack[Len(Stack)]
  BY <1>1, <1>4, <1>6, <1>9 DEF Contents, Overlay
<1>11. Stack # <<>>
  BY <1>1, <1>6
<1>12. Committed' = Committed
  BY <1>4 DEF Committed
<1> QED
  BY <1>8, <1>10, <1>11, <1>12 DEF Map!Undo

(* Every step of a view is a step of the map, or one it cannot see.          *)
THEOREM Refinement == ViewSpec => ImplementsMap
<1>1. ViewInit => Map!Init
  <2> SUFFICES ASSUME ViewInit PROVE Map!Init
    OBVIOUS
  <2>1. \A k \in Keys : Parent(k) = storage[k] /\ Overlay(pending, k) = storage[k]
    BY DEF ViewInit, EmptyView, Parent, Overlay
  <2>2. Stack = <<>>
    BY DEF ViewInit, Stack
  <2> QED
    BY <2>1, <2>2 DEF ViewInit, Map!Init, Contents, Committed
<1>2. ViewInv /\ ViewInv' /\ [ViewNext]_viewVars => [Map!Next]_Map!vars
  <2> SUFFICES ASSUME ViewInv, ViewInv', [ViewNext]_viewVars
               PROVE  Map!Next \/ UNCHANGED Map!vars
    OBVIOUS
  <2>1. pending \in [Keys -> Change] /\ allocates \in [Keys -> BOOLEAN]
    BY DEF ViewInv, TypeOK, View, Snapshot
  <2>2. ASSUME NEW k \in Keys, NEW v \in Values,
               InsertExisting(k, v) \/ InsertNew(k, v)
        PROVE  Map!Change(k, v)
    <3>1. /\ Value(k) # v /\ UNCHANGED parent /\ Logged
          /\ pending' = [pending EXCEPT ![k] = IF v = Parent(k) THEN Unset ELSE v]
      BY <2>2, DistinctAssumption DEF InsertExisting, InsertNew, SetKey
    <3>2. Value(k)' = v /\ \A j \in Keys \ {k} : pending'[j] = pending[j]
      BY <2>1, <3>1, DistinctAssumption DEF Value, Overlay, Parent, parent
    <3> QED
      BY <3>1, <3>2, OperationIsChange
  <2>3. ASSUME NEW k \in Keys, RemoveKey(k)
        PROVE  \E v \in Values \cup {None} : Map!Change(k, v)
    <3>1. CASE allocates[k]
      <4>1. /\ UNCHANGED parent /\ Logged /\ pending' = [pending EXCEPT ![k] = Unset]
            /\ pending[k] \in Values /\ pending[k] # Parent(k)
        <5>1. pending[k] \in Values /\ pending[k] # Parent(k)
          BY <3>1, ChangesReal DEF ViewInv, WritesMatchChanges, OnlyRealChanges
        <5> QED
          BY <2>3, <3>1, <5>1 DEF RemoveKey
      <4>2. Value(k)' = Parent(k) /\ Value(k) # Parent(k)
            /\ \A j \in Keys \ {k} : pending'[j] = pending[j]
        BY <2>1, <4>1, DistinctAssumption DEF Value, Overlay, Parent, parent
      <4>3. Parent(k) \in Values \cup {None}
        BY ViewTypes
      <4>4. Map!Change(k, Parent(k))
        BY <4>1, <4>2, <4>3, OperationIsChange
      <4> QED
        BY <4>3, <4>4
    <3>2. CASE ~allocates[k]
      <4>1. /\ UNCHANGED parent /\ Logged /\ Value(k) # None
            /\ pending' = [pending EXCEPT ![k] = IF None = Parent(k) THEN Unset ELSE None]
        BY <2>3, <3>2 DEF RemoveKey, SetKey
      <4>2. Value(k)' = None /\ \A j \in Keys \ {k} : pending'[j] = pending[j]
        BY <2>1, <4>1, DistinctAssumption DEF Value, Overlay, Parent, parent
      <4>3. Map!Change(k, None)
        BY <4>1, <4>2, OperationIsChange
      <4> QED
        BY <4>3
    <3> QED
      BY <3>1, <3>2
  <2>4. CASE Undo
    BY <2>4, UndoIsUndo DEF Map!Next
  <2>5. ASSUME NewView, Commit PROVE Map!Commit
    <3>1. \A k \in Keys : /\ Parent(k)' = Overlay(pending, k)
                          /\ Overlay(pending, k)' = Parent(k)'
      BY <2>1, <2>5 DEF Commit, NewView, EmptyView, Parent, Overlay
    <3>2. Stack' = <<>>
      BY <2>5 DEF NewView, Stack
    <3> QED
      BY <3>1, <3>2 DEF Map!Commit, Contents, Committed
  <2>6. ASSUME NewView, Discard PROVE Map!Discard
    <3>1. \A k \in Keys : /\ Parent(k)' = Parent(k)
                          /\ Overlay(pending, k)' = Parent(k)
      BY <2>6 DEF Discard, NewView, EmptyView, Parent, Overlay
    <3>2. Stack' = <<>>
      BY <2>6 DEF NewView, Stack
    <3> QED
      BY <3>1, <3>2 DEF Map!Discard, Contents, Committed
  <2>7. ASSUME UNCHANGED <<parent, pending, hist>> PROVE UNCHANGED Map!vars
    BY <2>7 DEF Map!vars, Contents, Stack, Committed, Overlay, Parent, parent
  <2>8. ASSUME NEW point \in 0 .. MaxOps, Rollback(point) PROVE UNCHANGED Map!vars
    BY <2>7, <2>8 DEF Rollback
  <2>9. CASE UNCHANGED viewVars
    BY <2>7, <2>9 DEF viewVars
  <2>10. Commit => NewView /\ Commit
    BY DEF Commit
  <2>11. Discard => NewView /\ Discard
    BY DEF Discard
  <2> QED
    BY <2>2, <2>3, <2>4, <2>5, <2>6, <2>8, <2>9, <2>10, <2>11 DEF ViewNext, Map!Next
<1>3. ViewInv /\ [ViewNext]_viewVars => ViewInv'
  BY NextInv
<1> QED
  BY <1>1, <1>2, <1>3, ViewInvariant, PTL DEF ViewSpec, ImplementsMap, Map!Spec

-----------------------------------------------------------------------------
(* Signature verification                                                    *)

-----------------------------------------------------------------------------
(* Queues and backlogs                                                       *)

LEMMA Appended ==
  ASSUME NEW S, NEW s \in Seq(S), NEW x \in S
  PROVE  /\ Append(s, x) \in Seq(S) /\ Len(Append(s, x)) = Len(s) + 1
         /\ \A k \in 1 .. Len(s) : Append(s, x)[k] = s[k]
         /\ Append(s, x)[Len(s) + 1] = x
         /\ ToSet(Append(s, x)) = ToSet(s) \cup {x}
         /\ IsInjective(s) /\ x \notin ToSet(s) => IsInjective(Append(s, x))
<1> DEFINE t == Append(s, x)
<1>1. t \in Seq(S) /\ Len(t) = Len(s) + 1
  OBVIOUS
<1>2. (\A k \in 1 .. Len(s) : t[k] = s[k]) /\ t[Len(s) + 1] = x
  OBVIOUS
<1>3. DOMAIN t = 1 .. Len(s) + 1 /\ DOMAIN s = 1 .. Len(s) /\ Len(s) \in Nat
  OBVIOUS
<1> HIDE DEF t
<1>4. ToSet(t) = ToSet(s) \cup {x}
  <2>1. ASSUME NEW y \in ToSet(t) PROVE y \in ToSet(s) \cup {x}
    BY <1>2, <1>3 DEF ToSet
  <2>2. ASSUME NEW y \in ToSet(s) PROVE y \in ToSet(t)
    BY <1>2, <1>3 DEF ToSet
  <2>3. x \in ToSet(t)
    BY <1>2, <1>3 DEF ToSet
  <2> QED  BY <2>1, <2>2, <2>3
<1>5. ASSUME IsInjective(s), x \notin ToSet(s) PROVE IsInjective(t)
  BY <1>2, <1>3, <1>5 DEF IsInjective, ToSet
<1> QED  BY <1>1, <1>2, <1>4, <1>5 DEF t

LEMMA Shortened ==
  ASSUME NEW S, NEW s \in Seq(S), s # <<>>
  PROVE  /\ Head(s) \in S /\ Tail(s) \in Seq(S)
         /\ ToSet(s) = ToSet(Tail(s)) \cup {Head(s)}
         /\ Len(Tail(s)) <= Len(s)
         /\ IsInjective(s) => IsInjective(Tail(s)) /\ Head(s) \notin ToSet(Tail(s))
<1> DEFINE t == Tail(s)
<1>1. t \in Seq(S) /\ Head(s) = s[1] /\ s[1] \in S /\ Len(s) \in Nat \ {0}
  OBVIOUS
<1>2. Len(t) = Len(s) - 1 /\ DOMAIN t = 1 .. Len(s) - 1 /\ DOMAIN s = 1 .. Len(s)
  OBVIOUS
<1>3. \A k \in 1 .. Len(s) - 1 : t[k] = s[k + 1]
  OBVIOUS
<1> HIDE DEF t
<1>4. ToSet(s) = ToSet(t) \cup {s[1]}
  <2>1. ASSUME NEW y \in ToSet(s) PROVE y \in ToSet(t) \cup {s[1]}
    <3>1. PICK k \in 1 .. Len(s) : y = s[k]
      BY <1>2 DEF ToSet
    <3>2. CASE k # 1
      <4>1. k - 1 \in 1 .. Len(s) - 1 /\ t[k - 1] = s[k]
        BY <1>1, <1>3, <3>2
      <4> QED  BY <4>1, <3>1, <1>2 DEF ToSet
    <3> QED  BY <3>1, <3>2
  <2>2. ASSUME NEW y \in ToSet(t) PROVE y \in ToSet(s)
    BY <1>1, <1>2, <1>3 DEF ToSet
  <2>3. s[1] \in ToSet(s)
    BY <1>1, <1>2 DEF ToSet
  <2> QED  BY <2>1, <2>2, <2>3
<1>5. ASSUME IsInjective(s) PROVE IsInjective(t) /\ s[1] \notin ToSet(t)
  <2>1. \A k, l \in 1 .. Len(s) - 1 : k + 1 \in 1 .. Len(s) /\ (k + 1 = l + 1 => k = l) /\ k + 1 # 1
    BY <1>1
  <2>2. IsInjective(t)
    <3>1. SUFFICES ASSUME NEW k \in 1 .. Len(s) - 1, NEW l \in 1 .. Len(s) - 1, t[k] = t[l]
                   PROVE  k = l
      BY <1>2 DEF IsInjective
    <3>2. s[k + 1] = s[l + 1]
      BY <1>3, <3>1
    <3>3. k + 1 = l + 1
      BY <2>1, <3>2, <1>2, <1>5 DEF IsInjective
    <3> QED  BY <2>1, <3>3
  <2>3. ASSUME s[1] \in ToSet(t) PROVE FALSE
    <3>1. PICK k \in 1 .. Len(s) - 1 : s[1] = t[k]
      BY <2>3, <1>2 DEF ToSet
    <3>2. 1 \in 1 .. Len(s) /\ s[k + 1] = s[1]
      BY <3>1, <1>1, <1>3
    <3> QED  BY <2>1, <3>2, <1>2, <1>5 DEF IsInjective
  <2> QED  BY <2>2, <2>3
<1> QED  BY <1>1, <1>2, <1>4, <1>5 DEF t

-----------------------------------------------------------------------------
(* What is given to the pool                                                 *)

LEMMA Positive == \A j \in Jobs : j \in Nat /\ j # Nil /\ j # NoResult /\ j # Shutdown
BY JobAssumption DEF Nil, NoResult, Shutdown

LEMMA SignatureType == \A j \in Jobs : Signatures(j) \subseteq Jobs \X Nat
BY DEF Signatures

LEMMA PlanLength == ASSUME PoolTypeOK PROVE \A j \in Jobs : Len(plan[j]) \in Nat
<1>1. plan \in [Jobs -> Seq([batch : BOOLEAN, bad : BOOLEAN])]
  BY PlanAssumption DEF PoolTypeOK
<1> QED  BY <1>1

(* The tasks of job j have grown by one, or not: those before it stay.       *)
Grown(j, task) ==
    /\ given' \in [Jobs -> Seq(SUBSET (Jobs \X Nat))]
    /\ \A i \in Jobs : ToSet(given'[i]) \subseteq SUBSET Signatures(i)
    /\ \A i \in Jobs : /\ Len(given'[i]) \in Nat /\ Len(given'[i]) >= Len(given[i])
                       /\ \A k \in 1 .. Len(given[i]) : given'[i][k] = given[i][k]
    /\ \A i \in Jobs \ {j} : given'[i] = given[i]
    /\ UNION ToSet(given'[j]) = (UNION ToSet(given[j])) \cup task

LEMMA GoGrows ==
  ASSUME PoolTypeOK, NEW j \in Jobs, NEW task, task \subseteq Signatures(j), Go(j, task)
  PROVE  Grown(j, task)
<1> DEFINE T == SUBSET (Jobs \X Nat)
<1>1. given \in [Jobs -> Seq(T)] /\ \A i \in Jobs : ToSet(given[i]) \subseteq SUBSET Signatures(i)
  BY DEF PoolTypeOK
<1>2. task \in T
  BY SignatureType
<1>3. given' = [given EXCEPT ![j] = Append(@, task)]
  BY DEF Go
<1> HIDE DEF T
<1>4. given[j] \in Seq(T)
  BY <1>1
<1>5. given'[j] = Append(given[j], task) /\ \A i \in Jobs \ {j} : given'[i] = given[i]
  BY <1>1, <1>3
<1>6. /\ Append(given[j], task) \in Seq(T)
      /\ Len(Append(given[j], task)) = Len(given[j]) + 1
      /\ \A k \in 1 .. Len(given[j]) : Append(given[j], task)[k] = given[j][k]
      /\ ToSet(Append(given[j], task)) = ToSet(given[j]) \cup {task}
  BY <1>2, <1>4, Appended
<1>7. given' \in [Jobs -> Seq(T)]
  BY <1>1, <1>3, <1>6
<1>8. ToSet(given'[j]) \subseteq SUBSET Signatures(j)
  BY <1>1, <1>5, <1>6
<1>9. \A i \in Jobs : Len(given[i]) \in Nat /\ Len(given'[i]) \in Nat
  BY <1>1, <1>7
<1>10. \A i \in Jobs : /\ Len(given'[i]) >= Len(given[i])
                       /\ \A k \in 1 .. Len(given[i]) : given'[i][k] = given[i][k]
  BY <1>5, <1>6, <1>9
<1>11. UNION ToSet(given'[j]) = (UNION ToSet(given[j])) \cup task
  BY <1>5, <1>6
<1> QED  BY <1>1, <1>5, <1>7, <1>8, <1>9, <1>10, <1>11 DEF Grown, T

LEMMA StayGrows ==
  ASSUME PoolTypeOK, NEW j \in Jobs, UNCHANGED given
  PROVE  Grown(j, {})
<1>1. \A i \in Jobs : Len(given[i]) \in Nat
  BY DEF PoolTypeOK
<1> QED  BY <1>1 DEF Grown, PoolTypeOK

(* Giving tasks changes no other part of the pool, and a caller gives none   *)
(* after Done.                                                               *)
Quiet == UNCHANGED <<plan, schedVars, sg, err, workerVars, stopVars>>

LEMMA QuietInv ==
  ASSUME AuthInv, Quiet
  PROVE  ErrorIsOwn' /\ CountInv'
BY DEF AuthInv, WorkersInv, Quiet, schedVars, workerVars, ErrorIsOwn, CountInv, Busy, Active,
       Fails, Signatures

LEMMA QuietTasks ==
  ASSUME AuthInv, Quiet, NEW j \in Jobs, NEW task, Grown(j, task),
         \A i \in Jobs : caller[i] = "closed" /\ result[i] = NoResult => caller'[i] = "closed",
         caller[j] = "closed" => given'[j] = given[j]
  PROVE  TasksInv'
<1> USE DEF AuthInv, WorkersInv, Quiet, schedVars, workerVars
<1>1. \A i \in Jobs : taken'[i] <= Len(given'[i])
  <2>1. \A i \in Jobs : taken[i] \in Nat /\ Len(given[i]) \in Nat /\ taken[i] <= Len(given[i])
    BY DEF PoolTypeOK, TasksInv
  <2> QED  BY <2>1 DEF Grown
<1>2. sched' = "sending" => taken'[cur'] > 0
  BY DEF TasksInv
<1>3. sched' = "wait" => taken'[cur'] = Len(given'[cur']) /\ caller'[cur'] = "closed"
  <2> SUFFICES ASSUME sched = "wait" PROVE taken[cur] = Len(given'[cur]) /\ caller'[cur] = "closed"
    OBVIOUS
  <2>1. cur \in Jobs /\ result[cur] = NoResult
    BY DEF QueueInv, Busy
  <2>2. taken[cur] = Len(given[cur]) /\ caller[cur] = "closed"
    BY DEF TasksInv
  <2>3. given'[cur] = given[cur]
    BY <2>1, <2>2 DEF Grown
  <2> QED  BY <2>1, <2>2, <2>3
<1>4. \A w \in Active' : held'[w] \subseteq Signatures(cur)'
  BY DEF TasksInv, Active, Signatures
<1>5. ASSUME Busy', err' = Nil, NEW k \in (1 .. Handed)'
      PROVE  given'[cur'][k] \subseteq verified' \cup UNION {held'[w] : w \in Active'}
  <2>1. Busy /\ err = Nil /\ k \in 1 .. Handed /\ cur \in Jobs
    BY <1>5 DEF Busy, Handed, QueueInv
  <2>2. taken[cur] \in Nat /\ Len(given[cur]) \in Nat /\ taken[cur] <= Len(given[cur])
    BY <2>1 DEF PoolTypeOK, TasksInv
  <2>3. k \in 1 .. Len(given[cur])
    BY <2>1, <2>2 DEF Handed
  <2>4. given'[cur][k] = given[cur][k]
    BY <2>1, <2>3 DEF Grown
  <2>5. given[cur][k] \subseteq verified \cup UNION {held[w] : w \in Active}
    BY <2>1 DEF TasksInv
  <2>6. Active' = Active
    BY DEF Active
  <2> QED  BY <2>4, <2>5, <2>6
<1> QED  BY <1>1, <1>2, <1>3, <1>4, <1>5 DEF TasksInv

-----------------------------------------------------------------------------
(* The callers                                                               *)

LEMMA SameQueue ==
  ASSUME AuthInv, Quiet, UNCHANGED queue,
         \A i \in Jobs : caller[i] \in Outside <=> caller'[i] \in Outside
  PROVE  QueueInv'
<1> USE DEF AuthInv, WorkersInv, Quiet, schedVars
<1>1. IsInjective(queue') /\ (Busy' => cur' \in Jobs /\ result'[cur'] = NoResult)
  BY DEF QueueInv, Busy
<1>2. \A i \in ToSet(queue) : i \in Jobs
  BY DEF PoolTypeOK, ToSet
<1>3. \A i \in ToSet(queue') : caller'[i] \notin Outside
  BY <1>2 DEF QueueInv
<1>4. \A i \in Jobs : i \in ToSet(queue') \/ caller'[i] \in Outside =>
          taken'[i] = 0 /\ result'[i] = NoResult /\ ~(Busy' /\ cur' = i)
  BY DEF QueueInv, Busy
<1> QED  BY <1>1, <1>3, <1>4 DEF QueueInv

LEMMA TypeStep ==
  ASSUME AuthInv, Quiet, NEW j \in Jobs, NEW task, Grown(j, task), UNCHANGED queue,
         caller' \in [Jobs -> {"new", "checked", "refused", "open", "done", "closed",
                               "returned", "panic"}]
  PROVE  PoolTypeOK'
<1>1. \A i \in Jobs : Signatures(i)' = Signatures(i)
  BY DEF Quiet, Signatures
<1>2. verified' \subseteq UNION {Signatures(i)' : i \in Jobs}
  BY <1>1 DEF AuthInv, WorkersInv, PoolTypeOK, Quiet, workerVars
<1>3. given' \in [Jobs -> Seq(SUBSET (Jobs \X Nat))]
  BY DEF Grown
<1>4. \A i \in Jobs : ToSet(given'[i]) \subseteq SUBSET Signatures(i)'
  BY <1>1 DEF Grown
<1>5. plan' = plan /\ taken' = taken /\ result' = result /\ sched' = sched /\ cur' = cur
      /\ sg' = sg /\ err' = err /\ worker' = worker /\ held' = held
      /\ shouldShutdown' = shouldShutdown /\ queueClosed' = queueClosed /\ stopper' = stopper
  BY DEF Quiet, schedVars, workerVars, stopVars
<1> QED  BY <1>2, <1>3, <1>4, <1>5 DEF AuthInv, WorkersInv, PoolTypeOK

(* A result does not change, and what is verified stays.                     *)
LEMMA SameResults ==
  ASSUME AuthInv, NilMeansVerified, UNCHANGED <<plan, result>>, verified \subseteq verified',
         \A i \in Jobs : caller[i] \in {"closed", "returned"} => caller'[i] \in {"closed", "returned"}
  PROVE  NilMeansVerified'
<1>1. \A i \in Jobs : Signatures(i)' = Signatures(i) /\ (Fails(Signatures(i))' <=> Fails(Signatures(i)))
  BY DEF Signatures, Fails
<1> QED  BY <1>1 DEF NilMeansVerified

(* A step of a caller that leaves the queue as it is keeps what the pool     *)
(* promises.                                                                 *)
Callers == {"new", "checked", "refused", "open", "done", "closed", "returned", "panic"}

LEMMA PoolQuiet ==
  ASSUME AuthInv, NilMeansVerified, Quiet, UNCHANGED queue,
         NEW j \in Jobs, NEW task, Grown(j, task), caller[j] = "closed" => given'[j] = given[j],
         NEW to \in Callers, caller' = [caller EXCEPT ![j] = to],
         caller[j] \in Outside <=> to \in Outside,
         caller[j] = "closed" => to = "closed" \/ (to = "returned" /\ result[j] # NoResult),
         caller[j] = "returned" => to = "returned"
  PROVE  WorkersInv' /\ NilMeansVerified'
<1>1. caller \in [Jobs -> Callers]
  BY DEF AuthInv, WorkersInv, PoolTypeOK, Callers
<1>2. caller' \in [Jobs -> Callers] /\ caller'[j] = to /\ \A i \in Jobs \ {j} : caller'[i] = caller[i]
  BY <1>1
<1>3. PoolTypeOK'
  BY <1>2, TypeStep DEF Callers
<1>4. ErrorIsOwn' /\ CountInv'
  BY QuietInv
<1>5. QueueInv'
  <2>1. \A i \in Jobs : caller[i] \in Outside <=> caller'[i] \in Outside
    BY <1>2
  <2> QED  BY <2>1, SameQueue
<1>6. TasksInv'
  <2>1. \A i \in Jobs : caller[i] = "closed" /\ result[i] = NoResult => caller'[i] = "closed"
    BY <1>2
  <2> QED  BY <2>1, QuietTasks
<1>7. NilMeansVerified'
  <2>1. \A i \in Jobs : caller[i] \in {"closed", "returned"} => caller'[i] \in {"closed", "returned"}
    BY <1>2
  <2> QED  BY <2>1, SameResults DEF Quiet, schedVars, workerVars
<1> QED  BY <1>3, <1>4, <1>5, <1>6, <1>7 DEF WorkersInv

(* One signature.                                                            *)
LEMMA AddInv ==
  ASSUME AuthInv, NilMeansVerified, NEW j \in Jobs, Add(j)
  PROVE  AuthInv' /\ NilMeansVerified'
<1> DEFINE sig == <<j, added[j] + 1>>
<1>1. Quiet /\ UNCHANGED <<queue, caller, done, bv>> /\ caller[j] = "open" /\ added[j] < Len(plan[j])
  BY DEF Add, Rest, Quiet
<1>2. added \in [Jobs -> Nat] /\ added[j] \in Nat /\ Len(plan[j]) \in Nat
      /\ \A i \in Jobs : added[i] <= Len(plan[i])
  BY PlanLength DEF AuthInv, WorkersInv, PoolTypeOK, BatchTypeOK
<1>3. sig \in Signatures(j)
  BY <1>1, <1>2 DEF Signatures
<1>4. added' = [added EXCEPT ![j] = @ + 1]
  BY DEF Add
<1>5. \/ items' = [items EXCEPT ![j] = Append(@, sig)] /\ UNCHANGED given
      \/ Go(j, {sig}) /\ UNCHANGED items
  BY DEF Add
<1> HIDE DEF sig
<1>6. \/ items' = [items EXCEPT ![j] = Append(@, sig)] /\ Grown(j, {})
      \/ items' = items /\ Grown(j, {sig})
  BY <1>3, <1>5, GoGrows, StayGrows DEF AuthInv, WorkersInv
<1>7. PICK task : Grown(j, task)
  BY <1>6
<1>8. caller \in [Jobs -> Callers] /\ "open" \in Callers /\ "open" \notin Outside
  BY DEF AuthInv, WorkersInv, PoolTypeOK, Callers, Outside
<1>9. WorkersInv' /\ NilMeansVerified'
  BY <1>1, <1>7, <1>8, PoolQuiet
<1>10. items \in [Jobs -> Seq(Jobs \X Nat)] /\ sig \in Jobs \X Nat
  BY <1>3, SignatureType DEF AuthInv, BatchTypeOK
<1>11. /\ items' \in [Jobs -> Seq(Jobs \X Nat)]
       /\ \A i \in Jobs \ {j} : items'[i] = items[i]
       /\ \/ ToSet(items'[j]) = ToSet(items[j]) \cup {sig} /\ Grown(j, {})
          \/ ToSet(items'[j]) = ToSet(items[j]) /\ Grown(j, {sig})
  <2>1. CASE items' = items /\ Grown(j, {sig})
    BY <2>1, <1>10
  <2>2. CASE items' = [items EXCEPT ![j] = Append(@, sig)] /\ Grown(j, {})
    <3>1. items[j] \in Seq(Jobs \X Nat)
      BY <1>10
    <3>2. PICK s \in Seq(Jobs \X Nat) : s = items[j]
      BY <3>1
    <3>3. PICK x \in Jobs \X Nat : x = sig
      BY <1>10
    <3>4. Append(s, x) \in Seq(Jobs \X Nat) /\ ToSet(Append(s, x)) = ToSet(s) \cup {x}
      BY Appended
    <3>5. /\ Append(items[j], sig) \in Seq(Jobs \X Nat)
          /\ ToSet(Append(items[j], sig)) = ToSet(items[j]) \cup {sig}
      BY <3>2, <3>3, <3>4
    <3> QED  BY <2>2, <3>5, <1>10
  <2> QED  BY <1>6, <2>1, <2>2
<1>12. /\ added' \in [Jobs -> Nat] /\ added'[j] = added[j] + 1
       /\ \A i \in Jobs \ {j} : added'[i] = added[i]
       /\ \A i \in Jobs : added'[i] <= Len(plan[i])
  BY <1>1, <1>2, <1>4
<1>13. BatchTypeOK'
  <2>1. \A i \in Jobs : Signatures(i)' = Signatures(i)
    BY <1>1 DEF Quiet, Signatures
  <2>2. \A i \in Jobs : ToSet(items'[i]) \cup bv[i].batch \subseteq Signatures(i)
    BY <1>3, <1>11 DEF AuthInv, BatchTypeOK
  <2> QED  BY <1>1, <1>11, <1>12, <2>1, <2>2 DEF AuthInv, BatchTypeOK, Quiet
<1>14. BatchInv'
  <2>1. ASSUME NEW i \in Jobs \ {j} PROVE NoneLost(i)'
    <3>1. given'[i] = given[i]
      BY <1>7 DEF Grown
    <3> QED  BY <1>1, <1>11, <1>12, <2>1, <3>1 DEF AuthInv, BatchInv, NoneLost, Quiet, Signatures
  <2>2. \A k \in 1 .. added'[j] :
            <<j, k>> \in ToSet(items'[j]) \cup bv[j].batch \cup UNION ToSet(given'[j])
    <3> TAKE k \in 1 .. added'[j]
    <3>1. CASE k = added[j] + 1
      BY <3>1, <1>11 DEF sig, Grown
    <3>2. CASE k # added[j] + 1
      <4>1. k \in 1 .. added[j]
        BY <3>2, <1>2, <1>12
      <4>2. <<j, k>> \in ToSet(items[j]) \cup bv[j].batch \cup UNION ToSet(given[j])
        BY <4>1 DEF AuthInv, BatchInv, NoneLost
      <4> QED  BY <4>2, <1>11 DEF Grown
    <3> QED  BY <3>1, <3>2
  <2>3. ~done[j]
    BY <1>1 DEF AuthInv, BatchInv, NoneLost
  <2>4. NoneLost(j)'
    BY <1>1, <2>2, <2>3 DEF NoneLost
  <2> QED  BY <2>1, <2>4 DEF BatchInv
<1> QED  BY <1>9, <1>13, <1>14 DEF AuthInv

(* The goroutine takes a signature; a full batch is given to the pool.       *)
LEMMA BatchAddInv ==
  ASSUME AuthInv, NilMeansVerified, NEW j \in Jobs, BatchAdd(j)
  PROVE  AuthInv' /\ NilMeansVerified'
<1> DEFINE batch == bv[j].batch \cup {Head(items[j])}
           Records == [batch : SUBSET (Jobs \X Nat), counter : Nat, total : Nat]
<1>1. Quiet /\ UNCHANGED <<queue, caller, added, done>> /\ items[j] # <<>>
  BY DEF BatchAdd, Rest, Quiet
<1>2. /\ items \in [Jobs -> Seq(Jobs \X Nat)] /\ bv \in [Jobs -> Records]
      /\ ToSet(items[j]) \cup bv[j].batch \subseteq Signatures(j)
  BY DEF AuthInv, BatchTypeOK
<1>3. items' = [items EXCEPT ![j] = Tail(@)]
  BY DEF BatchAdd
<1>4. PICK b \in {{}, batch}, counter \in {0, bv[j].counter + 1} :
         /\ bv' = [bv EXCEPT ![j] = [batch |-> b, counter |-> counter, total |-> bv[j].total + 1]]
         /\ \/ Go(j, batch)
            \/ UNCHANGED given /\ b = batch
  BY DEF BatchAdd
<1>5. /\ Head(items[j]) \in Jobs \X Nat /\ Tail(items[j]) \in Seq(Jobs \X Nat)
      /\ ToSet(items[j]) = ToSet(Tail(items[j])) \cup {Head(items[j])}
  BY <1>1, <1>2, Shortened
<1>6. /\ items' \in [Jobs -> Seq(Jobs \X Nat)] /\ items'[j] = Tail(items[j])
      /\ \A i \in Jobs \ {j} : items'[i] = items[i]
  BY <1>2, <1>3, <1>5
<1>7. batch \subseteq Signatures(j) /\ batch \in SUBSET (Jobs \X Nat)
  BY <1>2, <1>5, SignatureType
<1>8. /\ bv' \in [Jobs -> Records] /\ bv'[j].batch = b /\ b \subseteq batch
      /\ \A i \in Jobs \ {j} : bv'[i] = bv[i]
  <2>1. [batch |-> b, counter |-> counter, total |-> bv[j].total + 1] \in Records
    BY <1>2, <1>7
  <2> QED  BY <2>1, <1>2, <1>4
<1>9. \/ Grown(j, batch)
      \/ Grown(j, {}) /\ b = batch
  <2>1. PoolTypeOK
    BY DEF AuthInv, WorkersInv
  <2> QED  BY <2>1, <1>4, <1>7, GoGrows, StayGrows
<1> HIDE DEF batch, Records
<1>10. caller \in [Jobs -> Callers] /\ caller[j] \notin {"closed", "returned"}
  BY <1>1 DEF AuthInv, WorkersInv, PoolTypeOK, Callers, BatchInv, NoneLost
<1>11. PICK task : Grown(j, task)
  BY <1>9
<1>12. WorkersInv' /\ NilMeansVerified'
  BY <1>1, <1>10, <1>11, PoolQuiet
<1>13. BatchTypeOK'
  <2>1. \A i \in Jobs : Signatures(i)' = Signatures(i)
    BY <1>1 DEF Quiet, Signatures
  <2>2. \A i \in Jobs : ToSet(items'[i]) \cup bv'[i].batch \subseteq Signatures(i)
    BY <1>5, <1>6, <1>7, <1>8 DEF AuthInv, BatchTypeOK
  <2> QED  BY <1>1, <1>6, <1>8, <2>1, <2>2 DEF AuthInv, BatchTypeOK, Quiet, Records
<1>14. BatchInv'
  <2>1. ASSUME NEW i \in Jobs \ {j} PROVE NoneLost(i)'
    <3>1. given'[i] = given[i]
      BY <1>11 DEF Grown
    <3> QED  BY <1>1, <1>6, <1>8, <2>1, <3>1 DEF AuthInv, BatchInv, NoneLost, Quiet, Signatures
  <2>2. \A k \in 1 .. added'[j] :
            <<j, k>> \in ToSet(items'[j]) \cup bv'[j].batch \cup UNION ToSet(given'[j])
    <3> TAKE k \in 1 .. added'[j]
    <3>1. <<j, k>> \in ToSet(items[j]) \cup bv[j].batch \cup UNION ToSet(given[j])
      BY <1>1 DEF AuthInv, BatchInv, NoneLost
    <3>2. <<j, k>> \in ToSet(Tail(items[j])) \cup batch \cup UNION ToSet(given[j])
      BY <3>1, <1>5 DEF batch
    <3>3. (UNION ToSet(given[j])) \subseteq UNION ToSet(given'[j])
      BY <1>9 DEF Grown
    <3>4. batch \subseteq b \cup UNION ToSet(given'[j])
      BY <1>9 DEF Grown
    <3>5. ToSet(items'[j]) = ToSet(Tail(items[j])) /\ bv'[j].batch = b
      BY <1>6, <1>8
    <3> QED  BY <3>2, <3>3, <3>4, <3>5
  <2>3. ~done[j] /\ NoneLost(j)
    BY <1>1 DEF AuthInv, BatchInv, NoneLost
  <2>4. NoneLost(j)'
    BY <1>1, <1>10, <2>2, <2>3 DEF NoneLost, Quiet
  <2> QED  BY <2>1, <2>4 DEF BatchInv
<1> QED  BY <1>12, <1>13, <1>14 DEF AuthInv

(* The channel of the goroutine is closed, and the goroutine ends.           *)
LEMMA CloseItemsInv ==
  ASSUME AuthInv, NilMeansVerified, NEW j \in Jobs, CloseItems(j) \/ BatchEnd(j)
  PROVE  AuthInv' /\ NilMeansVerified'
<1>1. PICK to \in Callers \ Outside :
         /\ Quiet /\ UNCHANGED <<queue, given, added, items, bv>>
         /\ caller' = [caller EXCEPT ![j] = to] /\ to = "done"
         /\ \/ caller[j] = "open" /\ added[j] = Len(plan[j]) /\ UNCHANGED done
            \/ caller[j] = "done" /\ items[j] = <<>> /\ done' = [done EXCEPT ![j] = TRUE]
  <2>1. caller \in [Jobs -> Callers]
    BY DEF AuthInv, WorkersInv, PoolTypeOK, Callers
  <2>2. "done" \in Callers \ Outside
    BY DEF Callers, Outside
  <2>3. CASE CloseItems(j)
    BY <2>2, <2>3 DEF CloseItems, Rest, Quiet, batchVars
  <2>4. CASE BatchEnd(j)
    <3>1. caller' = [caller EXCEPT ![j] = "done"]
      BY <2>1, <2>4 DEF BatchEnd
    <3> QED  BY <2>2, <2>4, <3>1 DEF BatchEnd, Rest, Quiet
  <2> QED  BY <2>3, <2>4
<1>2. Grown(j, {})
  BY <1>1, StayGrows DEF AuthInv, WorkersInv
<1>3. caller \in [Jobs -> Callers] /\ caller[j] \in {"open", "done"} /\ caller[j] \notin Outside
      /\ caller[j] \notin {"closed", "returned"}
  BY <1>1 DEF AuthInv, WorkersInv, PoolTypeOK, Callers, Outside
<1>4. WorkersInv' /\ NilMeansVerified'
  BY <1>1, <1>2, <1>3, PoolQuiet
<1>5. BatchTypeOK'
  BY <1>1 DEF AuthInv, BatchTypeOK, Quiet, Signatures
<1>6. ASSUME NEW i \in Jobs PROVE NoneLost(i)'
  BY <1>1, <1>3 DEF AuthInv, BatchTypeOK, BatchInv, NoneLost, Quiet, Signatures
<1> QED  BY <1>4, <1>5, <1>6 DEF AuthInv, BatchInv

(* What is left of the batch is the last task.                               *)
LEMMA DoneInv ==
  ASSUME AuthInv, NilMeansVerified, NEW j \in Jobs, Done(j)
  PROVE  AuthInv' /\ NilMeansVerified'
<1>1. /\ Quiet /\ UNCHANGED <<queue, added, items, bv, done>>
      /\ caller[j] = "done" /\ done[j] /\ caller' = [caller EXCEPT ![j] = "closed"]
  BY DEF Done, Rest, Quiet, batchVars
<1>2. Grown(j, bv[j].batch)
  <2>1. PoolTypeOK /\ bv[j].batch \subseteq Signatures(j)
    BY DEF AuthInv, WorkersInv, BatchTypeOK
  <2>2. CASE bv[j].batch # {}
    BY <2>1, <2>2, GoGrows DEF Done
  <2>3. CASE bv[j].batch = {}
    <3>1. Grown(j, {})
      BY <2>1, <2>3, StayGrows DEF Done
    <3> QED  BY <2>3, <3>1
  <2> QED  BY <2>2, <2>3
<1>3. /\ caller \in [Jobs -> Callers] /\ caller[j] \notin Outside
      /\ "closed" \in Callers /\ "closed" \notin Outside
  BY <1>1 DEF AuthInv, WorkersInv, PoolTypeOK, Callers, Outside
<1>4. WorkersInv' /\ NilMeansVerified'
  BY <1>1, <1>2, <1>3, PoolQuiet
<1>5. BatchTypeOK'
  BY <1>1 DEF AuthInv, BatchTypeOK, Quiet, Signatures
<1>6. Signatures(j) \subseteq UNION ToSet(given'[j])
  <2>1. items[j] = <<>> /\ added[j] = Len(plan[j])
    BY <1>1 DEF AuthInv, BatchInv, NoneLost
  <2>2. ToSet(items[j]) = {}
    BY <2>1 DEF ToSet
  <2>3. \A k \in 1 .. Len(plan[j]) : <<j, k>> \in bv[j].batch \cup UNION ToSet(given[j])
    BY <2>1, <2>2 DEF AuthInv, BatchInv, NoneLost
  <2>4. UNION ToSet(given'[j]) = (UNION ToSet(given[j])) \cup bv[j].batch
    BY <1>2 DEF Grown
  <2>5. Signatures(j) \subseteq bv[j].batch \cup UNION ToSet(given[j])
    BY <2>3 DEF Signatures
  <2> QED  BY <2>4, <2>5
<1>7. ASSUME NEW i \in Jobs \ {j} PROVE NoneLost(i)'
  <2>1. given'[i] = given[i] /\ caller'[i] = caller[i]
    BY <1>1, <1>2, <1>3 DEF Grown
  <2> QED  BY <1>1, <1>7, <2>1 DEF AuthInv, BatchInv, NoneLost, Quiet, Signatures
<1>8. NoneLost(j)'
  <2>1. \A k \in 1 .. added[j] :
            <<j, k>> \in ToSet(items[j]) \cup bv[j].batch \cup UNION ToSet(given'[j])
    BY <1>2 DEF AuthInv, BatchInv, NoneLost, Grown
  <2>2. caller'[j] = "closed" /\ Signatures(j)' = Signatures(j)
    BY <1>1, <1>3 DEF Quiet, Signatures
  <2>3. items[j] = <<>> /\ added[j] = Len(plan[j])
    BY <1>1 DEF AuthInv, BatchInv, NoneLost
  <2> QED  BY <1>1, <1>6, <2>1, <2>2, <2>3 DEF NoneLost, Quiet
<1> QED  BY <1>4, <1>5, <1>7, <1>8 DEF AuthInv, BatchInv

(* A job is created, refused or panics, and its caller gets the result.      *)
LEMMA JobInv ==
  ASSUME AuthInv, NilMeansVerified, NEW j \in Jobs,
         NewJob(j) \/ SendOnClosed(j) \/ Wait(j), UNCHANGED batchVars
  PROVE  AuthInv' /\ NilMeansVerified'
<1>1. PICK to \in Callers :
         /\ Quiet /\ UNCHANGED <<queue, given, batchVars>>
         /\ caller' = [caller EXCEPT ![j] = to]
         /\ \/ caller[j] \in {"new", "checked"} /\ to \in {"refused", "checked", "panic"}
            \/ caller[j] = "closed" /\ to = "returned" /\ result[j] # NoResult
  BY DEF NewJob, SendOnClosed, Wait, CallerStep, Quiet, Callers
<1>2. Grown(j, {})
  BY <1>1, StayGrows DEF AuthInv, WorkersInv
<1>3. /\ caller \in [Jobs -> Callers] /\ (caller[j] \in Outside <=> to \in Outside)
      /\ caller[j] = "closed" => to = "returned" /\ result[j] # NoResult
      /\ caller[j] # "returned"
  BY <1>1 DEF AuthInv, WorkersInv, PoolTypeOK, Callers, Outside
<1>4. WorkersInv' /\ NilMeansVerified'
  BY <1>1, <1>2, <1>3, PoolQuiet
<1>5. BatchTypeOK'
  BY <1>1 DEF AuthInv, BatchTypeOK, Quiet, Signatures, batchVars
<1>6. ASSUME NEW i \in Jobs PROVE NoneLost(i)'
  BY <1>1, <1>3 DEF AuthInv, BatchInv, NoneLost, Quiet, Signatures, batchVars
<1> QED  BY <1>4, <1>5, <1>6 DEF AuthInv, BatchInv

(* A job enters the queue, once.                                             *)
LEMMA EnqueueInv ==
  ASSUME AuthInv, NilMeansVerified, NEW j \in Jobs, Enqueue(j), UNCHANGED batchVars
  PROVE  AuthInv' /\ NilMeansVerified'
<1>1. /\ Quiet /\ UNCHANGED <<given, batchVars>> /\ Len(queue) < MaxJobs
      /\ caller[j] = "checked" /\ caller' = [caller EXCEPT ![j] = "open"]
      /\ queue' = Append(queue, j)
  BY DEF Enqueue, CallerStep, Quiet
<1>2. /\ caller \in [Jobs -> Callers] /\ caller' \in [Jobs -> Callers] /\ caller'[j] = "open"
      /\ \A i \in Jobs \ {j} : caller'[i] = caller[i]
  BY <1>1 DEF AuthInv, WorkersInv, PoolTypeOK, Callers
<1>3. queue \in Seq(Jobs) /\ Len(queue) \in Nat /\ MaxJobs \in Nat /\ ToSet(queue) \subseteq Jobs
  BY JobAssumption DEF AuthInv, WorkersInv, PoolTypeOK, ToSet
<1>4. j \notin ToSet(queue)
  BY <1>1 DEF AuthInv, WorkersInv, QueueInv, Outside
<1>5. /\ queue' \in Seq(Jobs) /\ Len(queue') = Len(queue) + 1
      /\ ToSet(queue') = ToSet(queue) \cup {j}
  BY <1>1, <1>3, Appended
<1>6. IsInjective(queue')
  BY <1>1, <1>3, <1>4, Appended DEF AuthInv, WorkersInv, QueueInv
<1>7. PoolTypeOK'
  <2>1. \A i \in Jobs : Signatures(i)' = Signatures(i)
    BY <1>1 DEF Quiet, Signatures
  <2>2. Len(queue') <= MaxJobs
    BY <1>1, <1>3, <1>5
  <2>3. /\ plan' = plan /\ given' = given /\ taken' = taken /\ result' = result
        /\ sched' = sched /\ cur' = cur /\ sg' = sg /\ err' = err /\ worker' = worker
        /\ held' = held /\ verified' = verified /\ shouldShutdown' = shouldShutdown
        /\ queueClosed' = queueClosed /\ stopper' = stopper
    BY <1>1 DEF Quiet, schedVars, workerVars, stopVars
  <2>4. PoolTypeOK
    BY DEF AuthInv, WorkersInv
  <2>5. caller' \in [Jobs -> Callers] /\ queue' \in Seq(Jobs)
    BY <1>2, <1>5
  <2> QED  BY <2>1, <2>2, <2>3, <2>4, <2>5 DEF PoolTypeOK, Callers
<1>8. ErrorIsOwn' /\ CountInv'
  BY <1>1, QuietInv
<1>9. QueueInv'
  <2>1. ASSUME NEW i \in Jobs, i \in ToSet(queue') \/ caller'[i] \in Outside
        PROVE  taken'[i] = 0 /\ result'[i] = NoResult /\ ~(Busy' /\ cur' = i)
    <3>1. i \in ToSet(queue) \/ caller[i] \in Outside
      BY <1>1, <1>2, <1>5, <2>1 DEF Outside
    <3> QED  BY <3>1, <1>1 DEF AuthInv, WorkersInv, QueueInv, Busy, Quiet, schedVars
  <2>2. ASSUME NEW i \in ToSet(queue') PROVE caller'[i] \notin Outside
    BY <1>2, <1>3, <1>5 DEF AuthInv, WorkersInv, QueueInv, Outside
  <2>3. Busy' => cur' \in Jobs /\ result'[cur'] = NoResult
    BY <1>1 DEF AuthInv, WorkersInv, QueueInv, Busy, Quiet, schedVars
  <2> QED  BY <1>6, <2>1, <2>2, <2>3 DEF QueueInv
<1>10. TasksInv'
  <2>1. Grown(j, {})
    BY <1>1, StayGrows DEF AuthInv, WorkersInv
  <2>2. \A i \in Jobs : caller[i] = "closed" => caller'[i] = "closed"
    BY <1>1, <1>2
  <2> QED  BY <1>1, <2>1, <2>2, QuietTasks
<1>11. NilMeansVerified'
  <2>1. \A i \in Jobs : caller[i] \in {"closed", "returned"} => caller'[i] \in {"closed", "returned"}
    BY <1>1, <1>2
  <2> QED  BY <1>1, <2>1, SameResults DEF Quiet, schedVars, workerVars
<1>12. BatchTypeOK'
  BY <1>1 DEF AuthInv, BatchTypeOK, Quiet, Signatures, batchVars
<1>13. ASSUME NEW i \in Jobs PROVE NoneLost(i)'
  BY <1>1, <1>2 DEF AuthInv, BatchInv, NoneLost, Quiet, Signatures, batchVars
<1> QED  BY <1>7, <1>8, <1>9, <1>10, <1>11, <1>12, <1>13 DEF AuthInv, WorkersInv, BatchInv

-----------------------------------------------------------------------------
(* The scheduler                                                             *)

LEMMA BatchFrame ==
  ASSUME AuthInv, UNCHANGED <<plan, caller, given, batchVars>>
  PROVE  BatchTypeOK' /\ BatchInv'
BY DEF AuthInv, BatchTypeOK, BatchInv, NoneLost, Signatures, batchVars

LEMMA SamePlan ==
  ASSUME UNCHANGED plan
  PROVE  /\ \A j \in Jobs : Signatures(j)' = Signatures(j)
         /\ \A S : \A T : T = S => (Fails(T)' <=> Fails(S))
BY DEF Signatures, Fails

LEMMA ActiveCount ==
  /\ IsFiniteSet(Active) /\ Cardinality(Active) \in Nat
  /\ Cardinality(Active) = 0 <=> Active = {}
  /\ \A w \in Workers \ Active : Cardinality(Active \cup {w}) = Cardinality(Active) + 1
  /\ \A w \in Active : Cardinality(Active \ {w}) = Cardinality(Active) - 1
<1>1. Active \subseteq Workers
  BY DEF Active
<1>2. IsFiniteSet(Active)
  BY <1>1, WorkerAssumption, FS_Subset
<1> QED  BY <1>2, FS_CardinalityType, FS_EmptySet, FS_AddElement, FS_RemoveElement

LEMMA SchedTakeInv ==
  ASSUME AuthInv, NilMeansVerified, SchedTake, UNCHANGED batchVars
  PROVE  AuthInv' /\ NilMeansVerified'
<1> DEFINE h == Head(queue)
<1>1. /\ UNCHANGED <<plan, caller, given, taken, sg, err, worker, held, verified, stopVars>>
      /\ sched = "idle" /\ queue # <<>> /\ queue' = Tail(queue)
      /\ \/ result' = [result EXCEPT ![h] = Shutdown] /\ sched' = sched /\ cur' = cur
         \/ result' = result /\ sched' = "tasks" /\ cur' = h
  BY DEF SchedTake, workerVars
<1>2. /\ queue \in Seq(Jobs) /\ Len(queue) \in Nat /\ Len(queue) <= MaxJobs /\ MaxJobs \in Nat
      /\ IsInjective(queue) /\ ToSet(queue) \subseteq Jobs
  BY JobAssumption DEF AuthInv, WorkersInv, PoolTypeOK, QueueInv, ToSet
<1>3. /\ h \in Jobs /\ queue' \in Seq(Jobs) /\ ToSet(queue) = ToSet(queue') \cup {h}
      /\ Len(queue') <= Len(queue) /\ Len(queue') \in Nat
      /\ IsInjective(queue') /\ h \notin ToSet(queue')
  BY <1>1, <1>2, Shortened
<1> HIDE DEF h
<1>4. caller[h] \notin Outside /\ taken[h] = 0 /\ result[h] = NoResult
  BY <1>3 DEF AuthInv, WorkersInv, QueueInv
<1>5. result \in [Jobs -> Jobs \cup {Nil, NoResult, Shutdown}] /\ cur \in Jobs \cup {0}
  BY DEF AuthInv, WorkersInv, PoolTypeOK
<1>6. /\ result' \in [Jobs -> Jobs \cup {Nil, NoResult, Shutdown}]
      /\ result'[h] \in {NoResult, Shutdown}
      /\ \A j \in Jobs \ {h} : result'[j] = result[j]
  BY <1>1, <1>3, <1>4, <1>5
<1>7. PoolTypeOK'
  <2>1. Len(queue') <= MaxJobs
    BY <1>2, <1>3
  <2>2. sched' \in {"idle", "tasks", "sending", "wait", "exited"} /\ cur' \in Jobs \cup {0}
    BY <1>1, <1>3, <1>5
  <2>3. \A j \in Jobs : Signatures(j)' = Signatures(j)
    BY <1>1, SamePlan
  <2>4. PoolTypeOK
    BY DEF AuthInv, WorkersInv
  <2>5. /\ plan' = plan /\ caller' = caller /\ given' = given /\ taken' = taken /\ sg' = sg
        /\ err' = err /\ worker' = worker /\ held' = held /\ verified' = verified
        /\ shouldShutdown' = shouldShutdown /\ queueClosed' = queueClosed /\ stopper' = stopper
    BY <1>1 DEF stopVars
  <2>6. queue' \in Seq(Jobs) /\ result' \in [Jobs -> Jobs \cup {Nil, NoResult, Shutdown}]
    BY <1>3, <1>6
  <2> QED  BY <2>1, <2>2, <2>3, <2>4, <2>5, <2>6 DEF PoolTypeOK
<1>8. ErrorIsOwn'
  <2>1. err = Nil
    BY <1>1 DEF AuthInv, WorkersInv, ErrorIsOwn
  <2>2. \A j \in Jobs : result'[j] \in Jobs => result'[j] = j /\ Fails(Signatures(j))
    BY <1>6, Positive DEF AuthInv, WorkersInv, ErrorIsOwn
  <2> QED  BY <1>1, <2>1, <2>2 DEF AuthInv, WorkersInv, ErrorIsOwn, Fails, Signatures
<1>9. CountInv'
  <2>1. Active' = Active /\ Active = {}
    BY <1>1 DEF AuthInv, WorkersInv, CountInv, Busy, Active
  <2> QED  BY <1>1, <2>1 DEF AuthInv, WorkersInv, CountInv
<1>10. QueueInv'
  <2>1. ~Busy
    BY <1>1 DEF Busy
  <2>2. ASSUME NEW i \in Jobs, i \in ToSet(queue') \/ caller'[i] \in Outside
        PROVE  taken'[i] = 0 /\ result'[i] = NoResult /\ ~(Busy' /\ cur' = i)
    <3>1. i # h /\ (i \in ToSet(queue) \/ caller[i] \in Outside)
      BY <1>1, <1>3, <1>4, <2>2
    <3> QED  BY <3>1, <1>1, <1>6, <2>1 DEF AuthInv, WorkersInv, QueueInv, Busy
  <2>3. ASSUME NEW i \in ToSet(queue') PROVE caller'[i] \notin Outside
    BY <1>1, <1>3 DEF AuthInv, WorkersInv, QueueInv
  <2>4. Busy' => cur' \in Jobs /\ result'[cur'] = NoResult
    BY <1>1, <1>3, <1>4, <2>1 DEF Busy
  <2> QED  BY <1>3, <2>2, <2>3, <2>4 DEF QueueInv
<1>11. TasksInv'
  <2>1. Active' = {}
    BY <1>1 DEF AuthInv, WorkersInv, CountInv, Busy, Active
  <2>2. sched' \in {"idle", "tasks"} /\ (Busy' => Handed' = 0)
    BY <1>1, <1>4 DEF Busy, Handed
  <2> QED  BY <1>1, <2>1, <2>2 DEF AuthInv, WorkersInv, TasksInv
<1>12. NilMeansVerified'
  <2>1. \A j \in Jobs : result'[j] = Nil => result[j] = Nil
    BY <1>6 DEF Nil, NoResult, Shutdown
  <2> QED  BY <1>1, <2>1 DEF NilMeansVerified, Fails, Signatures
<1> QED  BY <1>1, <1>7, <1>8, <1>9, <1>10, <1>11, <1>12, BatchFrame DEF AuthInv, WorkersInv

(* A task is counted.                                                        *)
LEMMA SchedNextInv ==
  ASSUME AuthInv, NilMeansVerified, SchedNext, UNCHANGED batchVars
  PROVE  AuthInv' /\ NilMeansVerified'
<1>1. /\ UNCHANGED <<plan, caller, queue, given, cur, result, err, worker, held, verified, stopVars>>
      /\ sched = "tasks" /\ sched' = "sending" /\ sg' = sg + 1
      /\ taken[cur] < Len(given[cur]) /\ taken' = [taken EXCEPT ![cur] = @ + 1]
  BY DEF SchedNext, jobVars, workerVars
<1>2. cur \in Jobs /\ taken \in [Jobs -> Nat] /\ taken[cur] \in Nat /\ sg \in Nat
      /\ Len(given[cur]) \in Nat
  BY <1>1 DEF AuthInv, WorkersInv, PoolTypeOK, QueueInv, Busy
<1>3. /\ taken' \in [Jobs -> Nat] /\ taken'[cur] = taken[cur] + 1
      /\ \A j \in Jobs \ {cur} : taken'[j] = taken[j]
  BY <1>1, <1>2
<1>4. Active' = Active /\ Busy /\ Busy'
  BY <1>1 DEF Active, Busy
<1>5. PoolTypeOK'
  <2>1. \A j \in Jobs : Signatures(j)' = Signatures(j)
    BY <1>1, SamePlan
  <2>2. sg' \in Nat
    BY <1>1, <1>2
  <2>3. PoolTypeOK
    BY DEF AuthInv, WorkersInv
  <2>4. /\ plan' = plan /\ caller' = caller /\ queue' = queue /\ given' = given /\ cur' = cur
        /\ result' = result /\ err' = err /\ worker' = worker /\ held' = held
        /\ verified' = verified /\ shouldShutdown' = shouldShutdown
        /\ queueClosed' = queueClosed /\ stopper' = stopper /\ sched' = "sending"
    BY <1>1 DEF stopVars
  <2>5. taken' \in [Jobs -> Nat]
    BY <1>3
  <2> QED  BY <2>1, <2>2, <2>3, <2>4, <2>5 DEF PoolTypeOK
<1>6. ErrorIsOwn'
  BY <1>1 DEF AuthInv, WorkersInv, ErrorIsOwn, Fails, Signatures
<1>7. CountInv'
  <2>1. sg = Cardinality(Active)
    BY <1>1, ActiveCount DEF AuthInv, WorkersInv, CountInv
  <2> QED  BY <1>1, <1>2, <1>4, <2>1 DEF CountInv
<1>8. QueueInv'
  BY <1>1, <1>3, <1>4 DEF AuthInv, WorkersInv, QueueInv
<1>9. TasksInv'
  <2>1. Handed' = Handed
    BY <1>1, <1>2, <1>3 DEF Handed
  <2>2. \A j \in Jobs : taken'[j] <= Len(given'[j])
    BY <1>1, <1>2, <1>3 DEF AuthInv, WorkersInv, TasksInv
  <2>3. taken'[cur'] > 0
    BY <1>1, <1>2, <1>3
  <2> QED  BY <1>1, <1>4, <2>1, <2>2, <2>3 DEF AuthInv, WorkersInv, TasksInv, Signatures
<1>10. NilMeansVerified'
  BY <1>1 DEF NilMeansVerified, Fails, Signatures
<1> QED  BY <1>1, <1>5, <1>6, <1>7, <1>8, <1>9, <1>10, BatchFrame DEF AuthInv, WorkersInv

(* A worker receives it.                                                     *)
LEMMA AssignInv ==
  ASSUME AuthInv, NilMeansVerified, NEW w \in Workers, Assign(w), UNCHANGED batchVars
  PROVE  AuthInv' /\ NilMeansVerified'
<1> DEFINE task == given[cur][taken[cur]]
<1>1. /\ UNCHANGED <<plan, caller, queue, given, cur, taken, result, sg, err, verified, stopVars>>
      /\ sched = "sending" /\ sched' = "tasks" /\ worker[w] = "idle"
      /\ held' = [held EXCEPT ![w] = task] /\ worker' = [worker EXCEPT ![w] = "got"]
  BY DEF Assign, jobVars
<1>2. /\ cur \in Jobs /\ taken[cur] \in Nat /\ taken[cur] > 0 /\ Len(given[cur]) \in Nat
      /\ taken[cur] <= Len(given[cur])
  BY <1>1 DEF AuthInv, WorkersInv, PoolTypeOK, QueueInv, TasksInv, Busy
<1>3. task \subseteq Signatures(cur) /\ task \subseteq Jobs \X Nat
  <2>1. ToSet(given[cur]) \subseteq SUBSET Signatures(cur) /\ given[cur] \in Seq(SUBSET (Jobs \X Nat))
    BY <1>2 DEF AuthInv, WorkersInv, PoolTypeOK
  <2>2. taken[cur] \in DOMAIN given[cur]
    BY <1>2, <2>1
  <2>3. task \in ToSet(given[cur])
    BY <2>2 DEF ToSet
  <2> QED  BY <1>2, <2>1, <2>3, SignatureType
<1> HIDE DEF task
<1>4. /\ held' \in [Workers -> SUBSET (Jobs \X Nat)] /\ held'[w] = task
      /\ \A v \in Workers \ {w} : held'[v] = held[v]
  BY <1>1, <1>3 DEF AuthInv, WorkersInv, PoolTypeOK
<1>5. /\ worker \in [Workers -> {"idle", "got", "run", "gone", "left"}]
      /\ worker' \in [Workers -> {"idle", "got", "run", "gone", "left"}]
      /\ worker'[w] = "got" /\ \A v \in Workers \ {w} : worker'[v] = worker[v]
  BY <1>1 DEF AuthInv, WorkersInv, PoolTypeOK
<1>6. Active' = Active \cup {w} /\ w \in Workers \ Active /\ Busy /\ Busy'
  BY <1>1, <1>5 DEF Active, Busy
<1>7. PoolTypeOK'
  <2>1. \A j \in Jobs : Signatures(j)' = Signatures(j)
    BY <1>1, SamePlan
  <2> QED  BY <1>1, <1>4, <1>5, <2>1 DEF AuthInv, WorkersInv, PoolTypeOK, stopVars
<1>8. ErrorIsOwn'
  BY <1>1 DEF AuthInv, WorkersInv, ErrorIsOwn, Fails, Signatures
<1>9. CountInv'
  <2>1. sg = Cardinality(Active) + 1
    BY <1>1 DEF AuthInv, WorkersInv, CountInv
  <2>2. Cardinality(Active') = Cardinality(Active) + 1 /\ Cardinality(Active) \in Nat
    BY <1>6, ActiveCount
  <2> QED  BY <1>1, <1>6, <2>1, <2>2 DEF CountInv
<1>10. QueueInv'
  BY <1>1, <1>6 DEF AuthInv, WorkersInv, QueueInv
<1>11. TasksInv'
  <2>1. Handed' = Handed + 1 /\ Handed + 1 = taken[cur] /\ Handed \in Nat
    BY <1>1, <1>2 DEF Handed
  <2>2. \A v \in Active' : held'[v] \subseteq Signatures(cur)
    BY <1>3, <1>4, <1>6 DEF AuthInv, WorkersInv, TasksInv, Active
  <2>3. ASSUME err' = Nil, NEW k \in (1 .. Handed)'
        PROVE  given'[cur'][k] \subseteq verified' \cup UNION {held'[v] : v \in Active'}
    <3>1. task \subseteq UNION {held'[v] : v \in Active'}
      BY <1>4, <1>6
    <3>2. CASE k = taken[cur]
      BY <1>1, <3>1, <3>2 DEF task
    <3>3. CASE k # taken[cur]
      <4>1. k \in 1 .. Handed
        BY <2>1, <2>3, <3>3
      <4>2. given[cur][k] \subseteq verified \cup UNION {held[v] : v \in Active}
        BY <1>1, <1>6, <2>3, <4>1 DEF AuthInv, WorkersInv, TasksInv
      <4>3. UNION {held[v] : v \in Active} \subseteq UNION {held'[v] : v \in Active'}
        BY <1>4, <1>6 DEF Active
      <4> QED  BY <1>1, <4>2, <4>3
    <3> QED  BY <3>2, <3>3
  <2>4. \A j \in Jobs : taken'[j] <= Len(given'[j])
    BY <1>1 DEF AuthInv, WorkersInv, TasksInv
  <2>5. \A v \in Active' : held'[v] \subseteq Signatures(cur)'
    BY <1>1, <2>2 DEF Signatures
  <2> QED  BY <1>1, <2>3, <2>4, <2>5 DEF TasksInv
<1>12. NilMeansVerified'
  BY <1>1 DEF NilMeansVerified, Fails, Signatures
<1> QED  BY <1>1, <1>7, <1>8, <1>9, <1>10, <1>11, <1>12, BatchFrame DEF AuthInv, WorkersInv

(* All tasks are handed out.                                                 *)
LEMMA SchedDrainedInv ==
  ASSUME AuthInv, NilMeansVerified, SchedDrained, UNCHANGED batchVars
  PROVE  AuthInv' /\ NilMeansVerified'
<1>1. /\ UNCHANGED <<plan, caller, queue, given, cur, taken, result, sg, err, worker, held,
                     verified, stopVars>>
      /\ sched = "tasks" /\ sched' = "wait"
      /\ taken[cur] = Len(given[cur]) /\ caller[cur] = "closed"
  BY DEF SchedDrained, jobVars, workerVars
<1>2. Active' = Active /\ Busy /\ Busy' /\ Handed' = Handed
  BY <1>1 DEF Active, Busy, Handed
<1>3. PoolTypeOK'
  <2>1. \A j \in Jobs : Signatures(j)' = Signatures(j)
    BY <1>1, SamePlan
  <2> QED  BY <1>1, <2>1 DEF AuthInv, WorkersInv, PoolTypeOK, stopVars
<1>4. ErrorIsOwn' /\ CountInv'
  BY <1>1, <1>2 DEF AuthInv, WorkersInv, ErrorIsOwn, Fails, Signatures, CountInv
<1>5. QueueInv'
  BY <1>1, <1>2 DEF AuthInv, WorkersInv, QueueInv
<1>6. TasksInv'
  BY <1>1, <1>2 DEF AuthInv, WorkersInv, TasksInv, Signatures
<1>7. NilMeansVerified'
  BY <1>1 DEF NilMeansVerified, Fails, Signatures
<1> QED  BY <1>1, <1>3, <1>4, <1>5, <1>6, <1>7, BatchFrame DEF AuthInv, WorkersInv

(* All tasks are done: those of a job without an error have verified all of  *)
(* its signatures.                                                           *)
LEMMA SchedFinishInv ==
  ASSUME AuthInv, NilMeansVerified, SchedFinish, UNCHANGED batchVars
  PROVE  AuthInv' /\ NilMeansVerified'
<1>1. /\ UNCHANGED <<plan, caller, queue, given, cur, taken, sg, worker, held, verified, stopVars>>
      /\ sched = "wait" /\ sched' = "idle" /\ sg = 0 /\ err' = Nil
      /\ result' = [result EXCEPT ![cur] = err]
  BY DEF SchedFinish, jobVars, workerVars
<1>2. /\ cur \in Jobs /\ taken[cur] = Len(given[cur]) /\ caller[cur] = "closed"
      /\ cur \notin ToSet(queue) /\ Busy /\ ~Busy'
  <2>1. Busy /\ ~Busy'
    BY <1>1 DEF Busy
  <2> QED  BY <1>1, <2>1 DEF AuthInv, WorkersInv, QueueInv, TasksInv
<1>3. /\ result \in [Jobs -> Jobs \cup {Nil, NoResult, Shutdown}] /\ err \in Jobs \cup {Nil}
      /\ given[cur] \in Seq(SUBSET (Jobs \X Nat))
  BY <1>2 DEF AuthInv, WorkersInv, PoolTypeOK
<1>4. /\ result' \in [Jobs -> Jobs \cup {Nil, NoResult, Shutdown}] /\ result'[cur] = err
      /\ \A j \in Jobs \ {cur} : result'[j] = result[j]
  BY <1>1, <1>2, <1>3
<1>5. Active = {} /\ Active' = {}
  <2>1. sg = Cardinality(Active)
    BY <1>1, ActiveCount DEF AuthInv, WorkersInv, CountInv
  <2> QED  BY <1>1, <2>1, ActiveCount DEF Active
<1>6. PoolTypeOK'
  <2>1. \A j \in Jobs : Signatures(j)' = Signatures(j)
    BY <1>1, SamePlan
  <2> QED  BY <1>1, <1>4, <2>1 DEF AuthInv, WorkersInv, PoolTypeOK, stopVars
<1>7. ErrorIsOwn'
  <2>1. \A j \in Jobs : result'[j] \in Jobs => result'[j] = j /\ Fails(Signatures(j))
    BY <1>3, <1>4, Positive DEF AuthInv, WorkersInv, ErrorIsOwn
  <2> QED  BY <1>1, <2>1 DEF AuthInv, WorkersInv, ErrorIsOwn, Fails, Signatures
<1>8. CountInv'
  BY <1>1, <1>2, <1>5 DEF AuthInv, WorkersInv, CountInv, Active
<1>9. QueueInv'
  <2>1. \A i \in Jobs : i \in ToSet(queue) \/ caller[i] \in Outside => i # cur
    BY <1>2 DEF Outside
  <2> QED  BY <1>1, <1>2, <1>4, <2>1 DEF AuthInv, WorkersInv, QueueInv
<1>10. TasksInv'
  BY <1>1, <1>2, <1>5 DEF AuthInv, WorkersInv, TasksInv
<1>11. ASSUME err = Nil PROVE Signatures(cur) \subseteq verified /\ ~Fails(Signatures(cur))
  <2>1. Handed = Len(given[cur])
    BY <1>1, <1>2, <1>3 DEF Handed
  <2>2. \A k \in 1 .. Len(given[cur]) : given[cur][k] \subseteq verified
    BY <1>2, <1>5, <1>11, <2>1 DEF AuthInv, WorkersInv, TasksInv
  <2>3. UNION ToSet(given[cur]) \subseteq verified
    BY <1>3, <2>2 DEF ToSet
  <2>4. Signatures(cur) \subseteq UNION ToSet(given[cur])
    BY <1>2 DEF AuthInv, BatchInv, NoneLost
  <2>5. ~Fails(verified)
    BY DEF AuthInv, WorkersInv, ErrorIsOwn
  <2> QED  BY <2>3, <2>4, <2>5 DEF Fails
<1>12. NilMeansVerified'
  <2>1. \A j \in Jobs : result'[j] = Nil =>
            /\ caller[j] \in {"closed", "returned"}
            /\ Signatures(j) \subseteq verified /\ ~Fails(Signatures(j))
    BY <1>2, <1>4, <1>11 DEF NilMeansVerified
  <2> QED  BY <1>1, <2>1 DEF NilMeansVerified, Fails, Signatures
<1> QED  BY <1>1, <1>6, <1>7, <1>8, <1>9, <1>10, <1>12, BatchFrame DEF AuthInv, WorkersInv

(* The queue is empty and closed.                                            *)
LEMMA SchedExitInv ==
  ASSUME AuthInv, NilMeansVerified, SchedExit, UNCHANGED batchVars
  PROVE  AuthInv' /\ NilMeansVerified'
<1>1. /\ UNCHANGED <<plan, caller, queue, given, cur, taken, result, sg, err, worker, held,
                     verified, stopVars>>
      /\ sched = "idle" /\ sched' = "exited"
  BY DEF SchedExit, jobVars, workerVars
<1>2. Active' = Active /\ ~Busy /\ ~Busy'
  BY <1>1 DEF Active, Busy
<1>3. PoolTypeOK'
  <2>1. \A j \in Jobs : Signatures(j)' = Signatures(j)
    BY <1>1, SamePlan
  <2> QED  BY <1>1, <2>1 DEF AuthInv, WorkersInv, PoolTypeOK, stopVars
<1>4. ErrorIsOwn' /\ CountInv'
  BY <1>1, <1>2 DEF AuthInv, WorkersInv, ErrorIsOwn, Fails, Signatures, CountInv
<1>5. QueueInv'
  BY <1>1, <1>2 DEF AuthInv, WorkersInv, QueueInv
<1>6. TasksInv'
  BY <1>1, <1>2 DEF AuthInv, WorkersInv, TasksInv, Signatures
<1>7. NilMeansVerified'
  BY <1>1 DEF NilMeansVerified, Fails, Signatures
<1> QED  BY <1>1, <1>3, <1>4, <1>5, <1>6, <1>7, BatchFrame DEF AuthInv, WorkersInv

-----------------------------------------------------------------------------
(* The workers                                                               *)

(* A worker is done with its task, whatever came of it.                      *)
LEMMA TaskEnds ==
  ASSUME AuthInv, NEW w \in Active,
         UNCHANGED <<plan, caller, queue, given, schedVars, stopVars>>,
         NEW to \in {"gone", "idle"},
         worker' = [worker EXCEPT ![w] = to], held' = [held EXCEPT ![w] = {}], sg' = sg - 1
  PROVE  /\ worker' \in [Workers -> {"idle", "got", "run", "gone", "left"}]
         /\ held' \in [Workers -> SUBSET (Jobs \X Nat)] /\ sg' \in Nat
         /\ Active' = Active \ {w} /\ \A v \in Active' : held'[v] = held[v]
         /\ cur \in Jobs /\ held[w] \subseteq Signatures(cur) /\ Busy /\ Busy'
         /\ CountInv' /\ QueueInv'
<1>1. /\ worker \in [Workers -> {"idle", "got", "run", "gone", "left"}]
      /\ held \in [Workers -> SUBSET (Jobs \X Nat)] /\ sg \in Nat
      /\ w \in Workers
  BY DEF AuthInv, WorkersInv, PoolTypeOK, Active
<1>2. Busy /\ Busy'
  BY DEF AuthInv, WorkersInv, CountInv, Busy, schedVars
<1>3. /\ worker' \in [Workers -> {"idle", "got", "run", "gone", "left"}]
      /\ worker'[w] = to /\ \A v \in Workers \ {w} : worker'[v] = worker[v]
  BY <1>1
<1>4. held' \in [Workers -> SUBSET (Jobs \X Nat)] /\ \A v \in Workers \ {w} : held'[v] = held[v]
  BY <1>1
<1>5. Active' = Active \ {w}
  BY <1>3 DEF Active
<1>6. Cardinality(Active') = Cardinality(Active) - 1 /\ Cardinality(Active) \in Nat
      /\ Cardinality(Active) # 0
  BY <1>5, ActiveCount
<1>7. sg = Cardinality(Active) + (IF sched = "sending" THEN 1 ELSE 0) /\ sched' = sched
  BY DEF AuthInv, WorkersInv, CountInv, schedVars
<1>8. CountInv' /\ sg' \in Nat
  BY <1>2, <1>6, <1>7 DEF CountInv
<1>9. QueueInv' /\ cur \in Jobs /\ held[w] \subseteq Signatures(cur)
  BY <1>2 DEF AuthInv, WorkersInv, QueueInv, TasksInv, schedVars, Active
<1> QED  BY <1>1, <1>2, <1>3, <1>4, <1>5, <1>8, <1>9 DEF Active

(* After an error its task is skipped ...                                    *)
LEMMA SkipTaskInv ==
  ASSUME AuthInv, NilMeansVerified, NEW w \in Workers, SkipTask(w), UNCHANGED batchVars
  PROVE  AuthInv' /\ NilMeansVerified'
<1>1. /\ UNCHANGED <<plan, caller, queue, given, schedVars, err, verified, stopVars>>
      /\ w \in Active /\ err # Nil
      /\ worker' = [worker EXCEPT ![w] = "gone"] /\ held' = [held EXCEPT ![w] = {}]
      /\ sg' = sg - 1
  BY DEF SkipTask, jobVars, Active
<1>2. /\ worker' \in [Workers -> {"idle", "got", "run", "gone", "left"}]
      /\ held' \in [Workers -> SUBSET (Jobs \X Nat)] /\ sg' \in Nat
      /\ Active' = Active \ {w} /\ \A v \in Active' : held'[v] = held[v]
      /\ CountInv' /\ QueueInv'
  BY <1>1, TaskEnds
<1>3. PoolTypeOK'
  <2>1. \A j \in Jobs : Signatures(j)' = Signatures(j)
    BY <1>1, SamePlan
  <2> QED  BY <1>1, <1>2, <2>1 DEF AuthInv, WorkersInv, PoolTypeOK, schedVars, stopVars
<1>4. ErrorIsOwn'
  BY <1>1 DEF AuthInv, WorkersInv, ErrorIsOwn, Fails, Signatures, schedVars
<1>5. TasksInv'
  BY <1>1, <1>2 DEF AuthInv, WorkersInv, TasksInv, Signatures, schedVars
<1>6. NilMeansVerified'
  BY <1>1 DEF NilMeansVerified, Fails, Signatures, schedVars
<1> QED  BY <1>1, <1>2, <1>3, <1>4, <1>5, <1>6, BatchFrame DEF AuthInv, WorkersInv

(* ... otherwise its signatures are verified, or fail the job.               *)
LEMMA EndTaskInv ==
  ASSUME AuthInv, NilMeansVerified, NEW w \in Workers, EndTask(w), UNCHANGED batchVars
  PROVE  AuthInv' /\ NilMeansVerified'
<1>1. /\ UNCHANGED <<plan, caller, queue, given, schedVars, stopVars>> /\ w \in Active
      /\ worker' = [worker EXCEPT ![w] = "idle"] /\ held' = [held EXCEPT ![w] = {}]
      /\ sg' = sg - 1
  BY DEF EndTask, jobVars, Active
<1>2. /\ worker' \in [Workers -> {"idle", "got", "run", "gone", "left"}]
      /\ held' \in [Workers -> SUBSET (Jobs \X Nat)] /\ sg' \in Nat
      /\ Active' = Active \ {w} /\ \A v \in Active' : held'[v] = held[v]
      /\ cur \in Jobs /\ held[w] \subseteq Signatures(cur) /\ Busy /\ Busy'
      /\ CountInv' /\ QueueInv'
  BY <1>1, TaskEnds
<1>3. \/ /\ Fails(held[w]) /\ verified' = verified
         /\ err' = IF err = Nil THEN JobOf(held[w]) ELSE err
      \/ ~Fails(held[w]) /\ verified' = verified \cup held[w] /\ err' = err
  BY DEF EndTask
<1>4. Fails(held[w]) => JobOf(held[w]) = cur /\ Fails(Signatures(cur))
  <2> SUFFICES ASSUME Fails(held[w]) PROVE JobOf(held[w]) = cur /\ Fails(Signatures(cur))
    OBVIOUS
  <2>1. Fails(Signatures(cur)) /\ held[w] # {}
    BY <1>2 DEF Fails
  <2>2. (CHOOSE s \in held[w] : TRUE) \in Signatures(cur)
    BY <1>2, <2>1
  <2>3. \A s \in Signatures(cur) : s[1] = cur
    BY DEF Signatures
  <2> QED  BY <2>1, <2>2, <2>3 DEF JobOf
<1>5. err \in Jobs \cup {Nil} /\ cur # Nil /\ verified \subseteq UNION {Signatures(j) : j \in Jobs}
  BY <1>2, Positive DEF AuthInv, WorkersInv, PoolTypeOK
<1>6. PoolTypeOK'
  <2>1. \A j \in Jobs : Signatures(j)' = Signatures(j)
    BY <1>1, SamePlan
  <2>2. err' \in Jobs \cup {Nil} /\ verified' \subseteq UNION {Signatures(j) : j \in Jobs}
    BY <1>2, <1>3, <1>4, <1>5
  <2> QED  BY <1>1, <1>2, <2>1, <2>2 DEF AuthInv, WorkersInv, PoolTypeOK, schedVars, stopVars
<1>7. ErrorIsOwn'
  <2>1. /\ \A j \in Jobs : result[j] \in Jobs => result[j] = j /\ Fails(Signatures(j))
        /\ err # Nil => err = cur /\ Fails(Signatures(err))
        /\ ~Fails(verified)
    BY DEF AuthInv, WorkersInv, ErrorIsOwn
  <2>2. err' # Nil => err' = cur /\ Fails(Signatures(cur))
    BY <1>3, <1>4, <2>1
  <2>3. ~Fails(verified')
    BY <1>3, <2>1 DEF Fails
  <2>4. sched' \notin {"idle", "exited"}
    BY <1>2 DEF Busy
  <2>5. Fails(verified)' <=> Fails(verified')
    BY <1>1 DEF Fails
  <2>6. Fails(Signatures(cur))' <=> Fails(Signatures(cur))
    BY <1>1 DEF Fails, Signatures, schedVars
  <2>7. \A j \in Jobs : result'[j] \in Jobs => result'[j] = j /\ Fails(Signatures(j))'
    BY <1>1, <2>1 DEF Fails, Signatures, schedVars
  <2>8. cur' = cur /\ (err' = cur => (Fails(Signatures(err))' <=> Fails(Signatures(cur))))
    BY <1>1 DEF Fails, Signatures, schedVars
  <2> QED  BY <2>2, <2>3, <2>4, <2>5, <2>7, <2>8 DEF ErrorIsOwn
<1>8. TasksInv'
  <2>1. UNCHANGED <<taken, sched, cur>> /\ Handed' = Handed
    BY <1>1 DEF schedVars, Handed
  <2>2. \A v \in Active' : held'[v] \subseteq Signatures(cur)'
    BY <1>1, <1>2, <2>1 DEF AuthInv, WorkersInv, TasksInv, Signatures
  <2>3. ASSUME err' = Nil, NEW k \in 1 .. Handed
        PROVE  given[cur][k] \subseteq verified' \cup UNION {held'[v] : v \in Active'}
    <3>1. err = Nil /\ verified' = verified \cup held[w]
      BY <1>2, <1>3, <1>4, <1>5, <2>3
    <3>2. given[cur][k] \subseteq verified \cup UNION {held[v] : v \in Active}
      BY <1>2, <2>3, <3>1 DEF AuthInv, WorkersInv, TasksInv
    <3>3. UNION {held[v] : v \in Active} \subseteq held[w] \cup UNION {held'[v] : v \in Active'}
      BY <1>2
    <3> QED  BY <3>1, <3>2, <3>3
  <2> QED  BY <1>1, <2>1, <2>2, <2>3 DEF AuthInv, WorkersInv, TasksInv
<1>9. NilMeansVerified'
  <2>1. verified \subseteq verified'
    BY <1>3
  <2> QED  BY <1>1, <2>1, SameResults DEF schedVars
<1> QED  BY <1>1, <1>2, <1>6, <1>7, <1>8, <1>9, BatchFrame DEF AuthInv, WorkersInv

(* A worker starts its task, or leaves without one.                          *)
LEMMA StartLeaveInv ==
  ASSUME AuthInv, NilMeansVerified, NEW w \in Workers, StartTask(w) \/ Leave(w),
         UNCHANGED batchVars
  PROVE  AuthInv' /\ NilMeansVerified'
<1>1. PICK to \in {"run", "left"} :
         /\ UNCHANGED <<plan, caller, queue, given, schedVars, sg, err, held, verified, stopVars>>
         /\ \/ worker[w] = "got" /\ to = "run"
            \/ worker[w] = "idle" /\ to = "left"
         /\ worker' = [worker EXCEPT ![w] = to]
  BY DEF StartTask, Leave, jobVars
<1>2. /\ worker \in [Workers -> {"idle", "got", "run", "gone", "left"}]
      /\ worker' \in [Workers -> {"idle", "got", "run", "gone", "left"}]
      /\ worker'[w] = to /\ \A v \in Workers \ {w} : worker'[v] = worker[v]
  BY <1>1 DEF AuthInv, WorkersInv, PoolTypeOK
<1>3. Active' = Active /\ (Busy' <=> Busy) /\ Handed' = Handed
  BY <1>1, <1>2 DEF Active, Busy, Handed, schedVars
<1>4. PoolTypeOK'
  <2>1. \A j \in Jobs : Signatures(j)' = Signatures(j)
    BY <1>1, SamePlan
  <2> QED  BY <1>1, <1>2, <2>1 DEF AuthInv, WorkersInv, PoolTypeOK, schedVars, stopVars
<1>5. ErrorIsOwn' /\ CountInv'
  BY <1>1, <1>3 DEF AuthInv, WorkersInv, ErrorIsOwn, Fails, Signatures, CountInv, schedVars
<1>6. QueueInv'
  BY <1>1, <1>3 DEF AuthInv, WorkersInv, QueueInv, schedVars
<1>7. TasksInv'
  BY <1>1, <1>3 DEF AuthInv, WorkersInv, TasksInv, Signatures, schedVars
<1>8. NilMeansVerified'
  BY <1>1 DEF NilMeansVerified, Fails, Signatures, schedVars
<1> QED  BY <1>1, <1>4, <1>5, <1>6, <1>7, <1>8, BatchFrame DEF AuthInv, WorkersInv

-----------------------------------------------------------------------------
(* Stop touches only its own flags, and a stuttering step nothing.           *)
LEMMA StopInv ==
  ASSUME AuthInv, NilMeansVerified,
         UNCHANGED <<plan, jobVars, schedVars, sg, err, workerVars, batchVars>>,
         {queueClosed', shouldShutdown'} \subseteq BOOLEAN,
         stopper' \in {"none", "flagged", "waitAck", "collect", "done"}
  PROVE  AuthInv' /\ NilMeansVerified'
<1>1. UNCHANGED <<plan, caller, queue, given, taken, result, sched, cur, sg, err, worker, held,
                  verified, batchVars>>
  BY DEF jobVars, schedVars, workerVars
<1>2. Active' = Active /\ (Busy' <=> Busy) /\ Handed' = Handed
  BY <1>1 DEF Active, Busy, Handed
<1>3. PoolTypeOK'
  <2>1. \A j \in Jobs : Signatures(j)' = Signatures(j)
    BY <1>1, SamePlan
  <2> QED  BY <1>1, <2>1 DEF AuthInv, WorkersInv, PoolTypeOK
<1>4. ErrorIsOwn' /\ CountInv' /\ QueueInv'
  BY <1>1, <1>2 DEF AuthInv, WorkersInv, ErrorIsOwn, Fails, Signatures, CountInv, QueueInv
<1>5. TasksInv'
  BY <1>1, <1>2 DEF AuthInv, WorkersInv, TasksInv, Signatures
<1>6. NilMeansVerified'
  BY <1>1 DEF NilMeansVerified, Fails, Signatures
<1> QED  BY <1>1, <1>3, <1>4, <1>5, <1>6, BatchFrame DEF AuthInv, WorkersInv

LEMMA StopSteps ==
  ASSUME AuthInv, NilMeansVerified, UNCHANGED batchVars,
         SetShutdown \/ StopRest \/ UNCHANGED poolVars
  PROVE  AuthInv' /\ NilMeansVerified'
<1>1. {queueClosed, shouldShutdown} \subseteq BOOLEAN
      /\ stopper \in {"none", "flagged", "waitAck", "collect", "done"}
  BY DEF AuthInv, WorkersInv, PoolTypeOK
<1>2. /\ UNCHANGED <<plan, jobVars, schedVars, sg, err, workerVars>>
      /\ {queueClosed', shouldShutdown'} \subseteq BOOLEAN
      /\ stopper' \in {"none", "flagged", "waitAck", "collect", "done"}
  BY <1>1 DEF SetShutdown, StopRest, CloseQueue, CloseStopWorkers, StopReturn, StopStep, poolVars,
              stopVars
<1> QED  BY <1>2, StopInv

-----------------------------------------------------------------------------
LEMMA PoolInitInv == BatchInit => AuthInv /\ NilMeansVerified
<1> SUFFICES ASSUME BatchInit PROVE AuthInv /\ NilMeansVerified
  OBVIOUS
<1> USE DEF BatchInit, PoolInit
<1>1. Active = {} /\ ~Busy /\ ToSet(<<>>) = {}
  BY DEF Active, Busy, ToSet
<1>2. PoolTypeOK
  <2>1. <<>> \in Seq(Jobs) /\ Len(<<>>) <= MaxJobs /\ \A T : <<>> \in Seq(T)
    BY JobAssumption
  <2>2. given \in [Jobs -> Seq(SUBSET (Jobs \X Nat))]
    BY <2>1
  <2>3. {queueClosed, shouldShutdown} \subseteq BOOLEAN
    OBVIOUS
  <2> QED  BY <1>1, <2>1, <2>2, <2>3 DEF PoolTypeOK
<1>3. ErrorIsOwn
  BY Positive DEF ErrorIsOwn, Fails
<1>4. CountInv
  BY <1>1, ActiveCount DEF CountInv
<1>5. QueueInv
  BY <1>1 DEF QueueInv, IsInjective
<1>6. TasksInv
  BY <1>1 DEF TasksInv
<1>7. BatchTypeOK
  <2>1. \A j \in Jobs : Len(plan[j]) \in Nat
    BY <1>2, PlanLength
  <2>2. items \in [Jobs -> Seq(Jobs \X Nat)]
    OBVIOUS
  <2>3. bv \in [Jobs -> [batch : SUBSET (Jobs \X Nat), counter : Nat, total : Nat]]
    OBVIOUS
  <2> QED  BY <1>1, <2>1, <2>2, <2>3 DEF BatchTypeOK
<1>8. BatchInv
  BY DEF BatchInv, NoneLost
<1>9. NilMeansVerified
  BY DEF NilMeansVerified, Nil, NoResult
<1> QED  BY <1>2, <1>3, <1>4, <1>5, <1>6, <1>7, <1>8, <1>9 DEF AuthInv, WorkersInv

LEMMA Inductive ==
  AuthInv /\ NilMeansVerified /\ [AuthNext]_authVars => (AuthInv /\ NilMeansVerified)'
<1> SUFFICES ASSUME AuthInv, NilMeansVerified, [AuthNext]_authVars
             PROVE  AuthInv' /\ NilMeansVerified'
  OBVIOUS
<1>1. ASSUME NEW j \in Jobs, verifySignatures(j) PROVE AuthInv' /\ NilMeansVerified'
  BY <1>1, AddInv, BatchAddInv, CloseItemsInv, DoneInv DEF verifySignatures
<1>2. ASSUME NEW j \in Jobs, JobStep(j), UNCHANGED batchVars PROVE AuthInv' /\ NilMeansVerified'
  BY <1>2, JobInv, EnqueueInv DEF JobStep
<1>3. ASSUME Scheduler, UNCHANGED batchVars PROVE AuthInv' /\ NilMeansVerified'
  BY <1>3, SchedTakeInv, SchedNextInv, SchedDrainedInv, SchedFinishInv, SchedExitInv, AssignInv
     DEF Scheduler
<1>4. ASSUME NEW w \in Workers, WorkerStep(w), UNCHANGED batchVars
      PROVE  AuthInv' /\ NilMeansVerified'
  BY <1>4, SkipTaskInv, StartLeaveInv, EndTaskInv DEF WorkerStep
<1>5. CASE (SetShutdown \/ StopRest) /\ UNCHANGED batchVars
  BY <1>5, StopSteps
<1>6. CASE UNCHANGED authVars
  BY <1>6, StopSteps DEF authVars
<1> QED  BY <1>1, <1>2, <1>3, <1>4, <1>5, <1>6 DEF AuthNext, PoolNext

(* No signature is lost on its way from Add to a worker, the count of tasks  *)
(* is that of the job the scheduler works on, and a job fails only by a bad  *)
(* signature of its own.                                                     *)
THEOREM AuthInvariant == AuthSpec => []AuthInv
<1> QED  BY PoolInitInv, Inductive, PTL DEF AuthSpec

(* A nil result means that every signature of the block was verified, in a   *)
(* batch or alone, and that each is good.                                    *)
THEOREM NilIsVerified == AuthSpec => []NilMeansVerified
<1> QED  BY PoolInitInv, Inductive, PTL DEF AuthSpec

-----------------------------------------------------------------------------
(* Publication: the invariant                                                *)

Phases == {"none", "open", "removed", "deactivated", "closed"}

Msg == [mode : {"block", "tx"}, tx : Txs \cup {0}, height : Nat]

Connection ==
    [phase : Phases, writer : BOOLEAN, pending : Seq(Msg), queue : Seq(Seq(Msg)), got : Seq(Msg),
     lost : SUBSET Msg, blocksFrom : Int, txFrom : [Txs -> Int]]

(* The messages to the holder of r, in the order of their arrival.           *)
Stream(r) == r.got \o Flat(r.queue) \o r.pending

All(r) == ToSet(Stream(r)) \cup r.lost

(* What n has to be like after m: the blocks ascend, one answer a tx.  *)
Before(m, n) == m.mode = n.mode => IF m.mode = "block" THEN m.height < n.height ELSE m.tx # n.tx

Ordered(s) == \A i, j \in DOMAIN s : i < j => Before(s[i], s[j])

Good(r) == Ordered(Stream(r)) /\ ToSet(Stream(r)) \cap r.lost = {}

PubTypeOK ==
    /\ chain \in Seq(SUBSET Txs)
    /\ notify \in {"idle", "store", "blocks", "txs", "down", "tip"}
    /\ conn \in [Conns -> Connection]
    /\ blockListeners \in SUBSET Conns
    /\ txListeners \in [Txs -> SUBSET Conns]
    /\ expiringTxs \in SUBSET Txs
    /\ lastHeight \in Nat
    /\ crashes \in Nat

ChainOK ==
    /\ \A i, j \in DOMAIN chain : chain[i] \cap chain[j] # {} => i = j
    /\ \A i \in DOMAIN chain : \A tx \in chain[i] : Expiry[tx] >= i
    /\ notify \notin {"idle", "down"} => Height > 0

(* The entries of txCache for these heights.                                 *)
Exact(blocks, heights) == {t \in Txs \X heights : t[1] \in blocks[t[2]]}

IndexInv ==
    /\ cache \cup db \subseteq 1 .. Height
    /\ missed \subseteq 1 .. Height
    /\ txCache = Exact(chain, cache)
    /\ \A h \in db : h - BlockWindow \notin db
    /\ \A h \in cache \cup db : h + BlockWindow <= Height => h + BlockWindow \in missed
    /\ \A h \in (1 .. Height) \ missed : h \in db \/ \E k \in db : h + BlockWindow <= k
    /\ notify \in {"blocks", "txs"} => Height \notin missed
    /\ notify = "store" => Height \in missed 
    /\ notify = "store" => lastHeight = Height /\ Height - BlockWindow \notin cache
    /\ lastHeight <= Height
    /\ notify = "down" => cache = {} /\ lastHeight = 0
    /\ lastHeight # 0 => lastHeight \in cache
    /\ notify # "down" =>
        /\ cache \subseteq 1 .. lastHeight
        /\ \A h \in db : h \in cache \/ (notify = "store" /\ h = Height - BlockWindow)
        /\ \A h \in cache \ db : h + BlockWindow < lastHeight \/ (notify = "store" /\ h = Height)

(* What a step of its buffer leaves alone of a connection.                   *)
Status(r) == <<r.phase, r.writer, r.blocksFrom, r.txFrom>>

Fresh(r) == Status(r) = Status(NewConn) /\ All(r) = {}

Crashed ==
    notify \in {"down", "tip"} =>
        /\ \A c \in Conns : conn[c].phase = "none"
        /\ blockListeners = {} /\ \A tx \in Txs : txListeners[tx] = {}

BlocksInv(c) ==
    LET r == conn[c] IN
    /\ \A m \in All(r) : m.mode = "block" =>
            /\ r.blocksFrom # -1 /\ r.blocksFrom < m.height /\ m.height <= BlocksDone
            /\ m = BlockMsg(m.height)
    /\ r.blocksFrom >= -1 /\ (r.blocksFrom # -1 => r.blocksFrom <= BlocksDone)
    /\ c \in blockListeners => r.blocksFrom # -1
    /\ r.phase = "open" /\ r.blocksFrom # -1 =>
            /\ c \in blockListeners
            /\ \A h \in r.blocksFrom + 1 .. BlocksDone : BlockMsg(h) \in All(r) \/ h \in missed

AnswerRight(m, from) ==
    /\ m.tx \in Txs
    /\ IF m.height # 0 THEN m.height \in DOMAIN chain /\ m.tx \in chain[m.height]
       ELSE /\ Expiry[m.tx] < Height
            /\ \A k \in DOMAIN chain : m.tx \in chain[k] => k <= from \/ k \in missed

TxsInv(c) ==
    LET r == conn[c] IN
    /\ \A m \in All(r) : m.mode = "tx" => r.txFrom[m.tx] # -1 /\ AnswerRight(m, r.txFrom[m.tx])
                                          /\ c \notin txListeners[m.tx]
    /\ \A tx \in Txs :
        /\ r.txFrom[tx] >= -1
        /\ c \in txListeners[tx] =>
            /\ r.txFrom[tx] # -1
            /\ \A k \in DOMAIN chain : tx \in chain[k] =>
                    k <= r.txFrom[tx] \/ k \in missed \/ k > TxsDone
        /\ r.phase = "open" /\ r.txFrom[tx] # -1 =>
            c \in txListeners[tx] \/ \E m \in All(r) : m.mode = "tx" /\ m.tx = tx

ConnInv ==
    /\ \A c \in Conns : Good(conn[c]) /\ BlocksInv(c) /\ TxsInv(c)
    /\ \A c \in Conns : /\ conn[c].phase = "none" => Fresh(conn[c])
                        /\ conn[c].phase = "open" => conn[c].writer
    /\ \A tx \in Txs : txListeners[tx] # {} => tx \in expiringTxs \/ Expiry[tx] = 0

PubInv == PubTypeOK /\ ChainOK /\ IndexInv /\ Crashed /\ ConnInv

-----------------------------------------------------------------------------
(* Streams of messages                                                       *)

LEMMA MembersOf ==
    ASSUME NEW S, NEW s \in Seq(S)
    PROVE  /\ ToSet(s) \in SUBSET S
           /\ DOMAIN s = 1 .. Len(s)
           /\ \A m : m \in ToSet(s) <=> \E i \in 1 .. Len(s) : s[i] = m
BY DEF ToSet

LEMMA ToSetEmpty == ToSet(<<>>) = {}
BY DEF ToSet

LEMMA ToSetCat ==
    ASSUME NEW S, NEW s \in Seq(S), NEW t \in Seq(S)
    PROVE  ToSet(s \o t) = ToSet(s) \cup ToSet(t) /\ s \o t \in Seq(S)
<1>1. s \o t \in Seq(S) /\ Len(s \o t) = Len(s) + Len(t) /\ Len(s) \in Nat /\ Len(t) \in Nat
  OBVIOUS
<1>2. /\ \A i \in 1 .. Len(s) : (s \o t)[i] = s[i]
      /\ \A i \in 1 .. Len(t) : (s \o t)[Len(s) + i] = t[i]
      /\ \A i \in 1 .. Len(s) + Len(t) : i \notin 1 .. Len(s) =>
            i - Len(s) \in 1 .. Len(t) /\ (s \o t)[i] = t[i - Len(s)]
  OBVIOUS
<1>3. ASSUME NEW m PROVE m \in ToSet(s \o t) <=> m \in ToSet(s) \/ m \in ToSet(t)
  <2>1. ASSUME m \in ToSet(s \o t) PROVE m \in ToSet(s) \/ m \in ToSet(t)
    <3>1. PICK i \in 1 .. Len(s \o t) : (s \o t)[i] = m
      BY <1>1, <2>1, MembersOf
    <3> QED
      BY <1>1, <1>2, <3>1, MembersOf
  <2>2. ASSUME m \in ToSet(s) PROVE m \in ToSet(s \o t)
    <3>1. PICK i \in 1 .. Len(s) : s[i] = m
      BY <2>2, MembersOf
    <3>2. i \in 1 .. Len(s \o t)
      BY <1>1
    <3> QED
      BY <1>1, <1>2, <3>1, <3>2, MembersOf
  <2>3. ASSUME m \in ToSet(t) PROVE m \in ToSet(s \o t)
    <3>1. PICK i \in 1 .. Len(t) : t[i] = m
      BY <2>3, MembersOf
    <3>2. Len(s) + i \in 1 .. Len(s \o t)
      BY <1>1
    <3> QED
      BY <1>1, <1>2, <3>1, <3>2, MembersOf
  <2> QED
    BY <2>1, <2>2, <2>3
<1> QED
  BY <1>1, <1>3

(* Every message of s comes before every message of t.                       *)
AllBefore(A, B) == \A m \in A : \A n \in B : Before(m, n)

LEMMA OrderedCat ==
    ASSUME NEW S, NEW s \in Seq(S), NEW t \in Seq(S)
    PROVE  Ordered(s \o t) <=> Ordered(s) /\ Ordered(t) /\ AllBefore(ToSet(s), ToSet(t))
<1>1. s \o t \in Seq(S) /\ Len(s \o t) = Len(s) + Len(t) /\ Len(s) \in Nat /\ Len(t) \in Nat
      /\ DOMAIN s = 1 .. Len(s) /\ DOMAIN t = 1 .. Len(t) /\ DOMAIN (s \o t) = 1 .. Len(s) + Len(t)
  OBVIOUS
<1>2. /\ \A i \in 1 .. Len(s) : (s \o t)[i] = s[i]
      /\ \A i \in 1 .. Len(t) : (s \o t)[Len(s) + i] = t[i]
      /\ \A i \in 1 .. Len(s) + Len(t) : i \notin 1 .. Len(s) =>
            i - Len(s) \in 1 .. Len(t) /\ (s \o t)[i] = t[i - Len(s)]
  OBVIOUS
<1>3. ASSUME Ordered(s \o t) PROVE Ordered(s) /\ Ordered(t) /\ AllBefore(ToSet(s), ToSet(t))
  <2>1. \A i, j \in 1 .. Len(s) + Len(t) : i < j => Before((s \o t)[i], (s \o t)[j])
    BY <1>1, <1>3 DEF Ordered
  <2>2. Ordered(s)
    <3> SUFFICES ASSUME NEW i \in 1 .. Len(s), NEW j \in 1 .. Len(s), i < j
                 PROVE  Before(s[i], s[j])
      BY <1>1 DEF Ordered
    <3>1. i \in 1 .. Len(s) + Len(t) /\ j \in 1 .. Len(s) + Len(t)
      BY <1>1
    <3> QED
      BY <1>2, <2>1, <3>1
  <2>3. Ordered(t)
    <3> SUFFICES ASSUME NEW i \in 1 .. Len(t), NEW j \in 1 .. Len(t), i < j
                 PROVE  Before(t[i], t[j])
      BY <1>1 DEF Ordered
    <3>1. Len(s) + i \in 1 .. Len(s) + Len(t) /\ Len(s) + j \in 1 .. Len(s) + Len(t)
          /\ Len(s) + i < Len(s) + j
      BY <1>1
    <3> QED
      BY <1>2, <2>1, <3>1
  <2>4. AllBefore(ToSet(s), ToSet(t))
    <3> SUFFICES ASSUME NEW i \in 1 .. Len(s), NEW j \in 1 .. Len(t)
                 PROVE  Before(s[i], t[j])
      BY MembersOf DEF AllBefore
    <3>1. i \in 1 .. Len(s) + Len(t) /\ Len(s) + j \in 1 .. Len(s) + Len(t) /\ i < Len(s) + j
      BY <1>1
    <3> QED
      BY <1>2, <2>1, <3>1
  <2> QED
    BY <2>2, <2>3, <2>4
<1>4. ASSUME Ordered(s), Ordered(t), AllBefore(ToSet(s), ToSet(t)) PROVE Ordered(s \o t)
  <2> SUFFICES ASSUME NEW i \in 1 .. Len(s) + Len(t), NEW j \in 1 .. Len(s) + Len(t), i < j
               PROVE  Before((s \o t)[i], (s \o t)[j])
    BY <1>1 DEF Ordered
  <2>1. CASE j \in 1 .. Len(s)
    <3>1. i \in 1 .. Len(s)
      BY <2>1
    <3> QED
      BY <1>1, <1>2, <1>4, <2>1, <3>1 DEF Ordered
  <2>2. CASE i \notin 1 .. Len(s)
    <3>1. j \notin 1 .. Len(s) /\ i - Len(s) < j - Len(s)
      BY <1>1, <2>2
    <3>2. i - Len(s) \in DOMAIN t /\ j - Len(s) \in DOMAIN t
          /\ (s \o t)[i] = t[i - Len(s)] /\ (s \o t)[j] = t[j - Len(s)]
      BY <1>1, <1>2, <2>2, <3>1
    <3> QED
      BY <1>4, <3>1, <3>2 DEF Ordered
  <2>3. CASE i \in 1 .. Len(s) /\ j \notin 1 .. Len(s)
    <3>1. s[i] \in ToSet(s)
      BY <2>3, MembersOf
    <3>2. j - Len(s) \in 1 .. Len(t) /\ (s \o t)[j] = t[j - Len(s)] /\ (s \o t)[i] = s[i]
      BY <1>2, <2>3
    <3>3. t[j - Len(s)] \in ToSet(t)
      BY <3>2, MembersOf
    <3> QED
      BY <1>4, <3>1, <3>2, <3>3 DEF AllBefore
  <2> QED
    BY <2>1, <2>2, <2>3
<1> QED
  BY <1>3, <1>4

LEMMA OrderedOne == ASSUME NEW m PROVE Ordered(<<m>>) /\ ToSet(<<m>>) = {m}
<1>1. DOMAIN <<m>> = {1} /\ <<m>>[1] = m
  OBVIOUS
<1> QED
  BY <1>1 DEF Ordered, ToSet

LEMMA OrderedEmpty == Ordered(<<>>)
BY DEF Ordered

LEMMA AppendIs == ASSUME NEW S, NEW s \in Seq(S), NEW m \in S PROVE Append(s, m) = s \o <<m>>
OBVIOUS

(* No message comes before itself.                                           *)
LEMMA NotTwice ==
    ASSUME NEW m \in Msg
    PROVE  ~Before(m, m)
BY PublicationAssumption DEF Before, Msg

-----------------------------------------------------------------------------
(* The batches of a queue, one after the other                               *)

AddBatch(p, msgs, batch) == msgs \o batch
Batches == INSTANCE FoldLemmas WITH Op <- AddBatch, Pick <- Max

LEMMA MaxPicksLast ==
    ASSUME NEW T \in SUBSET Nat, T # {}, IsFiniteSet(T)
    PROVE  Max(T) \in T /\ \A i \in T : i <= Max(T)
<1>1. PICK m \in T : \A i \in T : i <= m
  BY Batches!LargestExists DEF IsFiniteSet, Batches!IsFiniteSet
<1>2. \A i \in T : m >= i
  BY <1>1
<1> QED
  BY <1>1, <1>2 DEF Max

LEMMA BatchesLast == Batches!PicksLast
BY MaxPicksLast DEF Batches!PicksLast, IsFiniteSet, Batches!IsFiniteSet

LEMMA FlatIs ==
    ASSUME NEW S, NEW q \in Seq(S)
    PROVE  Flat(q) = Batches!Fold(0, <<>>, q)
<1>1. DOMAIN q = 1 .. Len(q)
  OBVIOUS
<1> QED
  BY <1>1, Zenon DEF Flat, FoldLeft, MapThenFoldSet, Batches!Fold, Batches!Value, Batches!Adds, AddBatch

LEMMA FlatEmpty == Flat(<<>>) = <<>>
<1>1. <<>> \in Seq(Msg)
  OBVIOUS
<1> QED
  BY <1>1, FlatIs, BatchesLast, Batches!FoldEmpty

LEMMA FlatType == ASSUME NEW S, NEW q \in Seq(Seq(S)) PROVE Flat(q) \in Seq(S)
<1>1. \A acc \in Seq(S) : \A i \in 1 .. Len(q) : AddBatch(0, acc, q[i]) \in Seq(S)
  BY DEF AddBatch
<1>2. <<>> \in Seq(S)
  OBVIOUS
<1>3. Batches!Fold(0, <<>>, q) \in Seq(S)
  BY <1>1, <1>2, BatchesLast, Batches!FoldKeeps
<1> QED
  BY <1>3, FlatIs

LEMMA FlatAppend ==
    ASSUME NEW S, NEW q \in Seq(Seq(S)), NEW b \in Seq(S)
    PROVE  Flat(Append(q, b)) = Flat(q) \o b
<1>1. Batches!Fold(0, <<>>, Append(q, b)) = AddBatch(0, Batches!Fold(0, <<>>, q), b)
  BY BatchesLast, Batches!FoldAppend
<1>2. Append(q, b) \in Seq(Seq(S))
  OBVIOUS
<1>3. Flat(Append(q, b)) = Batches!Fold(0, <<>>, Append(q, b)) /\ Flat(q) = Batches!Fold(0, <<>>, q)
  BY <1>2, FlatIs
<1> QED
  BY <1>1, <1>3 DEF AddBatch

LEMMA CatCat ==
    ASSUME NEW S, NEW x, NEW y, NEW z, x \in Seq(S), y \in Seq(S), z \in Seq(S)
    PROVE  x \o y \o z = x \o (y \o z)
OBVIOUS

Parts(S, n, g, t) ==
    (\A i \in 0 .. n : g[i] \in Seq(S)) /\ (\A i \in 1 .. n : t[i] \in Seq(S))

Prefixed(b, n, g, t) ==
    \A i \in 1 .. n : (b \o g[i - 1]) \o t[i] = b \o (g[i - 1] \o t[i])

LEMMA PrefixedIs ==
    ASSUME NEW S, NEW b \in Seq(S), NEW n \in Nat, NEW g, NEW t, Parts(S, n, g, t)
    PROVE  Prefixed(b, n, g, t)
<1> SUFFICES ASSUME NEW i \in 1 .. n
             PROVE  (b \o g[i - 1]) \o t[i] = b \o (g[i - 1] \o t[i])
  BY DEF Prefixed
<1> DEFINE u == g[i - 1]
           v == t[i]
<1>1. b \in Seq(S) /\ u \in Seq(S) /\ v \in Seq(S)
  BY DEF Parts
<1> HIDE DEF u, v
<1>2. b \o u \o v = b \o (u \o v)
  BY <1>1, CatCat
<1> QED
  BY <1>2 DEF u, v

LEMMA FlatCons ==
    ASSUME NEW S, NEW b \in Seq(S), NEW t \in Seq(Seq(S)), NEW q \in Seq(Seq(S)),
           Len(q) = Len(t) + 1, q[1] = b, \A i \in 1 .. Len(t) : t[i] = q[i + 1]
    PROVE  Flat(q) = b \o Flat(t)
<1>1. /\ Len(q) \in Nat /\ Len(t) \in Nat /\ Len(q) = Len(t) + 1
      /\ q[1] = b /\ \A i \in 1 .. Len(t) : t[i] = q[i + 1] /\ t[i] \in Seq(S)
  OBVIOUS
<1>2. PICK g : Batches!Steps(0, <<>>, t, g) /\ Batches!Fold(0, <<>>, t) = g[Len(t)]
  BY <1>1, BatchesLast, Batches!FoldSteps
<1>3. g[0] = <<>> /\ \A i \in 1 .. Len(t) : g[i] = g[i - 1] \o t[i]
  BY <1>2 DEF Batches!Steps, AddBatch
<1> DEFINE h == [i \in 0 .. Len(q) |-> IF i = 0 THEN <<>> ELSE b \o g[i - 1]]
           Q == {i \in 0 .. Len(t) : g[i] \in Seq(S)}
<1>4. \A i \in 0 .. Len(t) : g[i] \in Seq(S)
  <2>1. 0 \in Q
    <3>1. <<>> \in Seq(S) /\ 0 \in 0 .. Len(t)
      BY <1>1
    <3>2. g[0] \in Seq(S)
      BY <1>3, <3>1, Zenon
    <3> QED
      BY <3>1, <3>2
  <2>2. ASSUME NEW i \in 1 .. Len(t), i - 1 \in Q PROVE i \in Q
    <3>1. g[i - 1] \in Seq(S) /\ t[i] \in Seq(S) /\ i \in 0 .. Len(t)
      BY <1>1, <2>2
    <3>2. g[i - 1] \o t[i] \in Seq(S)
      BY <3>1
    <3>3. g[i] \in Seq(S)
      BY <1>3, <3>2, Zenon
    <3> QED
      BY <3>1, <3>3
  <2> HIDE DEF Q
  <2>3. \A i \in 0 .. Len(t) : i \in Q
    BY <1>1, <2>1, <2>2, Batches!UpTo
  <2> QED
    BY <2>3 DEF Q
<1>11. \A i \in 1 .. Len(t) : (b \o g[i - 1]) \o t[i] = b \o (g[i - 1] \o t[i])
  <2>1. b \in Seq(S) /\ Len(t) \in Nat
    BY <1>1
  <2>2. Parts(S, Len(t), g, t)
    BY <1>1, <1>4 DEF Parts
  <2> HIDE DEF h, Q
  <2>3. Prefixed(b, Len(t), g, t)
    BY <2>1, <2>2, PrefixedIs, Zenon
  <2> QED
    BY <2>3, Zenon DEF Prefixed
<1>5. \A i \in 1 .. Len(q) : h[i] = h[i - 1] \o q[i]
  <2> TAKE i \in 1 .. Len(q)
  <2>1. CASE i = 1
    <3>1. h[1] = b \o g[0] /\ h[0] = <<>>
      BY <1>1
    <3>2. b \o <<>> = b /\ <<>> \o b = b
      BY <1>1
    <3> QED
      BY <1>1, <1>3, <2>1, <3>1, <3>2
  <2>2. CASE i # 1
    <3>1. i - 1 \in 1 .. Len(t) /\ i - 1 - 1 \in 0 .. Len(t) /\ (i - 1) + 1 = i
          /\ i \in 0 .. Len(q) /\ i - 1 \in 0 .. Len(q) /\ i # 0 /\ i - 1 # 0
      BY <1>1, <2>2
    <3>2. h[i] = b \o g[i - 1] /\ h[i - 1] = b \o g[i - 1 - 1] /\ t[i - 1] = q[i]
          /\ g[i - 1] = g[i - 1 - 1] \o t[i - 1]
      BY <1>1, <1>3, <3>1
    <3>4. b \o g[i - 1 - 1] \o t[i - 1] = b \o (g[i - 1 - 1] \o t[i - 1])
      BY <1>11, <3>1
    <3> HIDE DEF h
    <3> QED
      BY <3>2, <3>4
  <2> QED
    BY <2>1, <2>2
<1>6. h[0] = <<>> /\ h[Len(q)] = b \o g[Len(t)]
  BY <1>1
<1> HIDE DEF h
<1>7. Batches!Steps(0, <<>>, q, h)
  BY <1>5, <1>6 DEF Batches!Steps, AddBatch
<1>8. Batches!Fold(0, <<>>, q) = h[Len(q)]
  BY <1>7, BatchesLast, Batches!FoldIs
<1>9. Flat(q) = Batches!Fold(0, <<>>, q) /\ Flat(t) = Batches!Fold(0, <<>>, t)
  BY <1>1, FlatIs
<1> QED
  BY <1>2, <1>6, <1>8, <1>9

LEMMA FlatTail ==
    ASSUME NEW S, NEW q \in Seq(Seq(S)), q # <<>>
    PROVE  Flat(q) = Head(q) \o Flat(Tail(q)) /\ Head(q) \in Seq(S) /\ Tail(q) \in Seq(Seq(S))
<1>1. /\ Tail(q) \in Seq(Seq(S)) /\ Head(q) \in Seq(S) /\ Len(q) = Len(Tail(q)) + 1
      /\ q[1] = Head(q) /\ \A i \in 1 .. Len(Tail(q)) : Tail(q)[i] = q[i + 1]
  OBVIOUS
<1> QED
  BY <1>1, FlatCons

-----------------------------------------------------------------------------
(* Buffers                                                                   *)

LEMMA StreamParts ==
    ASSUME NEW r \in Connection
    PROVE  /\ r.got \in Seq(Msg) /\ Flat(r.queue) \in Seq(Msg) /\ r.pending \in Seq(Msg)
           /\ Stream(r) \in Seq(Msg)
           /\ ToSet(Stream(r)) = ToSet(r.got) \cup ToSet(Flat(r.queue)) \cup ToSet(r.pending)
           /\ Ordered(Stream(r)) <=>
                /\ Ordered(r.got) /\ Ordered(Flat(r.queue)) /\ Ordered(r.pending)
                /\ AllBefore(ToSet(r.got), ToSet(Flat(r.queue)))
                /\ AllBefore(ToSet(r.got) \cup ToSet(Flat(r.queue)), ToSet(r.pending))
<1>1. r.got \in Seq(Msg) /\ r.queue \in Seq(Seq(Msg)) /\ r.pending \in Seq(Msg)
  BY DEF Connection
<1>2. Flat(r.queue) \in Seq(Msg)
  BY <1>1, FlatType
<1> DEFINE flat == Flat(r.queue)
           most == r.got \o flat
<1> HIDE DEF flat
<1>3. flat \in Seq(Msg)
  BY <1>2 DEF flat
<1>4. most \in Seq(Msg) /\ ToSet(most) = ToSet(r.got) \cup ToSet(flat)
  BY <1>1, <1>3, ToSetCat
<1>5. Ordered(most) <=> Ordered(r.got) /\ Ordered(flat) /\ AllBefore(ToSet(r.got), ToSet(flat))
  BY <1>1, <1>3, OrderedCat
<1>6. Stream(r) = most \o r.pending
  BY DEF Stream, flat
<1> HIDE DEF most
<1>7. Stream(r) \in Seq(Msg) /\ ToSet(Stream(r)) = ToSet(most) \cup ToSet(r.pending)
  BY <1>1, <1>4, <1>6, ToSetCat
<1>8. Ordered(Stream(r)) <=> Ordered(most) /\ Ordered(r.pending)
                             /\ AllBefore(ToSet(most), ToSet(r.pending))
  BY <1>1, <1>4, <1>6, OrderedCat
<1> QED
  BY <1>1, <1>3, <1>4, <1>5, <1>7, <1>8 DEF flat

LEMMA AllType == ASSUME NEW r \in Connection PROVE All(r) \in SUBSET Msg
<1>1. ToSet(Stream(r)) \in SUBSET Msg
  BY StreamParts, MembersOf
<1> QED
  BY <1>1 DEF All, Connection

(* The fields of a buffer, one by one.                                       *)
LEMMA SetPending ==
    ASSUME NEW r \in Connection, NEW p \in Seq(Msg)
    PROVE  LET s == [r EXCEPT !.pending = p] IN
           /\ s \in Connection /\ Status(s) = Status(r)
           /\ s.pending = p /\ s.queue = r.queue /\ s.got = r.got /\ s.lost = r.lost
BY DEF Connection, Status

LEMMA SetQueue ==
    ASSUME NEW r \in Connection, NEW q \in Seq(Seq(Msg))
    PROVE  LET s == [r EXCEPT !.queue = q] IN
           /\ s \in Connection /\ Status(s) = Status(r)
           /\ s.pending = r.pending /\ s.queue = q /\ s.got = r.got /\ s.lost = r.lost
BY DEF Connection, Status

LEMMA SetGot ==
    ASSUME NEW r \in Connection, NEW g \in Seq(Msg)
    PROVE  LET s == [r EXCEPT !.got = g] IN
           /\ s \in Connection /\ Status(s) = Status(r)
           /\ s.pending = r.pending /\ s.queue = r.queue /\ s.got = g /\ s.lost = r.lost
BY DEF Connection, Status

LEMMA SetLost ==
    ASSUME NEW r \in Connection, NEW l \in SUBSET Msg
    PROVE  LET s == [r EXCEPT !.lost = l] IN
           /\ s \in Connection /\ Status(s) = Status(r)
           /\ s.pending = r.pending /\ s.queue = r.queue /\ s.got = r.got /\ s.lost = l
BY DEF Connection, Status

LEMMA ClearKeeps ==
    ASSUME NEW r \in Connection, Good(r)
    PROVE  LET s == ClearPending(r) IN
           s \in Connection /\ Good(s) /\ All(s) = All(r) /\ Status(s) = Status(r)
<1> DEFINE s == ClearPending(r)
           G == ToSet(r.got)
           F == ToSet(Flat(r.queue))
           P == ToSet(r.pending)
<1>1. /\ r.got \in Seq(Msg) /\ r.queue \in Seq(Seq(Msg)) /\ r.pending \in Seq(Msg)
      /\ r.lost \in SUBSET Msg
  BY DEF Connection
<1>2. /\ Ordered(r.got) /\ Ordered(Flat(r.queue)) /\ Ordered(r.pending)
      /\ AllBefore(G, F) /\ AllBefore(G \cup F, P)
      /\ ToSet(Stream(r)) = G \cup F \cup P
      /\ ToSet(Stream(r)) \cap r.lost = {}
      /\ Flat(r.queue) \in Seq(Msg)
  BY StreamParts DEF Good
<1>3. G \in SUBSET Msg /\ F \in SUBSET Msg /\ P \in SUBSET Msg
  BY <1>1, <1>2, MembersOf
<1>4. ToSet(<<>>) = {} /\ Ordered(<<>>) /\ \A A : AllBefore(A, {})
  BY ToSetEmpty, OrderedEmpty DEF AllBefore
<1>5. CASE Len(r.queue) < MaxPending
  <2>1. s = [r EXCEPT !.pending = <<>>, !.queue = Append(@, r.pending)]
    BY <1>5 DEF ClearPending
  <2>2. /\ s \in Connection /\ Status(s) = Status(r) /\ s.got = r.got /\ s.lost = r.lost
        /\ s.queue = Append(r.queue, r.pending) /\ s.pending = <<>>
    <3> DEFINE x == [r EXCEPT !.pending = <<>>]
               q == Append(r.queue, r.pending)
    <3>1. <<>> \in Seq(Msg) /\ q \in Seq(Seq(Msg))
      BY <1>1
    <3>2. s = [x EXCEPT !.queue = q]
      BY <2>1, Zenon
    <3> HIDE DEF s, q
    <3>3. x \in Connection /\ Status(x) = Status(r) /\ x.pending = <<>> /\ x.got = r.got /\ x.lost = r.lost
      BY <3>1, SetPending
    <3> HIDE DEF x
    <3>4. s \in Connection /\ Status(s) = Status(x) /\ s.pending = x.pending /\ s.queue = q
          /\ s.got = x.got /\ s.lost = x.lost
      BY <3>1, <3>2, <3>3, SetQueue
    <3> QED
      BY <3>3, <3>4 DEF q
  <2> HIDE DEF s
  <2>3. Flat(s.queue) = Flat(r.queue) \o r.pending
    BY <1>1, <2>2, FlatAppend
  <2>4. ToSet(Flat(s.queue)) = F \cup P
    BY <1>1, <1>2, <2>3, ToSetCat
  <2>5. Ordered(Flat(s.queue))
    <3>1. AllBefore(F, P)
      BY <1>2 DEF AllBefore
    <3> QED
      BY <1>1, <1>2, <2>3, <3>1, OrderedCat
  <2>6. AllBefore(G, F \cup P)
    BY <1>2 DEF AllBefore
  <2>7. Ordered(Stream(s)) /\ ToSet(Stream(s)) = G \cup F \cup P
    BY <1>2, <1>4, <2>2, <2>4, <2>5, <2>6, StreamParts
  <2> QED
    BY <1>2, <2>2, <2>7 DEF Good, All, s
<1>6. CASE ~(Len(r.queue) < MaxPending)
  <2>1. s = [r EXCEPT !.pending = <<>>, !.lost = @ \cup ToSet(r.pending)]
    BY <1>6 DEF ClearPending
  <2>2. /\ s \in Connection /\ Status(s) = Status(r) /\ s.got = r.got /\ s.lost = r.lost \cup P
        /\ s.queue = r.queue /\ s.pending = <<>>
    <3> DEFINE x == [r EXCEPT !.pending = <<>>]
               l == r.lost \cup P
    <3>1. <<>> \in Seq(Msg) /\ l \in SUBSET Msg
      BY <1>1, <1>3
    <3>2. s = [x EXCEPT !.lost = l]
      BY <2>1, Zenon
    <3> HIDE DEF s, l
    <3>3. x \in Connection /\ Status(x) = Status(r) /\ x.pending = <<>> /\ x.got = r.got /\ x.queue = r.queue
      BY <3>1, SetPending
    <3> HIDE DEF x
    <3>4. s \in Connection /\ Status(s) = Status(x) /\ s.pending = x.pending /\ s.lost = l
          /\ s.got = x.got /\ s.queue = x.queue
      BY <3>1, <3>2, <3>3, SetLost
    <3> QED
      BY <3>3, <3>4 DEF l
  <2> HIDE DEF s
  <2>3. Ordered(Stream(s)) /\ ToSet(Stream(s)) = G \cup F
    BY <1>2, <1>4, <2>2, StreamParts
  <2>4. (G \cup F) \cap P = {}
    BY <1>2, <1>3, NotTwice DEF AllBefore
  <2>5. Good(s)
    BY <1>2, <2>2, <2>3, <2>4 DEF Good
  <2> QED
    BY <1>2, <2>2, <2>3, <2>5 DEF All, s
<1> QED
  BY <1>5, <1>6

LEMMA FlushKeeps ==
    ASSUME NEW r \in Connection, Good(r), NEW msg
    PROVE  LET s == Flushed(r, msg) IN
           s \in Connection /\ Good(s) /\ All(s) = All(r) /\ Status(s) = Status(r)
BY ClearKeeps DEF Flushed

(* A message that comes after all those before is sent or lost.              *)
LEMMA SendAdds ==
    ASSUME NEW r \in Connection, Good(r), NEW msg \in Msg, AllBefore(All(r), {msg})
    PROVE  LET s == Send(r, msg) IN
           s \in Connection /\ Good(s) /\ All(s) = All(r) \cup {msg} /\ Status(s) = Status(r)
<1> DEFINE s == Send(r, msg)
<1>1. msg \notin All(r)
  BY NotTwice DEF AllBefore
<1>2. CASE SizeOf(msg) > MaxSize
  <2>1. s = [r EXCEPT !.lost = @ \cup {msg}]
    BY <1>2 DEF Send
  <2>2. /\ s \in Connection /\ Status(s) = Status(r) /\ s.got = r.got /\ s.queue = r.queue
        /\ s.pending = r.pending /\ s.lost = r.lost \cup {msg}
    BY <2>1 DEF Connection, Status
  <2>3. Stream(s) = Stream(r)
    BY <2>2, Zenon DEF Stream
  <2> HIDE DEF s
  <2>4. Good(s) /\ All(s) = All(r) \cup {msg}
    BY <1>1, <2>2, <2>3 DEF Good, All
  <2> QED
    BY <2>2, <2>4 DEF s
<1>3. CASE ~(SizeOf(msg) > MaxSize)
  <2> DEFINE f == Flushed(r, msg)
             P == ToSet(f.pending)
             Q == ToSet(f.got) \cup ToSet(Flat(f.queue))
  <2>1. f \in Connection /\ Good(f) /\ All(f) = All(r) /\ Status(f) = Status(r)
    BY FlushKeeps
  <2>2. s = [f EXCEPT !.pending = Append(@, msg)]
    BY <1>3 DEF Send
  <2> HIDE DEF f
  <2>3. /\ s \in Connection /\ Status(s) = Status(f) /\ s.got = f.got /\ s.queue = f.queue
        /\ s.pending = Append(f.pending, msg) /\ s.lost = f.lost
    <3> DEFINE p == Append(f.pending, msg)
    <3>1. f.pending \in Seq(Msg)
      BY <2>1 DEF Connection
    <3>2. p \in Seq(Msg)
      BY <3>1
    <3> HIDE DEF p, s
    <3>3. s = [f EXCEPT !.pending = p]
      BY <2>2 DEF p
    <3>4. s \in Connection /\ Status(s) = Status(f) /\ s.got = f.got /\ s.queue = f.queue
          /\ s.pending = p /\ s.lost = f.lost
      BY <2>1, <3>2, <3>3, SetPending
    <3> QED
      BY <3>4 DEF p
  <2> HIDE DEF s
  <2>4. f.pending \in Seq(Msg) /\ <<msg>> \in Seq(Msg)
    BY <2>1 DEF Connection
  <2>5. s.pending = f.pending \o <<msg>> /\ ToSet(<<msg>>) = {msg} /\ Ordered(<<msg>>)
    BY <2>3, <2>4, AppendIs, OrderedOne
  <2>6. /\ Ordered(f.got) /\ Ordered(Flat(f.queue)) /\ Ordered(f.pending)
        /\ AllBefore(ToSet(f.got), ToSet(Flat(f.queue))) /\ AllBefore(Q, P)
        /\ ToSet(Stream(f)) = Q \cup P
    BY <2>1, StreamParts DEF Good
  <2>7. AllBefore(P, {msg}) /\ AllBefore(Q, {msg})
    BY <2>1, <2>6 DEF AllBefore, All
  <2>8. ToSet(s.pending) = P \cup {msg}
    <3>1. ToSet(f.pending \o <<msg>>) = P \cup ToSet(<<msg>>)
      BY <2>4, ToSetCat, ZenonT(60)
    <3> QED
      BY <2>5, <3>1, Zenon
  <2>9. Ordered(s.pending)
    <3>1. Ordered(f.pending \o <<msg>>)
      <4>1. Ordered(f.pending) /\ Ordered(<<msg>>) /\ AllBefore(P, ToSet(<<msg>>))
        BY <2>5, <2>6, <2>7
      <4> QED
        BY <2>4, <4>1, OrderedCat, Zenon
    <3> QED
      BY <2>5, <3>1, Zenon
  <2>10. AllBefore(Q, P \cup {msg})
    BY <2>6, <2>7 DEF AllBefore
  <2>11. Ordered(Stream(s)) /\ ToSet(Stream(s)) = Q \cup P \cup {msg}
    BY <2>3, <2>6, <2>8, <2>9, <2>10, StreamParts
  <2>12. Good(s)
    BY <1>1, <2>1, <2>3, <2>6, <2>11 DEF Good, All
  <2>13. All(s) = All(r) \cup {msg}
    BY <2>1, <2>3, <2>6, <2>11 DEF All
  <2> QED
    BY <2>1, <2>3, <2>12, <2>13 DEF s
<1> QED
  BY <1>2, <1>3

LEMMA WriteKeeps ==
    ASSUME NEW r \in Connection, Good(r), r.queue # <<>>
    PROVE  LET s == [r EXCEPT !.queue = Tail(@), !.got = @ \o Head(r.queue)] IN
           s \in Connection /\ Good(s) /\ All(s) = All(r) /\ Status(s) = Status(r)
<1> DEFINE s == [r EXCEPT !.queue = Tail(@), !.got = @ \o Head(r.queue)]
<1>1. /\ r.got \in Seq(Msg) /\ r.queue \in Seq(Seq(Msg)) /\ r.pending \in Seq(Msg)
  BY DEF Connection
<1>2. /\ Flat(r.queue) = Head(r.queue) \o Flat(Tail(r.queue))
      /\ Head(r.queue) \in Seq(Msg) /\ Tail(r.queue) \in Seq(Seq(Msg))
  BY <1>1, FlatTail
<1>3. Flat(Tail(r.queue)) \in Seq(Msg)
  BY <1>2, FlatType
<1> DEFINE h == Head(r.queue)
           t == Flat(Tail(r.queue))
<1>4. r.got \o h \in Seq(Msg)
  BY <1>1, <1>2
<1>5. /\ s \in Connection /\ Status(s) = Status(r) /\ s.got = r.got \o h
      /\ s.queue = Tail(r.queue) /\ s.pending = r.pending /\ s.lost = r.lost
  <2> DEFINE x == [r EXCEPT !.queue = Tail(r.queue)]
             g == r.got \o h
  <2>1. s = [x EXCEPT !.got = g]
    BY Zenon
  <2> HIDE DEF s
  <2>2. g \in Seq(Msg)
    BY <1>4
  <2> HIDE DEF g
  <2>3. x \in Connection /\ Status(x) = Status(r) /\ x.pending = r.pending /\ x.queue = Tail(r.queue)
        /\ x.lost = r.lost
    BY <1>2, SetQueue
  <2> HIDE DEF x
  <2>4. s \in Connection /\ Status(s) = Status(x) /\ s.pending = x.pending /\ s.got = g
        /\ s.queue = x.queue /\ s.lost = x.lost
    BY <2>1, <2>2, <2>3, SetGot
  <2> QED
    BY <2>3, <2>4 DEF g
<1> HIDE DEF s
<1>6. Stream(s) = (r.got \o h) \o t \o r.pending
  BY <1>5, Zenon DEF Stream
<1>7. Stream(r) = r.got \o (h \o t) \o r.pending
  BY <1>2, Zenon DEF Stream
<1> DEFINE g == r.got
<1>8. g \in Seq(Msg) /\ h \in Seq(Msg) /\ t \in Seq(Msg)
  BY <1>1, <1>2, <1>3
<1> HIDE DEF g, h, t
<1>9. g \o h \o t = g \o (h \o t)
  BY <1>8, CatCat
<1>10. Stream(s) = Stream(r)
  BY <1>6, <1>7, <1>9, Zenon DEF g
<1> QED
  BY <1>5, <1>10 DEF Good, All, s

(* A writer that ends drops the batch it has.                                *)
LEMMA DropKeeps ==
    ASSUME NEW r \in Connection, Good(r), r.queue # <<>>
    PROVE  LET s == [r EXCEPT !.queue = Tail(@)] IN
           s \in Connection /\ Good(s) /\ All(s) \subseteq All(r) /\ Status(s) = Status(r)
<1> DEFINE s == [r EXCEPT !.queue = Tail(@)]
           h == Head(r.queue)
           t == Flat(Tail(r.queue))
<1>1. /\ r.got \in Seq(Msg) /\ r.queue \in Seq(Seq(Msg)) /\ r.pending \in Seq(Msg)
  BY DEF Connection
<1>2. /\ Flat(r.queue) = h \o t /\ h \in Seq(Msg) /\ Tail(r.queue) \in Seq(Seq(Msg))
  BY <1>1, FlatTail
<1>3. t \in Seq(Msg)
  BY <1>2, FlatType
<1>4. /\ s \in Connection /\ Status(s) = Status(r) /\ s.got = r.got
      /\ s.queue = Tail(r.queue) /\ s.pending = r.pending /\ s.lost = r.lost
  BY <1>2 DEF Connection, Status
<1>5. Flat(s.queue) = t
  BY <1>4
<1> HIDE DEF s, h, t
<1> DEFINE G == ToSet(r.got)
           P == ToSet(r.pending)
           F == ToSet(Flat(r.queue))
           T == ToSet(t)
<1>6. F = ToSet(h) \cup T
  BY <1>2, <1>3, ToSetCat
<1>7. /\ Ordered(r.got) /\ Ordered(Flat(r.queue)) /\ Ordered(r.pending)
      /\ AllBefore(G, F) /\ AllBefore(G \cup F, P)
      /\ ToSet(Stream(r)) = G \cup F \cup P
  BY StreamParts DEF Good
<1>8. Ordered(t)
  BY <1>2, <1>3, <1>7, OrderedCat
<1>9. AllBefore(G, T) /\ AllBefore(G \cup T, P)
  BY <1>6, <1>7 DEF AllBefore
<1>10. Ordered(Stream(s)) /\ ToSet(Stream(s)) = G \cup T \cup P
  BY <1>4, <1>5, <1>7, <1>8, <1>9, StreamParts
<1>11. Good(s) /\ All(s) \subseteq All(r)
  BY <1>4, <1>6, <1>7, <1>10 DEF Good, All
<1> QED
  BY <1>4, <1>11 DEF s

-----------------------------------------------------------------------------
(* Messages to many connections                                              *)

Gets(r, msg, to, c) == c \in to /\ r.phase = "open"

Sound(all) == all \in [Conns -> Connection] /\ \A c \in Conns : Good(all[c])

MayFollow(all, msg, to) ==
    \A c \in Conns : Gets(all[c], msg, to, c) => AllBefore(All(all[c]), {msg})

LEMMA PublishAdds ==
    ASSUME NEW all, Sound(all), NEW msg \in Msg, NEW to, MayFollow(all, msg, to)
    PROVE  LET new == Publish(all, msg, to) IN
           /\ Sound(new)
           /\ \A c \in Conns :
                /\ Status(new[c]) = Status(all[c])
                /\ All(new[c]) = IF Gets(all[c], msg, to, c) THEN All(all[c]) \cup {msg}
                                 ELSE All(all[c])
<1> DEFINE new == Publish(all, msg, to)
<1>1. ASSUME NEW c \in Conns
      PROVE  /\ new[c] = IF Gets(all[c], msg, to, c) THEN Send(all[c], msg) ELSE all[c]
             /\ new[c] \in Connection /\ Good(new[c]) /\ Status(new[c]) = Status(all[c])
             /\ All(new[c]) = IF Gets(all[c], msg, to, c) THEN All(all[c]) \cup {msg}
                              ELSE All(all[c])
  <2>1. new[c] = IF Gets(all[c], msg, to, c) THEN Send(all[c], msg) ELSE all[c]
    BY DEF Publish, Gets
  <2>2. all[c] \in Connection /\ Good(all[c])
    BY DEF Sound
  <2> HIDE DEF new
  <2>3. CASE Gets(all[c], msg, to, c)
    <3>1. AllBefore(All(all[c]), {msg})
      BY <2>3 DEF MayFollow
    <3> QED
      BY <2>1, <2>2, <2>3, <3>1, SendAdds
  <2>4. CASE ~Gets(all[c], msg, to, c)
    BY <2>1, <2>2, <2>4
  <2> QED
    BY <2>1, <2>3, <2>4
<1>2. new = [c \in Conns |-> IF Gets(all[c], msg, to, c) THEN Send(all[c], msg) ELSE all[c]]
  BY Zenon DEF Publish, Gets
<1>3. new \in [Conns -> Connection]
  <2> HIDE DEF new
  <2> QED
    BY <1>1, <1>2
<1> QED
  BY <1>1, <1>3 DEF Sound

-----------------------------------------------------------------------------
(* Answers                                                                   *)

LEMMA SetToSeqIs ==
    ASSUME NEW S, IsFiniteSet(S)
    PROVE  /\ SetToSeq(S) \in Seq(S)
           /\ ToSet(SetToSeq(S)) = S
           /\ \A i, j \in DOMAIN SetToSeq(S) : SetToSeq(S)[i] = SetToSeq(S)[j] => i = j
<1> DEFINE n == Cardinality(S)
           s == SetToSeq(S)
<1>1. n \in Nat /\ ExistsBijection(1 .. n, S)
  BY FS_CardinalityType
<1>2. PICK f \in Bijection(1 .. n, S) : TRUE
  BY <1>1 DEF ExistsBijection
<1>3. f \in [1 .. n -> S] /\ IsInjective(f)
  BY <1>2 DEF Bijection, Injection, IsInjective
<1>4. s \in [1 .. n -> S] /\ IsInjective(s)
  BY <1>3 DEF SetToSeq
<1>5. s \in Injection(1 .. n, S)
  BY <1>4 DEF Injection, IsInjective
<1>6. IsFiniteSet(1 .. n) /\ Cardinality(1 .. n) = n
  BY <1>1, FS_Interval
<1> HIDE DEF s
<1>7. s \in Surjection(1 .. n, S)
  BY <1>5, <1>6, FS_Injection
<1> HIDE DEF n
<1>8. \A x \in S : \E i \in 1 .. n : s[i] = x
  BY <1>7 DEF Surjection
<1>9. s \in Seq(S) /\ Len(s) = n /\ DOMAIN s = 1 .. n
  BY <1>1, <1>4 DEF n
<1>10. ToSet(s) = S
  BY <1>4, <1>8, <1>9 DEF ToSet
<1>11. \A i, j \in DOMAIN s : s[i] = s[j] => i = j
  BY <1>4 DEF IsInjective
<1> QED
  BY <1>9, <1>10, <1>11 DEF s

LEMMA TxMsgIs ==
    \A tx, h : TxMsg(tx, h).mode = "tx" /\ TxMsg(tx, h).tx = tx /\ TxMsg(tx, h).height = h
BY DEF TxMsg

LEMMA AnswersIs ==
    ASSUME NEW S \in SUBSET Txs, NEW h \in Nat
    PROVE  LET a == Answers(S, h) IN
           a \in Seq(Msg) /\ ToSet(a) = {TxMsg(tx, h) : tx \in S} /\ Ordered(a)
<1> DEFINE a == Answers(S, h)
           s == SetToSeq(S)
<1>1. IsFiniteSet(S)
  BY PublicationAssumption, FS_Subset
<1>2. /\ s \in Seq(S) /\ ToSet(s) = S
      /\ \A i, j \in DOMAIN s : s[i] = s[j] => i = j
  BY <1>1, SetToSeqIs
<1>3. a = [i \in DOMAIN s |-> TxMsg(s[i], h)]
  BY DEF Answers
<1> HIDE DEF a, s
<1>4. DOMAIN s = 1 .. Len(s) /\ Len(s) \in Nat /\ \A i \in 1 .. Len(s) : s[i] \in S
  BY <1>2
<1>5. \A i \in 1 .. Len(s) : a[i] = TxMsg(s[i], h) /\ a[i] \in Msg
  BY <1>3, <1>4 DEF TxMsg, Msg
<1>6. a \in Seq(Msg) /\ DOMAIN a = 1 .. Len(s)
  <2>1. a \in [1 .. Len(s) -> Msg]
    BY <1>3, <1>4, <1>5
  <2> QED
    BY <1>4, <2>1
<1>7. ToSet(a) = {TxMsg(tx, h) : tx \in S}
  <2>1. \A tx \in S : \E i \in 1 .. Len(s) : s[i] = tx
    BY <1>2, <1>4 DEF ToSet
  <2> QED
    BY <1>4, <1>5, <1>6, <2>1 DEF ToSet
<1>8. Ordered(a)
  <2> SUFFICES ASSUME NEW i \in 1 .. Len(s), NEW j \in 1 .. Len(s), i < j
               PROVE  Before(a[i], a[j])
    BY <1>6 DEF Ordered
  <2>1. s[i] # s[j]
    BY <1>2, <1>4
  <2>2. a[i] = TxMsg(s[i], h) /\ a[j] = TxMsg(s[j], h)
    BY <1>5, Zenon
  <2>3. a[i].mode = "tx" /\ a[i].tx = s[i] /\ a[j].tx = s[j]
    BY <2>2, TxMsgIs
  <2> QED
    BY <2>1, <2>3 DEF Before
<1> QED
  BY <1>6, <1>7, <1>8 DEF a

AnswerOne(p, cs, msg) == Publish(cs, msg, p[msg.tx])
Answering == INSTANCE FoldLemmas WITH Op <- AnswerOne, Pick <- Max

LEMMA AnsweringLast == Answering!PicksLast
BY MaxPicksLast DEF Answering!PicksLast, IsFiniteSet, Answering!IsFiniteSet

LEMMA AnswerIs ==
    ASSUME NEW all, NEW msgs \in Seq(Msg)
    PROVE  Answer(all, msgs) = Answering!Fold(txListeners, all, msgs)
<1>1. DOMAIN msgs = 1 .. Len(msgs)
  OBVIOUS
<1> QED
  BY <1>1, Zenon DEF Answer, FoldLeft, MapThenFoldSet, Answering!Fold, Answering!Value,
     Answering!Adds, AnswerOne

(* The messages for c among the first i.                                     *)
For(msgs, i, c) ==
    {msgs[k] : k \in {l \in 1 .. i : Gets(conn[c], msgs[l], txListeners[msgs[l].tx], c)}}

LEMMA ForNext ==
    ASSUME NEW msgs \in Seq(Msg), NEW i \in 1 .. Len(msgs), NEW c
    PROVE  For(msgs, i, c) =
               IF Gets(conn[c], msgs[i], txListeners[msgs[i].tx], c)
               THEN For(msgs, i - 1, c) \cup {msgs[i]} ELSE For(msgs, i - 1, c)
<1>1. 1 .. i = (1 .. i - 1) \cup {i}
  OBVIOUS
<1> QED
  BY <1>1 DEF For

LEMMA AnswerAdds ==
    ASSUME Sound(conn), NEW msgs \in Seq(Msg), Ordered(msgs),
           \A c \in Conns : AllBefore(All(conn[c]), For(msgs, Len(msgs), c))
    PROVE  LET new == Answer(conn, msgs) IN
           /\ Sound(new)
           /\ \A c \in Conns :
                /\ Status(new[c]) = Status(conn[c])
                /\ All(new[c]) = All(conn[c]) \cup For(msgs, Len(msgs), c)
<1>1. PICK g : /\ Answering!Steps(txListeners, conn, msgs, g)
               /\ Answering!Fold(txListeners, conn, msgs) = g[Len(msgs)]
  BY AnsweringLast, Answering!FoldSteps
<1>2. /\ g[0] = conn
      /\ \A i \in 1 .. Len(msgs) : g[i] = Publish(g[i - 1], msgs[i], txListeners[msgs[i].tx])
  BY <1>1 DEF Answering!Steps, AnswerOne
<1> DEFINE Fine(all, i) ==
               /\ Sound(all)
               /\ \A c \in Conns :
                    /\ Status(all[c]) = Status(conn[c])
                    /\ All(all[c]) = All(conn[c]) \cup For(msgs, i, c)
           Q == {i \in 0 .. Len(msgs) : Fine(g[i], i)}
<1>3. Len(msgs) \in Nat /\ DOMAIN msgs = 1 .. Len(msgs)
  OBVIOUS
<1>4. 0 \in Q
  <2>1. \A c : For(msgs, 0, c) = {}
    BY DEF For
  <2>2. Fine(conn, 0)
    BY <2>1
  <2> HIDE DEF Fine
  <2>3. Fine(g[0], 0)
    BY <1>2, <2>2, Zenon
  <2> QED
    BY <1>3, <2>3
<1>5. ASSUME NEW i \in 1 .. Len(msgs), i - 1 \in Q PROVE i \in Q
  <2> DEFINE all == g[i - 1]
             msg == msgs[i]
             to == txListeners[msg.tx]
  <2>1. Fine(all, i - 1) /\ i \in 0 .. Len(msgs) /\ msg \in Msg
    BY <1>5
  <2>2. g[i] = Publish(all, msg, to)
    BY <1>2
  <2> HIDE DEF all
  <2>3. ASSUME NEW c \in Conns
        PROVE  Gets(all[c], msg, to, c) <=> Gets(conn[c], msg, to, c)
    BY <2>1 DEF Gets, Status
  <2>4. MayFollow(all, msg, to)
    <3> SUFFICES ASSUME NEW c \in Conns, Gets(all[c], msg, to, c)
                 PROVE  AllBefore(All(all[c]), {msg})
      BY DEF MayFollow
    <3>1. msg \in For(msgs, Len(msgs), c)
      BY <2>3 DEF For
    <3>2. AllBefore(All(conn[c]), {msg})
      BY <3>1 DEF AllBefore
    <3>3. AllBefore(For(msgs, i - 1, c), {msg})
      <4> SUFFICES ASSUME NEW l \in 1 .. i - 1 PROVE Before(msgs[l], msg)
        BY DEF For, AllBefore
      <4>1. l \in 1 .. Len(msgs) /\ l < i
        BY <1>3
      <4> QED
        BY <1>3, <4>1 DEF Ordered
    <3>4. All(all[c]) = All(conn[c]) \cup For(msgs, i - 1, c)
      BY <2>1
    <3> QED
      BY <3>2, <3>3, <3>4 DEF AllBefore
  <2>5. /\ Sound(g[i])
        /\ \A c \in Conns :
             /\ Status(g[i][c]) = Status(all[c])
             /\ All(g[i][c]) = IF Gets(all[c], msg, to, c) THEN All(all[c]) \cup {msg} ELSE All(all[c])
    <3>1. Sound(all) /\ msg \in Msg
      BY <2>1
    <3> HIDE DEF msg, to, Fine
    <3>2. LET new == Publish(all, msg, to) IN
          /\ Sound(new)
          /\ \A c \in Conns :
               /\ Status(new[c]) = Status(all[c])
               /\ All(new[c]) = IF Gets(all[c], msg, to, c) THEN All(all[c]) \cup {msg}
                                ELSE All(all[c])
      BY <2>4, <3>1, PublishAdds, Zenon
    <3> QED
      BY <2>2, <3>2, Zenon
  <2>6. ASSUME NEW c \in Conns PROVE All(g[i][c]) = All(conn[c]) \cup For(msgs, i, c)
    <3>1. For(msgs, i, c) = IF Gets(conn[c], msg, to, c) THEN For(msgs, i - 1, c) \cup {msg}
                            ELSE For(msgs, i - 1, c)
      BY ForNext
    <3>2. All(all[c]) = All(conn[c]) \cup For(msgs, i - 1, c)
      BY <2>1
    <3> HIDE DEF msg, to, Fine
    <3> QED
      BY <2>3, <2>5, <3>1, <3>2
  <2>7. Fine(g[i], i)
    BY <2>1, <2>5, <2>6
  <2> HIDE DEF Fine
  <2> QED
    BY <2>1, <2>7
<1> HIDE DEF Q
<1>6. \A i \in 0 .. Len(msgs) : i \in Q
  BY <1>3, <1>4, <1>5, Answering!UpTo
<1>7. Len(msgs) \in Q
  BY <1>3, <1>6
<1>8. Fine(g[Len(msgs)], Len(msgs))
  BY <1>7 DEF Q
<1>9. Answer(conn, msgs) = g[Len(msgs)]
  BY <1>1, AnswerIs
<1> QED
  BY <1>8, <1>9

-----------------------------------------------------------------------------
(* The chain and the index                                                   *)

LEMMA ChainFacts ==
    ASSUME PubTypeOK
    PROVE  /\ Height \in Nat /\ DOMAIN chain = 1 .. Height
           /\ \A i \in 1 .. Height : chain[i] \in SUBSET Txs
           /\ BlockWindow \in Nat /\ BlockWindow > 0
           /\ \A tx \in Txs : Expiry[tx] \in Nat
           /\ lastHeight \in Nat
BY PublicationAssumption DEF PubTypeOK, Height

LEMMA Accepted ==
    ASSUME PubTypeOK
    PROVE  \A tx : tx \in AcceptedTxs <=> \E i \in 1 .. Height : tx \in chain[i]
<1>1. ToSet(chain) = {chain[i] : i \in 1 .. Height}
  BY ChainFacts DEF ToSet
<1> QED
  BY <1>1 DEF AcceptedTxs

(* A block more.                                                             *)
LEMMA Extended ==
    ASSUME PubTypeOK, ChainOK, NEW S \in SUBSET Txs, Valid(S), chain' = Append(chain, S)
    PROVE  /\ chain' \in Seq(SUBSET Txs)
           /\ Height' = Height + 1 /\ DOMAIN chain' = 1 .. Height + 1
           /\ \A i \in 1 .. Height : chain'[i] = chain[i]
           /\ chain'[Height + 1] = S
           /\ \A i, j \in DOMAIN chain' : chain'[i] \cap chain'[j] # {} => i = j
           /\ \A i \in DOMAIN chain' : \A tx \in chain'[i] : Expiry[tx] >= i
<1>1. /\ chain \in Seq(SUBSET Txs) /\ Height \in Nat /\ DOMAIN chain = 1 .. Height
      /\ Len(chain) = Height
  BY ChainFacts DEF PubTypeOK, Height
<1>2. chain' \in Seq(SUBSET Txs) /\ Len(chain') = Height + 1
  BY <1>1
<1>3. /\ Height' = Height + 1 /\ DOMAIN chain' = 1 .. Height + 1
      /\ \A i \in 1 .. Height : chain'[i] = chain[i]
      /\ chain'[Height + 1] = S
  BY <1>1, <1>2 DEF Height
<1>4. \A tx \in S : Expiry[tx] > Height /\ \A i \in 1 .. Height : tx \notin chain[i]
  BY Accepted DEF Valid
<1>5. ASSUME NEW i \in 1 .. Height + 1
      PROVE  i \in 1 .. Height \/ i = Height + 1
  BY <1>1
<1>6. \A i, j \in DOMAIN chain' : chain'[i] \cap chain'[j] # {} => i = j
  <2> SUFFICES ASSUME NEW i \in 1 .. Height + 1, NEW j \in 1 .. Height + 1,
                      NEW tx, tx \in chain'[i], tx \in chain'[j]
               PROVE  i = j
    BY <1>3
  <2>1. CASE i \in 1 .. Height /\ j \in 1 .. Height
    BY <1>1, <1>3, <2>1 DEF ChainOK
  <2>2. CASE i = Height + 1 /\ j \in 1 .. Height
    BY <1>3, <1>4, <2>2
  <2>3. CASE j = Height + 1 /\ i \in 1 .. Height
    BY <1>3, <1>4, <2>3
  <2> QED
    BY <1>5, <2>1, <2>2, <2>3
<1>7. \A i \in DOMAIN chain' : \A tx \in chain'[i] : Expiry[tx] >= i
  <2> SUFFICES ASSUME NEW i \in 1 .. Height + 1, NEW tx \in chain'[i] PROVE Expiry[tx] >= i
    BY <1>3
  <2>1. CASE i \in 1 .. Height
    BY <1>1, <1>3, <2>1 DEF ChainOK
  <2>2. CASE i = Height + 1
    <3>1. tx \in Txs /\ Expiry[tx] > Height
      BY <1>3, <1>4, <2>2
    <3> QED
      BY <1>1, <2>2, <3>1, ChainFacts
  <2> QED
    BY <1>5, <2>1, <2>2
<1> QED
  BY <1>2, <1>3, <1>6, <1>7

(* The blocks that are noted, and what is asked of one that is noted too.    *)
Noted(blocks, H, h) ==
    /\ H \in SUBSET Nat /\ h \in Nat /\ BlockWindow \in Nat /\ BlockWindow > 0
    /\ \A e \in H : chain[e] = blocks[e]
    /\ blocks[h] \in SUBSET Txs
    /\ \A i, j \in H \cup {h} : blocks[i] \cap blocks[j] # {} => i = j

LEMMA InExact ==
    ASSUME NEW blocks, NEW H, NEW t
    PROVE  t \in Exact(blocks, H) <=> \E x \in Txs : \E k \in H : t = <<x, k>> /\ x \in blocks[k]
<1>1. ASSUME t \in Exact(blocks, H)
      PROVE  \E x \in Txs : \E k \in H : t = <<x, k>> /\ x \in blocks[k]
  <2>1. t \in Txs \X H /\ t[1] \in blocks[t[2]]
    BY <1>1 DEF Exact
  <2>2. t[1] \in Txs /\ t[2] \in H /\ t = <<t[1], t[2]>>
    BY <2>1
  <2> QED
    BY <2>1, <2>2
<1>2. ASSUME NEW x \in Txs, NEW k \in H, t = <<x, k>>, x \in blocks[k]
      PROVE  t \in Exact(blocks, H)
  BY <1>2 DEF Exact
<1> QED
  BY <1>1, <1>2

Agree(a, b, H) == \A k \in H : a[k] = b[k]

LEMMA ExactSame ==
    ASSUME NEW a, NEW b, NEW H, Agree(a, b, H)
    PROVE  Exact(a, H) = Exact(b, H)
<1>1. ASSUME NEW t PROVE t \in Exact(a, H) <=> t \in Exact(b, H)
  BY InExact DEF Agree
<1> QED
  BY <1>1

LEMMA InsertIs ==
    ASSUME NEW blocks, NEW H, NEW h, Noted(blocks, H, h)
    PROVE  Insert([heights |-> H, txs |-> Exact(blocks, H)], h, blocks[h]) =
               [heights |-> (H \ {h - BlockWindow}) \cup {h},
                txs |-> Exact(blocks, (H \ {h - BlockWindow}) \cup {h})]
<1> DEFINE E == IF h - BlockWindow \in H THEN {h - BlockWindow} ELSE {}
           S == blocks[h]
           T == {t \in Exact(blocks, H) : t[1] \notin S \cup UNION {chain[e] : e \in E}}
           K == (H \ {h - BlockWindow}) \cup {h}
<1>5. /\ H \in SUBSET Nat /\ h \in Nat /\ BlockWindow \in Nat /\ BlockWindow > 0
      /\ \A e \in H : chain[e] = blocks[e]
      /\ S \in SUBSET Txs
      /\ \A i, j \in H \cup {h} : blocks[i] \cap blocks[j] # {} => i = j
  BY DEF Noted
<1>1. Insert([heights |-> H, txs |-> Exact(blocks, H)], h, S) =
          [heights |-> (H \ E) \cup {h}, txs |-> T \cup (S \X {h})]
  BY DEF Insert
<1>2. (H \ E) \cup {h} = K /\ h \notin E /\ E \subseteq H /\ E = H \cap {h - BlockWindow}
  BY <1>5
<1> HIDE DEF E
<1>3. ASSUME NEW t PROVE t \in T \cup (S \X {h}) <=> t \in Exact(blocks, K)
  <2>1. t \in Exact(blocks, K) <=> \E x \in Txs : \E k \in K : t = <<x, k>> /\ x \in blocks[k]
    BY InExact
  <2>2. t \in Exact(blocks, H) <=> \E x \in Txs : \E k \in H : t = <<x, k>> /\ x \in blocks[k]
    BY InExact
  <2> HIDE DEF K
  <2>3. ASSUME t \in T PROVE t \in Exact(blocks, K)
    <3>1. PICK x \in Txs, k \in H : t = <<x, k>> /\ x \in blocks[k]
      BY <2>2, <2>3
    <3>2. x \notin S \cup UNION {chain[e] : e \in E}
      BY <2>3, <3>1
    <3>3. k \notin E
      BY <1>2, <1>5, <3>1, <3>2
    <3> QED
      BY <1>2, <2>1, <3>1, <3>3
  <2>4. ASSUME t \in S \X {h} PROVE t \in Exact(blocks, K)
    <3>1. PICK x \in S : t = <<x, h>>
      BY <2>4
    <3> QED
      BY <1>2, <1>5, <2>1, <3>1
  <2>5. ASSUME t \in Exact(blocks, K), t \notin S \X {h} PROVE t \in T
    <3>1. PICK x \in Txs, k \in K : t = <<x, k>> /\ x \in blocks[k]
      BY <2>1, <2>5
    <3>2. k # h
      BY <2>5, <3>1
    <3>3. k \in H /\ k \notin E
      BY <1>2, <3>2 DEF K
    <3>4. x \notin S
      BY <1>5, <3>1, <3>2, <3>3
    <3>5. ASSUME NEW e \in E, x \in chain[e] PROVE FALSE
      <4>1. e \in H /\ x \in blocks[e]
        BY <1>2, <1>5, <3>5
      <4>2. e = k
        BY <1>5, <3>1, <3>3, <4>1
      <4> QED
        BY <3>3, <4>2
    <3>6. t \in Exact(blocks, H) /\ t[1] = x
      BY <2>2, <3>1, <3>3
    <3> QED
      BY <3>4, <3>5, <3>6
  <2> QED
    BY <2>3, <2>4, <2>5
<1>4. T \cup (S \X {h}) = Exact(blocks, K)
  BY <1>3
<1> HIDE DEF T, K
<1> QED
  BY <1>1, <1>2, <1>4 DEF K

-----------------------------------------------------------------------------
(* The index after each step                                                 *)

(* A block that is new: chain, notify, index and missed.                     *)
LEMMA NewBlockIndexed ==
    ASSUME PubTypeOK, ChainOK, IndexInv, NEW S \in SUBSET Txs, Valid(S), notify # "down",
           chain' = Append(chain, S), IndexBlock(Height + 1, S),
           missed' = missed \cup {Height + 1}, notify' = "store", db' = db, notify # "store"
    PROVE  IndexInv'
<1>1. /\ chain' \in Seq(SUBSET Txs)
      /\ Height' = Height + 1 /\ DOMAIN chain' = 1 .. Height + 1
      /\ \A i \in 1 .. Height : chain'[i] = chain[i]
      /\ chain'[Height + 1] = S
      /\ \A i, j \in DOMAIN chain' : chain'[i] \cap chain'[j] # {} => i = j
  BY Extended
<1>2. Height \in Nat /\ BlockWindow \in Nat /\ BlockWindow > 0 /\ lastHeight \in Nat
  BY ChainFacts
<1>3. cache \subseteq 1 .. Height /\ db \subseteq 1 .. Height /\ missed \subseteq 1 .. Height
      /\ txCache = Exact(chain, cache)
  BY DEF IndexInv
<1>4. Exact(chain, cache) = Exact(chain', cache)
  <2>1. Agree(chain, chain', cache)
    BY <1>1, <1>3 DEF Agree
  <2> QED
    BY <2>1, ExactSame, Zenon
<1>17. PICK new : new = chain'
  OBVIOUS
<1>5. Noted(new, cache, Height + 1)
  <2>1. cache \cup {Height + 1} \subseteq DOMAIN chain'
    <3>1. DOMAIN chain' = 1 .. Height + 1
      BY <1>1
    <3>2. 1 .. Height \subseteq 1 .. Height + 1 /\ Height + 1 \in 1 .. Height + 1
      BY <1>2
    <3> QED
      BY <1>3, <3>1, <3>2
  <2> QED
    BY <1>1, <1>2, <1>3, <1>17, <2>1 DEF Noted
<1>6. /\ cache' = (cache \ {(Height + 1) - BlockWindow}) \cup {Height + 1}
      /\ txCache' = Exact(chain', cache') /\ lastHeight' = Height + 1
  <2>1. txCache = Exact(chain', cache)
    BY <1>3, <1>4
  <2>2. S = chain'[Height + 1]
    BY <1>1
  <2> DEFINE ix == Insert([heights |-> cache, txs |-> txCache], Height + 1, S)
             K == (cache \ {(Height + 1) - BlockWindow}) \cup {Height + 1}
  <2>3. ix = [heights |-> K, txs |-> Exact(chain', K)]
    <3>1. Insert([heights |-> cache, txs |-> Exact(new, cache)], Height + 1, new[Height + 1]) =
              [heights |-> K, txs |-> Exact(new, K)]
      BY <1>5, InsertIs, ZenonT(60)
    <3> QED
      BY <1>17, <2>1, <2>2, <3>1, Zenon
  <2>4. cache' = ix.heights /\ txCache' = ix.txs /\ lastHeight' = Height + 1
    BY DEF IndexBlock
  <2> HIDE DEF ix, K
  <2>5. cache' = K /\ txCache' = Exact(chain', K) /\ lastHeight' = Height + 1
    BY <2>3, <2>4
  <2> QED
    BY <2>5 DEF K
<1>16. Height' = Height + 1
  BY <1>1
<1>7. cache' \cup db' \subseteq 1 .. Height' /\ missed' \subseteq 1 .. Height'
  BY <1>16, <1>2, <1>3, <1>6
<1>8. \A h \in db' : h - BlockWindow \notin db'
  BY DEF IndexInv
<1>9. \A h \in cache' \cup db' : h + BlockWindow <= Height' => h + BlockWindow \in missed'
  <2> TAKE h \in cache' \cup db'
  <2>1. CASE h \in cache \cup db
    <3>1. h \in 1 .. Height /\ (h + BlockWindow <= Height => h + BlockWindow \in missed)
      BY <1>3, <2>1 DEF IndexInv
    <3> QED
      BY <1>16, <1>2, <3>1
  <2>2. CASE h = Height + 1
    BY <1>16, <1>2, <2>2
  <2> QED
    BY <1>6, <2>1, <2>2
<1>10. \A h \in (1 .. Height') \ missed' : h \in db' \/ \E k \in db' : h + BlockWindow <= k
  <2> TAKE h \in (1 .. Height') \ missed'
  <2>1. h \in (1 .. Height) \ missed
    BY <1>16, <1>2
  <2> QED
    BY <2>1 DEF IndexInv
<1>11. \A h \in db' : h \in cache' \/ h = Height' - BlockWindow
  <2> TAKE h \in db'
  <2>1. h \in cache /\ h \in 1 .. Height
    BY <1>3 DEF IndexInv
  <2> QED
    BY <1>2, <1>6, <1>16, <2>1
<1>12. \A h \in cache' \ db' : h + BlockWindow < lastHeight' \/ h = Height'
  <2> TAKE h \in cache' \ db'
  <2>1. CASE h \in cache
    <3>1. h + BlockWindow < lastHeight /\ h \in 1 .. Height /\ lastHeight <= Height
      BY <1>3, <2>1 DEF IndexInv
    <3> QED
      BY <1>2, <1>6, <3>1
  <2>2. CASE h \notin cache
    BY <1>16, <1>6, <2>2
  <2> QED
    BY <2>1, <2>2
<1>13. Height' - BlockWindow \notin cache' /\ Height' \in missed' /\ lastHeight' = Height'
       /\ lastHeight' \in cache'
  BY <1>16, <1>2, <1>6
<1>14. cache' \subseteq 1 .. lastHeight'
  BY <1>16, <1>6, <1>7
<1>15. lastHeight' <= Height'
  BY <1>16, <1>2, <1>13
<1> QED
  BY <1>6, <1>7, <1>8, <1>9, <1>10, <1>11, <1>12, <1>13, <1>14, <1>15 DEF IndexInv

LEMMA TipIndexed ==
    ASSUME PubTypeOK, ChainOK, IndexInv, notify = "tip", IndexBlock(Height, chain[Height]),
           missed' = missed \cup {Height}, notify' = "store", chain' = chain, db' = db
    PROVE  IndexInv'
<1>1. /\ Height \in Nat /\ Height > 0 /\ BlockWindow \in Nat /\ BlockWindow > 0
      /\ lastHeight \in Nat /\ Height' = Height
  BY ChainFacts DEF ChainOK, Height
<1>2. cache \subseteq 1 .. Height /\ db \subseteq 1 .. Height /\ missed \subseteq 1 .. Height
      /\ txCache = Exact(chain, cache) /\ lastHeight <= Height
  BY DEF IndexInv
<1>3. Noted(chain, cache, Height)
  <2>1. cache \cup {Height} \subseteq 1 .. Height
    BY <1>1, <1>2
  <2>2. DOMAIN chain = 1 .. Height /\ chain[Height] \in SUBSET Txs
    BY <1>1, ChainFacts
  <2>3. \A i, j \in cache \cup {Height} : chain[i] \cap chain[j] # {} => i = j
    BY <2>1, <2>2 DEF ChainOK
  <2>4. cache \in SUBSET Nat
    BY <1>2
  <2> QED
    BY <1>1, <2>2, <2>3, <2>4 DEF Noted
<1>4. /\ cache' = (cache \ {Height - BlockWindow}) \cup {Height}
      /\ txCache' = Exact(chain, cache') /\ lastHeight' = Height
  <2> DEFINE ix == Insert([heights |-> cache, txs |-> txCache], Height, chain[Height])
             K == (cache \ {Height - BlockWindow}) \cup {Height}
  <2>1. ix = [heights |-> K, txs |-> Exact(chain, K)]
    BY <1>2, <1>3, InsertIs, ZenonT(60)
  <2>2. cache' = ix.heights /\ txCache' = ix.txs /\ lastHeight' = Height
    BY DEF IndexBlock
  <2> HIDE DEF ix, K
  <2>3. cache' = K /\ txCache' = Exact(chain, K) /\ lastHeight' = Height
    BY <2>1, <2>2
  <2> QED
    BY <2>3 DEF K
<1>5. cache' \cup db' \subseteq 1 .. Height' /\ missed' \subseteq 1 .. Height'
  BY <1>1, <1>2, <1>4
<1>12. txCache' = Exact(chain', cache')
  BY <1>4, Zenon
<1>6. \A h \in db' : h - BlockWindow \notin db'
  BY DEF IndexInv
<1>7. \A h \in cache' \cup db' : h + BlockWindow <= Height' => h + BlockWindow \in missed'
  <2> TAKE h \in cache' \cup db'
  <2>1. CASE h \in cache \cup db
    BY <1>1, <2>1 DEF IndexInv
  <2>2. CASE h = Height
    BY <1>1, <2>2
  <2> QED
    BY <1>4, <2>1, <2>2
<1>8. \A h \in (1 .. Height') \ missed' : h \in db' \/ \E k \in db' : h + BlockWindow <= k
  BY <1>1 DEF IndexInv
<1>9. \A h \in db' : h \in cache' \/ h = Height' - BlockWindow
  BY <1>1, <1>4 DEF IndexInv
<1>10. \A h \in cache' \ db' : h + BlockWindow < lastHeight' \/ h = Height'
  <2> TAKE h \in cache' \ db'
  <2>1. CASE h \in cache
    <3>1. h + BlockWindow < lastHeight /\ h \in 1 .. Height /\ lastHeight <= Height
      BY <1>2, <2>1 DEF IndexInv
    <3> QED
      BY <1>1, <1>4, <3>1
  <2>2. CASE h \notin cache
    BY <1>1, <1>4, <2>2
  <2> QED
    BY <2>1, <2>2
<1>11. Height' - BlockWindow \notin cache' /\ Height' \in missed' /\ lastHeight' = Height'
       /\ lastHeight' \in cache' /\ lastHeight' <= Height' /\ cache' \subseteq 1 .. lastHeight'
  BY <1>1, <1>4, <1>5
<1> QED
  BY <1>5, <1>6, <1>7, <1>8, <1>9, <1>10, <1>11, <1>12 DEF IndexInv

LEMMA SkipIndexed ==
    ASSUME PubTypeOK, ChainOK, IndexInv, NEW S \in SUBSET Txs, SkipBlock(S)
    PROVE  IndexInv'
<1>1. /\ Height' = Height + 1 /\ DOMAIN chain' = 1 .. Height + 1
      /\ \A i \in 1 .. Height : chain'[i] = chain[i]
  BY Extended DEF SkipBlock
<1>2. Height \in Nat /\ BlockWindow \in Nat /\ BlockWindow > 0 /\ lastHeight \in Nat
  BY ChainFacts
<1>3. cache \subseteq 1 .. Height /\ db \subseteq 1 .. Height /\ missed \subseteq 1 .. Height
      /\ txCache = Exact(chain, cache) /\ lastHeight <= Height
  BY DEF IndexInv
<1>4. /\ notify = "idle" /\ notify' = "idle" /\ missed' = missed \cup {Height + 1}
      /\ cache' = cache /\ txCache' = txCache /\ lastHeight' = lastHeight /\ db' = db
  BY DEF SkipBlock, index
<1>5. txCache' = Exact(chain', cache')
  <2>1. Agree(chain, chain', cache)
    BY <1>1, <1>3 DEF Agree
  <2>2. Exact(chain, cache) = Exact(chain', cache)
    BY <2>1, ExactSame, Zenon
  <2> QED
    BY <1>3, <1>4, <2>2
<1>6. cache' \cup db' \subseteq 1 .. Height' /\ missed' \subseteq 1 .. Height'
  BY <1>1, <1>2, <1>3, <1>4
<1>7. \A h \in cache' \cup db' : h + BlockWindow <= Height' => h + BlockWindow \in missed'
  <2> TAKE h \in cache' \cup db'
  <2>1. h \in 1 .. Height /\ (h + BlockWindow <= Height => h + BlockWindow \in missed)
    BY <1>3, <1>4 DEF IndexInv
  <2> QED
    BY <1>1, <1>2, <1>4, <2>1
<1>8. \A h \in (1 .. Height') \ missed' : h \in db' \/ \E k \in db' : h + BlockWindow <= k
  <2> TAKE h \in (1 .. Height') \ missed'
  <2>1. h \in (1 .. Height) \ missed
    BY <1>1, <1>2, <1>4
  <2> QED
    BY <1>4, <2>1 DEF IndexInv
<1>9. lastHeight' <= Height'
  BY <1>1, <1>2, <1>3, <1>4
<1> QED
  BY <1>4, <1>5, <1>6, <1>7, <1>8, <1>9 DEF IndexInv

LEMMA StoreIndexed ==
    ASSUME PubTypeOK, ChainOK, IndexInv, StoreBlock
    PROVE  IndexInv'
<1>1. /\ Height \in Nat /\ Height > 0 /\ BlockWindow \in Nat /\ BlockWindow > 0
      /\ lastHeight = Height /\ Height' = Height
  BY ChainFacts DEF ChainOK, Height, StoreBlock, IndexInv
<1>2. cache \subseteq 1 .. Height /\ db \subseteq 1 .. Height /\ missed \subseteq 1 .. Height
      /\ txCache = Exact(chain, cache) /\ Height \in cache /\ Height - BlockWindow \notin cache
  BY <1>1 DEF IndexInv, StoreBlock
<1>3. /\ notify = "store" /\ notify' = "blocks" /\ missed' = missed \ {Height}
      /\ cache' = cache /\ txCache' = txCache /\ lastHeight' = lastHeight /\ chain' = chain
      /\ db' = (db \cup {Height}) \ {Height - BlockWindow}
  BY DEF StoreBlock
<1>4. cache' \cup db' \subseteq 1 .. Height' /\ missed' \subseteq 1 .. Height'
  BY <1>1, <1>2, <1>3
<1>5. \A h \in db' : h - BlockWindow \notin db'
  <2> TAKE h \in db'
  <2>1. h \in 1 .. Height
    BY <1>1, <1>4
  <2>2. h - BlockWindow # Height
    BY <1>1, <2>1
  <2>3. CASE h = Height
    BY <1>3, <2>3
  <2>4. CASE h \in db
    BY <1>3, <2>2, <2>4 DEF IndexInv
  <2> QED
    BY <1>3, <2>3, <2>4
<1>6. \A h \in cache' \cup db' : h + BlockWindow <= Height' => h + BlockWindow \in missed'
  <2> SUFFICES ASSUME NEW h \in cache' \cup db', h + BlockWindow <= Height'
               PROVE  h + BlockWindow \in missed'
    OBVIOUS
  <2>1. h \in 1 .. Height
    BY <1>1, <1>4
  <2>2. h + BlockWindow # Height
    <3>1. h # Height - BlockWindow
      BY <1>2, <1>3
    <3> QED
      BY <1>1, <2>1, <3>1
  <2>3. CASE h \in cache \cup db
    BY <1>1, <1>3, <2>2, <2>3 DEF IndexInv
  <2>4. CASE h = Height
    BY <1>1, <2>4
  <2> QED
    BY <1>3, <2>3, <2>4
<1>7. \A h \in (1 .. Height') \ missed' : h \in db' \/ \E k \in db' : h + BlockWindow <= k
  <2> TAKE h \in (1 .. Height') \ missed'
  <2>1. Height \in db'
    BY <1>1, <1>3
  <2>2. CASE h = Height
    BY <2>1, <2>2
  <2>3. CASE h \in (1 .. Height) \ missed
    <3>1. h \in db \/ \E k \in db : h + BlockWindow <= k
      BY <2>3 DEF IndexInv
    <3>2. CASE h \in db
      <4>1. CASE h = Height - BlockWindow
        <5>1. h + BlockWindow <= Height
          BY <1>1, <4>1
        <5> QED
          BY <2>1, <5>1
      <4>2. CASE h # Height - BlockWindow
        BY <1>3, <3>2, <4>2
      <4> QED
        BY <4>1, <4>2
    <3>3. CASE \E k \in db : h + BlockWindow <= k
      <4>1. PICK k \in db : h + BlockWindow <= k
        BY <3>3
      <4>2. h + BlockWindow <= Height
        BY <1>1, <1>2, <2>3, <4>1
      <4> QED
        BY <2>1, <4>2
    <3> QED
      BY <3>1, <3>2, <3>3
  <2> QED
    BY <1>1, <1>3, <2>2, <2>3
<1>8. \A h \in db' : h \in cache'
  BY <1>2, <1>3 DEF IndexInv
<1>9. \A h \in cache' \ db' : h + BlockWindow < lastHeight'
  <2> TAKE h \in cache' \ db'
  <2>1. h # Height /\ h # Height - BlockWindow
    BY <1>1, <1>2, <1>3
  <2> QED
    BY <1>3, <2>1 DEF IndexInv
<1>10. Height' \notin missed'
  BY <1>1, <1>3
<1>11. /\ txCache' = Exact(chain', cache')
       /\ lastHeight' <= Height' /\ lastHeight' \in cache' /\ cache' \subseteq 1 .. lastHeight'
  BY <1>1, <1>2, <1>3
<1> QED
  BY <1>3, <1>4, <1>5, <1>6, <1>7, <1>8, <1>9, <1>10, <1>11 DEF IndexInv

-----------------------------------------------------------------------------
(* What a restart loads                                                      *)

LoadOne(p, ix, h) == IF h \in db THEN Insert(ix, h, chain[h]) ELSE ix
Loading == INSTANCE FoldLemmas WITH Op <- LoadOne, Pick <- Max

LEMMA LoadingLast == Loading!PicksLast
BY MaxPicksLast DEF Loading!PicksLast, IsFiniteSet, Loading!IsFiniteSet

LEMMA LoadedIs ==
    ASSUME PubTypeOK, ChainOK, IndexInv
    PROVE  Loaded = [heights |-> db, txs |-> Exact(chain, db)]
<1>1. /\ Height \in Nat /\ BlockWindow \in Nat /\ BlockWindow > 0 /\ DOMAIN chain = 1 .. Height
      /\ \A i \in 1 .. Height : chain[i] \in SUBSET Txs
  BY ChainFacts
<1>2. db \subseteq 1 .. Height
  BY DEF IndexInv
<1>10. \A h \in db : h \in Nat /\ 1 <= h /\ h <= Height
  <2>1. \A h \in 1 .. Height : h \in Nat /\ 1 <= h /\ h <= Height
    BY <1>1
  <2> QED
    BY <1>2, <2>1
<1> DEFINE all == [h \in 1 .. Height |-> h]
           none == [heights |-> {}, txs |-> {}]
           part(i) == {h \in db : h <= i}
           g == [i \in 0 .. Height |-> [heights |-> part(i), txs |-> Exact(chain, part(i))]]
<1>3. all \in Seq(Nat) /\ Len(all) = Height /\ DOMAIN all = 1 .. Len(all)
      /\ \A i \in 1 .. Height : all[i] = i
  BY <1>1
<1>4. Loaded = Loading!Fold(0, none, all)
  <2> HIDE DEF all
  <2>1. FoldLeft(LAMBDA ix, h : IF h \in db THEN Insert(ix, h, chain[h]) ELSE ix, none, all)
            = Loading!Fold(0, none, all)
    BY <1>3, Zenon DEF FoldLeft, MapThenFoldSet, Loading!Fold, Loading!Value, Loading!Adds, LoadOne
  <2> QED
    BY <2>1, Zenon DEF Loaded, all
<1>5. g[0] = none
  <2>1. part(0) = {}
    BY <1>10
  <2>2. Exact(chain, {}) = {}
    BY DEF Exact
  <2>3. 0 \in 0 .. Height
    BY <1>1
  <2> QED
    BY <2>1, <2>2, <2>3
<1>6. ASSUME NEW i \in 1 .. Height PROVE g[i] = LoadOne(0, g[i - 1], i)
  <2>1. i \in 0 .. Height /\ i - 1 \in 0 .. Height /\ i \in Nat
    BY <1>1
  <2>2. /\ g[i] = [heights |-> part(i), txs |-> Exact(chain, part(i))]
        /\ g[i - 1] = [heights |-> part(i - 1), txs |-> Exact(chain, part(i - 1))]
    BY <2>1
  <2>3. part(i) = IF i \in db THEN part(i - 1) \cup {i} ELSE part(i - 1)
    <3>1. \A h \in Int : h <= i <=> h <= i - 1 \/ h = i
      BY <2>1
    <3> QED
      BY <1>10, <2>1, <3>1
  <2>4. CASE i \notin db
    BY <2>2, <2>3, <2>4 DEF LoadOne
  <2>5. CASE i \in db
    <3>1. i - BlockWindow \notin db
      BY <2>5 DEF IndexInv
    <3>2. part(i - 1) \ {i - BlockWindow} = part(i - 1)
      BY <3>1
    <3>3. Noted(chain, part(i - 1), i)
      <4>1. part(i - 1) \cup {i} \subseteq 1 .. Height
        BY <1>1, <1>2
      <4> HIDE DEF part
      <4>2. part(i - 1) \in SUBSET Nat
        <5>1. \A h \in 1 .. Height : h \in Nat
          BY <1>1
        <5> QED
          BY <4>1, <5>1
      <4>3. \A j, k \in part(i - 1) \cup {i} : chain[j] \cap chain[k] # {} => j = k
        BY <1>1, <4>1 DEF ChainOK
      <4> QED
        BY <1>1, <2>1, <4>2, <4>3 DEF Noted
    <3> DEFINE H == part(i - 1)
    <3> HIDE DEF g, H, part
    <3>4. H \ {i - BlockWindow} = H /\ Noted(chain, H, i) /\ part(i) = H \cup {i}
      BY <2>3, <2>5, <3>2, <3>3 DEF H
    <3>5. Insert([heights |-> H, txs |-> Exact(chain, H)], i, chain[i]) =
              [heights |-> (H \ {i - BlockWindow}) \cup {i},
               txs |-> Exact(chain, (H \ {i - BlockWindow}) \cup {i})]
      <4>1. Noted(chain, H, i)
        BY <3>4
      <4> QED
        BY <4>1, InsertIs
    <3>6. LoadOne(0, g[i - 1], i) = Insert([heights |-> H, txs |-> Exact(chain, H)], i, chain[i])
      BY <2>2, <2>5 DEF LoadOne, H
    <3>7. Insert([heights |-> H, txs |-> Exact(chain, H)], i, chain[i]) =
              [heights |-> H \cup {i}, txs |-> Exact(chain, H \cup {i})]
      BY <3>4, <3>5, Zenon
    <3> QED
      BY <2>2, <3>4, <3>6, <3>7, Zenon
  <2> QED
    BY <2>4, <2>5
<1>7. g[Height] = [heights |-> db, txs |-> Exact(chain, db)]
  <2>1. part(Height) = db
    BY <1>10
  <2>2. Height \in 0 .. Height
    BY <1>1
  <2> QED
    BY <2>1, <2>2
<1> HIDE DEF g, none, all
<1>8. Loading!Steps(0, none, all, g)
  BY <1>3, <1>5, <1>6 DEF Loading!Steps
<1>9. Loading!Fold(0, none, all) = g[Len(all)]
  BY <1>3, <1>8, LoadingLast, Loading!FoldIs
<1> QED
  BY <1>3, <1>4, <1>7, <1>9

LEMMA LastIs ==
    ASSUME PubTypeOK, IndexInv
    PROVE  /\ LastStored \in Nat /\ LastStored <= Height
           /\ db = {} => LastStored = 0
           /\ db # {} => LastStored \in db /\ \A h \in db : h <= LastStored
<1>1. Height \in Nat /\ db \subseteq 1 .. Height /\ db \in SUBSET Nat
  BY ChainFacts DEF IndexInv
<1>2. IsFiniteSet(db)
  <2>1. IsFiniteSet(1 .. Height)
    BY <1>1, FS_Interval
  <2> QED
    BY <1>1, <2>1, FS_Subset
<1>3. CASE db = {}
  BY <1>1, <1>3 DEF LastStored
<1>4. CASE db # {}
  <2>1. Max(db) \in db /\ \A h \in db : h <= Max(db)
    BY <1>1, <1>2, <1>4, MaxPicksLast
  <2>2. LastStored = Max(db)
    BY <1>4 DEF LastStored
  <2>3. LastStored \in db /\ \A h \in db : h <= LastStored
    BY <2>1, <2>2
  <2>4. LastStored \in 1 .. Height
    BY <1>1, <2>3
  <2> QED
    BY <1>1, <1>4, <2>3, <2>4
<1> QED
  BY <1>3, <1>4

LEMMA RestartIndexed ==
    ASSUME PubTypeOK, ChainOK, IndexInv, Restart
    PROVE  IndexInv'
<1> DEFINE L == LastStored
<1>1. /\ Height \in Nat /\ BlockWindow \in Nat /\ BlockWindow > 0
  BY ChainFacts
<1>2. /\ L \in Nat /\ L <= Height
      /\ db = {} => L = 0
      /\ db # {} => L \in db /\ \A h \in db : h <= L
  BY LastIs
<1>3. /\ cache' = db /\ txCache' = Exact(chain, db) /\ lastHeight' = L
      /\ db' = {h \in db : h >= L - BlockWindow}
      /\ missed' = missed /\ notify' \in {"idle", "tip"} /\ chain' = chain
  BY LoadedIs DEF Restart
<1>4. Height' = Height
  BY <1>3 DEF Height
<1> HIDE DEF L
<1>5. db \subseteq 1 .. Height /\ missed \subseteq 1 .. Height
  BY DEF IndexInv
<1>6. db' \subseteq db /\ (db # {} => L \in db')
  BY <1>1, <1>2, <1>3
<1>7. cache' \cup db' \subseteq 1 .. Height' /\ missed' \subseteq 1 .. Height'
  BY <1>3, <1>4, <1>5, <1>6
<1>8. \A h \in db' : h - BlockWindow \notin db'
  BY <1>6 DEF IndexInv
<1>9. \A h \in cache' \cup db' : h + BlockWindow <= Height' => h + BlockWindow \in missed'
  BY <1>3, <1>4, <1>6 DEF IndexInv
<1>10. \A h \in (1 .. Height') \ missed' : h \in db' \/ \E k \in db' : h + BlockWindow <= k
  <2> TAKE h \in (1 .. Height') \ missed'
  <2>1. h \in (1 .. Height) \ missed /\ h \in Nat
    BY <1>3, <1>4
  <2>2. h \in db \/ \E k \in db : h + BlockWindow <= k
    BY <2>1 DEF IndexInv
  <2>3. db # {}
    BY <2>2
  <2>4. CASE h >= L - BlockWindow /\ h \in db
    BY <1>3, <2>4
  <2>5. CASE ~(h >= L - BlockWindow)
    <3>1. h + BlockWindow <= L
      BY <1>1, <1>2, <2>1, <2>5
    <3> QED
      BY <1>6, <2>3, <3>1
  <2>6. CASE \E k \in db : h + BlockWindow <= k
    <3>1. PICK k \in db : h + BlockWindow <= k
      BY <2>6
    <3>2. h + BlockWindow <= L
      BY <1>1, <1>2, <1>5, <2>1, <3>1
    <3> QED
      BY <1>6, <2>3, <3>2
  <2> QED
    BY <2>2, <2>4, <2>5, <2>6
<1>11. lastHeight' <= Height' /\ (lastHeight' # 0 => lastHeight' \in cache')
  BY <1>2, <1>3, <1>4
<1>12. cache' \subseteq 1 .. lastHeight'
  <2> SUFFICES ASSUME NEW h \in db PROVE h \in 1 .. L
    BY <1>3
  <2>1. h <= L /\ h \in 1 .. Height
    BY <1>2, <1>5
  <2> QED
    BY <1>1, <1>2, <2>1
<1>13. \A h \in db' : h \in cache'
  BY <1>3, <1>6
<1>14. \A h \in cache' \ db' : h + BlockWindow < lastHeight'
  <2> TAKE h \in cache' \ db'
  <2>1. h \in 1 .. Height /\ ~(h >= L - BlockWindow)
    BY <1>3, <1>5
  <2> QED
    BY <1>1, <1>2, <1>3, <2>1
<1>15. txCache' = Exact(chain', cache')
  BY <1>3, Zenon
<1> QED
  BY <1>3, <1>7, <1>8, <1>9, <1>10, <1>11, <1>12, <1>13, <1>14, <1>15 DEF IndexInv

LEMMA CrashIndexed ==
    ASSUME PubTypeOK, IndexInv, Crash
    PROVE  IndexInv'
<1>1. /\ cache' = {} /\ txCache' = {} /\ lastHeight' = 0 /\ db' = db /\ missed' = missed
      /\ notify' = "down" /\ chain' = chain
  BY DEF Crash
<1>2. Height' = Height /\ Height \in Nat
  BY <1>1, ChainFacts DEF Height
<1>3. txCache' = Exact(chain', cache')
  BY <1>1 DEF Exact
<1> QED
  BY <1>1, <1>2, <1>3 DEF IndexInv

(* Steps that only move the notification.                                    *)
LEMMA PublishIndexed ==
    ASSUME PubTypeOK, IndexInv, UNCHANGED <<chain, index, missed>>,
           \/ notify' = notify
           \/ notify = "blocks" /\ notify' = "txs"
           \/ notify = "txs" /\ notify' = "idle"
    PROVE  IndexInv'
<1>1. /\ cache' = cache /\ txCache' = txCache /\ lastHeight' = lastHeight /\ db' = db
      /\ missed' = missed /\ chain' = chain
  BY DEF index
<1>2. Height' = Height
  BY <1>1 DEF Height
<1>3. (notify' = "store" <=> notify = "store") /\ (notify' = "down" <=> notify = "down")
      /\ (notify' \in {"blocks", "txs"} => notify \in {"blocks", "txs"})
  OBVIOUS
<1>4. Exact(chain, cache)' = Exact(chain, cache)
  BY <1>1 DEF Exact
<1> QED
  BY <1>1, <1>2, <1>3, <1>4 DEF IndexInv

LEMMA IndexInvWindow ==
    ASSUME PubTypeOK, ChainOK, IndexInv
    PROVE  IndexWindow
<1> SUFFICES ASSUME notify \notin {"down", "tip", "store"}
             PROVE  LET recent == {h \in 1 .. lastHeight : h > lastHeight - BlockWindow} IN
                    /\ recent \ missed \subseteq cache
                    /\ \A h \in cache \ recent : h + BlockWindow \in missed
                    /\ db \cap recent = cache \cap recent
                    /\ \A tx \in Txs : GetTransaction(tx) =
                            IF tx \in UNION {chain[h] : h \in cache} THEN HeightOf(tx) ELSE NotFound
                    /\ \A t \in txCache : t[1] \in chain[t[2]] /\ t[2] \in cache
                    /\ ServeBlock(NotGiven, NotGiven) = lastHeight
                    /\ \A h \in DOMAIN chain : ServeBlock(h, NotGiven) = ServeBlock(NotGiven, h)
  BY DEF IndexWindow
<1> DEFINE recent == {h \in 1 .. lastHeight : h > lastHeight - BlockWindow}
<1>1. /\ Height \in Nat /\ BlockWindow \in Nat /\ BlockWindow > 0 /\ lastHeight \in Nat
      /\ DOMAIN chain = 1 .. Height
  BY ChainFacts
<1>2. /\ cache \subseteq 1 .. lastHeight /\ lastHeight <= Height
      /\ db \subseteq cache
      /\ \A h \in cache \ db : h + BlockWindow < lastHeight
      /\ \A h \in cache : h + BlockWindow <= Height => h + BlockWindow \in missed
      /\ lastHeight # 0 => lastHeight \in cache
      /\ txCache = Exact(chain, cache)
  BY DEF IndexInv
<1>3. ASSUME NEW h \in recent, h \notin missed PROVE h \in cache
  <2>1. h \in (1 .. Height) \ missed /\ h > lastHeight - BlockWindow
    BY <1>1, <1>2, <1>3
  <2>2. h \in db \/ \E k \in db : h + BlockWindow <= k
    BY <2>1 DEF IndexInv
  <2>3. ASSUME NEW k \in db, h + BlockWindow <= k PROVE FALSE
    <3>1. k \in 1 .. lastHeight
      BY <1>2
    <3> QED
      BY <1>1, <2>1, <2>3, <3>1
  <2> QED
    BY <1>2, <2>2, <2>3
<1>4. ASSUME NEW h \in cache, h \notin recent PROVE h + BlockWindow \in missed
  <2>1. h \in 1 .. lastHeight
    BY <1>2
  <2>2. h + BlockWindow <= Height
    BY <1>1, <1>2, <1>4, <2>1
  <2> QED
    BY <1>2, <2>2
<1>5. db \cap recent = cache \cap recent
  <2> SUFFICES ASSUME NEW h \in cache, h \in recent PROVE h \in db
    BY <1>2
  <2>1. h \in 1 .. lastHeight /\ h > lastHeight - BlockWindow
    OBVIOUS
  <2> QED
    BY <1>1, <1>2, <2>1
<1>6. ASSUME NEW tx \in Txs
      PROVE  GetTransaction(tx) =
                 IF tx \in UNION {chain[h] : h \in cache} THEN HeightOf(tx) ELSE NotFound
  <2> DEFINE noted == {t \in txCache : t[1] = tx /\ t[2] \in cache}
  <2>1. \A t : t \in noted <=> \E k \in cache : t = <<tx, k>> /\ tx \in chain[k]
    <3> TAKE t
    <3>1. t \in Exact(chain, cache) <=> \E x \in Txs : \E k \in cache : t = <<x, k>> /\ x \in chain[k]
      BY InExact
    <3>2. ASSUME t \in noted PROVE \E k \in cache : t = <<tx, k>> /\ tx \in chain[k]
      <4>1. t \in Exact(chain, cache) /\ t[1] = tx
        BY <1>2, <3>2
      <4>2. PICK x \in Txs, k \in cache : t = <<x, k>> /\ x \in chain[k]
        BY <3>1, <4>1
      <4>3. x = tx
        BY <4>1, <4>2
      <4> QED
        BY <4>2, <4>3
    <3>3. ASSUME NEW k \in cache, t = <<tx, k>>, tx \in chain[k] PROVE t \in noted
      <4>1. t \in txCache
        BY <1>2, <3>1, <3>3
      <4>2. t[1] = tx /\ t[2] = k
        BY <3>3
      <4> QED
        BY <4>1, <4>2
    <3> QED
      BY <3>2, <3>3
  <2>2. GetTransaction(tx) = IF noted = {} THEN NotFound ELSE (CHOOSE t \in noted : TRUE)[2]
    BY DEF GetTransaction
  <2> HIDE DEF noted
  <2>3. CASE tx \in UNION {chain[h] : h \in cache}
    <3>1. PICK k \in cache : tx \in chain[k]
      BY <2>3
    <3>2. <<tx, k>> \in noted
      BY <2>1, <3>1
    <3>3. (CHOOSE t \in noted : TRUE) \in noted
      BY <3>2
    <3>4. PICK l \in cache : (CHOOSE t \in noted : TRUE) = <<tx, l>> /\ tx \in chain[l]
      BY <2>1, <3>3
    <3>5. GetTransaction(tx) = l
      <4>1. noted # {}
        BY <3>2
      <4> DEFINE first == CHOOSE t \in noted : TRUE
      <4>2. GetTransaction(tx) = first[2]
        BY <2>2, <4>1
      <4>3. first = <<tx, l>>
        BY <3>4
      <4> HIDE DEF first
      <4> QED
        BY <4>2, <4>3
    <3>6. l \in DOMAIN chain /\ \A i \in DOMAIN chain : tx \in chain[i] => i = l
      <4>1. l \in 1 .. Height
        BY <1>1, <1>2
      <4> QED
        BY <1>1, <3>4, <4>1 DEF ChainOK
    <3>7. HeightOf(tx) = l
      BY <3>4, <3>6 DEF HeightOf
    <3> QED
      BY <2>3, <3>5, <3>7
  <2>4. CASE tx \notin UNION {chain[h] : h \in cache}
    <3>1. noted = {}
      BY <2>1, <2>4
    <3> QED
      BY <2>2, <2>4, <3>1
  <2> QED
    BY <2>3, <2>4
<1>7. ASSUME NEW t \in txCache PROVE t[1] \in chain[t[2]] /\ t[2] \in cache
  BY <1>2 DEF Exact
<1>8. ServeBlock(NotGiven, NotGiven) = lastHeight
  BY <1>2 DEF ServeBlock, NotGiven, GetLatestBlock, GetBlockByHeight, NotFound
<1>9. ASSUME NEW h \in DOMAIN chain PROVE ServeBlock(h, NotGiven) = ServeBlock(NotGiven, h)
  <2>1. h # NotGiven
    BY <1>1 DEF NotGiven
  <2> QED
    BY <2>1 DEF ServeBlock, GetBlockByID, GetBlockByHeight, NotGiven
<1> QED
  BY <1>3, <1>4, <1>5, <1>6, <1>7, <1>8, <1>9

-----------------------------------------------------------------------------
(* What a connection is promised, when the chain grows                       *)

LEMMA StatusIs ==
    ASSUME NEW a, NEW b, Status(a) = Status(b)
    PROVE  a.phase = b.phase /\ a.writer = b.writer /\ a.blocksFrom = b.blocksFrom
           /\ a.txFrom = b.txFrom
BY DEF Status

LEMMA FreshIs ==
    ASSUME NEW a, Fresh(a)
    PROVE  /\ a.phase = "none" /\ a.writer = TRUE /\ a.blocksFrom = -1
           /\ \A tx \in Txs : a.txFrom[tx] = -1
           /\ All(a) = {}
<1>1. Status(a) = Status(NewConn) /\ All(a) = {}
  BY DEF Fresh
<1>2. a.phase = NewConn.phase /\ a.writer = NewConn.writer /\ a.blocksFrom = NewConn.blocksFrom
      /\ a.txFrom = NewConn.txFrom
  BY <1>1, StatusIs
<1> QED
  BY <1>1, <1>2 DEF NewConn

(* The blocks of before stay, and what is missed, but for the last block.    *)
Grows ==
    /\ Height' \in Nat /\ Height <= Height' /\ DOMAIN chain' = 1 .. Height'
    /\ \A k \in 1 .. Height : chain'[k] = chain[k]
    /\ \A k \in missed : k \in missed' \/ k = Height
    /\ \A k \in 1 .. Height' : \A tx \in chain'[k] : Expiry[tx] >= k

BlocksGrow ==
    /\ BlocksDone <= BlocksDone' /\ BlocksDone' \in Int
    /\ \A k \in 1 .. BlocksDone' : k \in missed' \/ (k <= BlocksDone /\ k \notin missed)

TxsGrow ==
    \A k \in 1 .. Height' : k \in missed' \/ k > TxsDone' \/ (k <= TxsDone /\ k \notin missed)

LEMMA DoneIs ==
    ASSUME PubTypeOK
    PROVE  /\ BlocksDone \in Int /\ TxsDone \in Int
           /\ TxsDone <= BlocksDone /\ BlocksDone <= Height /\ Height <= TxsDone + 1
<1>1. Height \in Nat
  BY ChainFacts
<1> QED
  BY <1>1 DEF BlocksDone, TxsDone

LEMMA BlocksKept ==
    ASSUME PubTypeOK, NEW c \in Conns, BlocksInv(c), BlocksGrow,
           conn'[c].blocksFrom = conn[c].blocksFrom,
           \A m \in All(conn'[c]) : m.mode = "block" => m \in All(conn[c]),
           c \in blockListeners' => c \in blockListeners,
           conn'[c].phase = "open" /\ conn[c].blocksFrom # -1 =>
                /\ conn[c].phase = "open" /\ All(conn[c]) \subseteq All(conn'[c])
                /\ c \in blockListeners => c \in blockListeners'
    PROVE  BlocksInv(c)'
<1>1. /\ BlocksDone \in Int /\ BlocksDone' \in Int /\ BlocksDone <= BlocksDone'
      /\ conn[c] \in Connection /\ conn[c].blocksFrom \in Int
  BY DoneIs DEF BlocksGrow, PubTypeOK, Connection
<1>2. All(conn[c]) \in SUBSET Msg /\ \A m \in Msg : m.height \in Nat
  BY <1>1, AllType DEF Msg
<1>3. \A m \in All(conn'[c]) : m.mode = "block" =>
            /\ conn'[c].blocksFrom # -1 /\ conn'[c].blocksFrom < m.height /\ m.height <= BlocksDone'
            /\ m = BlockMsg(m.height)
  <2> TAKE m \in All(conn'[c])
  <2> HAVE m.mode = "block"
  <2>1. m \in All(conn[c]) /\ m.height \in Nat
    BY <1>2
  <2>2. /\ conn[c].blocksFrom # -1 /\ conn[c].blocksFrom < m.height /\ m.height <= BlocksDone
        /\ m = BlockMsg(m.height)
    BY <2>1 DEF BlocksInv
  <2> QED
    BY <1>1, <2>1, <2>2
<1>4. /\ conn'[c].blocksFrom >= -1 /\ (c \in blockListeners' => conn'[c].blocksFrom # -1)
      /\ conn'[c].blocksFrom # -1 => conn'[c].blocksFrom <= BlocksDone'
  BY <1>1 DEF BlocksInv
<1>5. ASSUME conn'[c].phase = "open", conn'[c].blocksFrom # -1
      PROVE  /\ c \in blockListeners'
             /\ \A h \in conn'[c].blocksFrom + 1 .. BlocksDone' :
                    BlockMsg(h) \in All(conn'[c]) \/ h \in missed'
  <2>1. conn[c].phase = "open" /\ conn[c].blocksFrom # -1
    BY <1>5
  <2>2. /\ c \in blockListeners
        /\ \A h \in conn[c].blocksFrom + 1 .. BlocksDone : BlockMsg(h) \in All(conn[c]) \/ h \in missed
    BY <2>1 DEF BlocksInv
  <2>3. ASSUME NEW h \in conn'[c].blocksFrom + 1 .. BlocksDone', h \notin missed'
        PROVE  BlockMsg(h) \in All(conn'[c])
    <3>1. conn[c].blocksFrom >= -1
      BY DEF BlocksInv
    <3>2. h \in 1 .. BlocksDone'
      BY <1>1, <2>1, <2>3, <3>1
    <3>3. h <= BlocksDone /\ h \notin missed
      BY <2>3, <3>2 DEF BlocksGrow
    <3>4. h \in conn[c].blocksFrom + 1 .. BlocksDone
      BY <1>1, <3>3
    <3> QED
      BY <1>5, <2>1, <2>2, <3>3, <3>4
  <2> QED
    BY <1>5, <2>1, <2>2, <2>3
<1> QED
  BY <1>3, <1>4, <1>5 DEF BlocksInv

LEMMA AnswerKept ==
    ASSUME PubTypeOK, NEW m \in Msg, NEW from, AnswerRight(m, from), Grows
    PROVE  AnswerRight(m, from)'
<1>1. /\ Height \in Nat /\ DOMAIN chain = 1 .. Height /\ DOMAIN chain' = 1 .. Height'
      /\ Height' \in Nat /\ Height <= Height' /\ m.tx \in Txs
      /\ \A tx \in Txs : Expiry[tx] \in Nat
  BY ChainFacts DEF Grows, AnswerRight
<1>2. CASE m.height # 0
  <2>1. m.height \in 1 .. Height /\ m.tx \in chain[m.height]
    BY <1>1, <1>2 DEF AnswerRight
  <2>2. m.height \in 1 .. Height' /\ chain'[m.height] = chain[m.height]
    BY <1>1, <2>1 DEF Grows
  <2> QED
    BY <1>1, <1>2, <2>1, <2>2 DEF AnswerRight
<1>3. CASE m.height = 0
  <2>1. Expiry[m.tx] < Height
        /\ \A k \in 1 .. Height : m.tx \in chain[k] => k <= from \/ k \in missed
    BY <1>1, <1>3 DEF AnswerRight
  <2>2. Expiry[m.tx] < Height'
    BY <1>1, <2>1
  <2>3. ASSUME NEW k \in 1 .. Height', m.tx \in chain'[k] PROVE k <= from \/ k \in missed'
    <3>1. Expiry[m.tx] >= k
      BY <2>3 DEF Grows
    <3>2. k \in 1 .. Height /\ k # Height
      BY <1>1, <2>1, <3>1
    <3>3. m.tx \in chain[k]
      BY <2>3, <3>2 DEF Grows
    <3> QED
      BY <2>1, <3>2, <3>3 DEF Grows
  <2> QED
    BY <1>1, <1>3, <2>2, <2>3 DEF AnswerRight
<1> QED
  BY <1>2, <1>3

LEMMA TxsKept ==
    ASSUME PubTypeOK, NEW c \in Conns, TxsInv(c), Grows, TxsGrow,
           conn'[c].txFrom = conn[c].txFrom,
           \A m \in All(conn'[c]) : m.mode = "tx" => m \in All(conn[c]),
           \A tx \in Txs : c \in txListeners'[tx] <=> c \in txListeners[tx],
           conn'[c].phase = "open" /\ (\E tx \in Txs : conn[c].txFrom[tx] # -1) =>
                conn[c].phase = "open" /\ All(conn[c]) \subseteq All(conn'[c])
    PROVE  TxsInv(c)'
<1>1. conn[c] \in Connection /\ conn[c].txFrom \in [Txs -> Int]
      /\ DOMAIN chain = 1 .. Height /\ Height \in Nat
      /\ DOMAIN chain' = 1 .. Height' /\ Height' \in Nat /\ Height <= Height'
  BY ChainFacts DEF PubTypeOK, Connection, Grows
<1>2. All(conn[c]) \in SUBSET Msg
  BY <1>1, AllType
<1>3. ASSUME NEW m \in All(conn'[c]), m.mode = "tx"
      PROVE  /\ conn'[c].txFrom[m.tx] # -1 /\ AnswerRight(m, conn[c].txFrom[m.tx])'
             /\ c \notin txListeners'[m.tx]
  <2>1. m \in All(conn[c]) /\ m \in Msg
    BY <1>2, <1>3
  <2>2. conn[c].txFrom[m.tx] # -1 /\ AnswerRight(m, conn[c].txFrom[m.tx])
        /\ c \notin txListeners[m.tx]
    BY <1>3, <2>1 DEF TxsInv
  <2>3. m.tx \in Txs
    BY <2>2 DEF AnswerRight
  <2> DEFINE from == conn[c].txFrom[m.tx]
  <2>4. PICK f : f = from
    OBVIOUS
  <2>5. AnswerRight(m, f)'
    BY <2>1, <2>2, <2>4, AnswerKept
  <2> QED
    BY <2>2, <2>3, <2>4, <2>5 DEF AnswerRight
<1>4. ASSUME NEW tx \in Txs
      PROVE  /\ conn'[c].txFrom[tx] >= -1
             /\ c \in txListeners'[tx] =>
                /\ conn'[c].txFrom[tx] # -1
                /\ \A k \in DOMAIN chain' : tx \in chain'[k] =>
                        k <= conn'[c].txFrom[tx] \/ k \in missed' \/ k > TxsDone'
             /\ conn'[c].phase = "open" /\ conn'[c].txFrom[tx] # -1 =>
                c \in txListeners'[tx] \/ \E m \in All(conn'[c]) : m.mode = "tx" /\ m.tx = tx
  <2>1. conn'[c].txFrom[tx] >= -1
    BY DEF TxsInv
  <2>2. ASSUME c \in txListeners'[tx]
        PROVE  /\ conn'[c].txFrom[tx] # -1
               /\ \A k \in DOMAIN chain' : tx \in chain'[k] =>
                        k <= conn'[c].txFrom[tx] \/ k \in missed' \/ k > TxsDone'
    <3>1. /\ conn[c].txFrom[tx] # -1
          /\ \A k \in DOMAIN chain : tx \in chain[k] =>
                k <= conn[c].txFrom[tx] \/ k \in missed \/ k > TxsDone
      BY <2>2 DEF TxsInv
    <3>2. ASSUME NEW k \in DOMAIN chain', tx \in chain'[k]
          PROVE  k <= conn[c].txFrom[tx] \/ k \in missed' \/ k > TxsDone'
      <4>1. k \in 1 .. Height' /\ TxsDone \in Int /\ TxsDone <= Height
        BY <1>1, DoneIs
      <4>2. CASE k <= TxsDone /\ k \notin missed
        <5>1. k \in DOMAIN chain /\ ~(k > TxsDone)
          BY <1>1, <4>1, <4>2
        <5>2. tx \in chain[k]
          BY <1>1, <3>2, <5>1 DEF Grows
        <5> QED
          BY <3>1, <4>2, <5>1, <5>2
      <4> QED
        BY <4>1, <4>2 DEF TxsGrow
    <3> QED
      BY <3>1, <3>2
  <2>3. ASSUME conn'[c].phase = "open", conn'[c].txFrom[tx] # -1
        PROVE  c \in txListeners'[tx] \/ \E m \in All(conn'[c]) : m.mode = "tx" /\ m.tx = tx
    <3>1. conn[c].phase = "open" /\ All(conn[c]) \subseteq All(conn'[c])
      BY <2>3
    <3>2. c \in txListeners[tx] \/ \E m \in All(conn[c]) : m.mode = "tx" /\ m.tx = tx
      BY <2>3, <3>1 DEF TxsInv
    <3> QED
      BY <3>1, <3>2
  <2> QED
    BY <2>1, <2>2, <2>3
<1> QED
  BY <1>3, <1>4 DEF TxsInv, AnswerRight

(* Nothing is promised to a connection that has not been opened.             *)
LEMMA FreshKept ==
    ASSUME NEW c \in Conns, Fresh(conn'[c]), c \notin blockListeners',
           \A tx \in Txs : c \notin txListeners'[tx]
    PROVE  BlocksInv(c)' /\ TxsInv(c)'
<1>1. /\ conn'[c].phase = "none" /\ conn'[c].blocksFrom = -1
      /\ \A tx \in Txs : conn'[c].txFrom[tx] = -1
      /\ All(conn'[c]) = {}
  BY FreshIs
<1>2. BlocksInv(c)'
  BY <1>1 DEF BlocksInv
<1>3. TxsInv(c)'
  BY <1>1 DEF TxsInv
<1> QED
  BY <1>2, <1>3

-----------------------------------------------------------------------------
(* Steps of one connection                                                   *)

LEMMA NothingGrows ==
    ASSUME PubTypeOK, ChainOK, UNCHANGED <<chain, notify, missed>>
    PROVE  Grows /\ BlocksGrow /\ TxsGrow /\ ChainOK'
<1>1. /\ Height \in Nat /\ DOMAIN chain = 1 .. Height
      /\ BlocksDone \in Int /\ TxsDone \in Int
  BY ChainFacts, DoneIs
<1>2. chain' = chain /\ missed' = missed /\ notify' = notify
  OBVIOUS
<1>3. Height' = Height
  BY <1>2 DEF Height
<1>4. BlocksDone' = BlocksDone /\ TxsDone' = TxsDone
  BY <1>2, <1>3 DEF BlocksDone, TxsDone
<1>5. Grows
  BY <1>1, <1>2, <1>3 DEF Grows, ChainOK
<1>6. BlocksGrow
  BY <1>1, <1>2, <1>4 DEF BlocksGrow
<1>7. TxsGrow
  BY <1>1, <1>2, <1>3, <1>4 DEF TxsGrow
<1> QED
  BY <1>2, <1>3, <1>5, <1>6, <1>7 DEF ChainOK

LEMMA OneKept ==
    ASSUME PubInv, NEW c \in Conns, NEW s \in Connection, conn' = [conn EXCEPT ![c] = s],
           UNCHANGED <<chain, notify, listeners, index, missed, crashes>>,
           notify \notin {"down", "tip"},
           Good(s), All(s) \subseteq All(conn[c]),
           s.blocksFrom = conn[c].blocksFrom, s.txFrom = conn[c].txFrom, s.phase # "none",
           s.phase = "open" => /\ s.writer /\ All(s) = All(conn[c])
                               /\ conn[c].phase \in {"none", "open"}
    PROVE  PubInv'
<1>1. PubTypeOK /\ ChainOK /\ IndexInv /\ Crashed /\ ConnInv
  BY DEF PubInv
<1>2. conn \in [Conns -> Connection]
  BY <1>1 DEF PubTypeOK
<1>3. conn' \in [Conns -> Connection] /\ conn'[c] = s /\ \A d \in Conns \ {c} : conn'[d] = conn[d]
  BY <1>2
<1>4. chain' = chain /\ notify' = notify /\ blockListeners' = blockListeners
      /\ txListeners' = txListeners /\ expiringTxs' = expiringTxs /\ lastHeight' = lastHeight
      /\ crashes' = crashes /\ missed' = missed
  BY DEF listeners, index
<1>5. PubTypeOK'
  BY <1>1, <1>3, <1>4 DEF PubTypeOK
<1>6. Grows /\ BlocksGrow /\ TxsGrow /\ ChainOK'
  BY <1>1, NothingGrows
<1>7. IndexInv'
  BY <1>1, PublishIndexed
<1>8. Crashed'
  BY <1>1, <1>4 DEF Crashed
<1>9. ASSUME NEW d \in Conns
      PROVE  /\ Good(conn'[d]) /\ BlocksInv(d)' /\ TxsInv(d)'
             /\ conn'[d].phase = "none" => Fresh(conn'[d])
             /\ conn'[d].phase = "open" => conn'[d].writer
  <2>1. Good(conn[d]) /\ BlocksInv(d) /\ TxsInv(d)
        /\ (conn[d].phase = "none" => Fresh(conn[d]))
        /\ (conn[d].phase = "open" => conn[d].writer)
    BY <1>1 DEF ConnInv
  <2>2. conn'[d].phase = "open" /\ conn[d].phase # "open" =>
            conn[d].blocksFrom = -1 /\ \A tx \in Txs : conn[d].txFrom[tx] = -1
    BY <1>3, <2>1, FreshIs
  <2>3. /\ conn'[d].blocksFrom = conn[d].blocksFrom /\ conn'[d].txFrom = conn[d].txFrom
        /\ All(conn'[d]) \subseteq All(conn[d])
        /\ conn'[d].phase = "open" => All(conn[d]) \subseteq All(conn'[d])
    BY <1>3
  <2>4. BlocksInv(d)'
    BY <1>1, <1>4, <1>6, <2>1, <2>2, <2>3, BlocksKept
  <2>5. TxsInv(d)'
    BY <1>1, <1>4, <1>6, <2>1, <2>2, <2>3, TxsKept
  <2> QED
    BY <1>3, <2>1, <2>4, <2>5
<1>10. ConnInv'
  BY <1>1, <1>4, <1>9 DEF ConnInv
<1> QED
  BY <1>5, <1>6, <1>7, <1>8, <1>10 DEF PubInv

(* Whoever has been opened lives since the last crash.                       *)
LEMMA Alive ==
    ASSUME PubInv, NEW c \in Conns, conn[c].phase # "none"
    PROVE  notify \notin {"down", "tip"}
BY DEF PubInv, Crashed

LEMMA ConnIs ==
    ASSUME PubInv, NEW c \in Conns
    PROVE  conn[c] \in Connection /\ Good(conn[c]) /\ conn \in [Conns -> Connection]
           /\ (conn[c].phase = "none" => Fresh(conn[c]))
           /\ (conn[c].phase = "open" => conn[c].writer)
BY DEF PubInv, ConnInv, PubTypeOK

(* The fields that are not of its buffer.                                    *)
LEMMA SetPhase ==
    ASSUME NEW r \in Connection, NEW p \in Phases
    PROVE  LET s == [r EXCEPT !.phase = p] IN
           /\ s \in Connection /\ s.phase = p /\ s.writer = r.writer
           /\ s.blocksFrom = r.blocksFrom /\ s.txFrom = r.txFrom
           /\ All(s) = All(r) /\ (Good(r) => Good(s))
<1> DEFINE s == [r EXCEPT !.phase = p]
<1>1. /\ s \in Connection /\ s.phase = p /\ s.writer = r.writer
      /\ s.blocksFrom = r.blocksFrom /\ s.txFrom = r.txFrom
      /\ s.got = r.got /\ s.queue = r.queue /\ s.pending = r.pending /\ s.lost = r.lost
  BY DEF Connection
<1> HIDE DEF s
<1>2. Stream(s) = Stream(r) /\ All(s) = All(r)
  BY <1>1 DEF Stream, All
<1>3. Good(r) => Good(s)
  BY <1>1, <1>2 DEF Good
<1> QED
  BY <1>1, <1>2, <1>3 DEF s

LEMMA SetWriter ==
    ASSUME NEW r \in Connection, NEW w \in BOOLEAN
    PROVE  LET s == [r EXCEPT !.writer = w] IN
           /\ s \in Connection /\ s.phase = r.phase /\ s.writer = w
           /\ s.blocksFrom = r.blocksFrom /\ s.txFrom = r.txFrom
           /\ s.queue = r.queue /\ All(s) = All(r) /\ (Good(r) => Good(s))
<1> DEFINE s == [r EXCEPT !.writer = w]
<1>1. /\ s \in Connection /\ s.phase = r.phase /\ s.writer = w
      /\ s.blocksFrom = r.blocksFrom /\ s.txFrom = r.txFrom
      /\ s.got = r.got /\ s.queue = r.queue /\ s.pending = r.pending /\ s.lost = r.lost
  BY DEF Connection
<1> HIDE DEF s
<1>2. Stream(s) = Stream(r) /\ All(s) = All(r)
  BY <1>1 DEF Stream, All
<1>3. Good(r) => Good(s)
  BY <1>1, <1>2 DEF Good
<1> QED
  BY <1>1, <1>2, <1>3 DEF s

LEMMA ConnectKeeps ==
    ASSUME PubInv, NEW c \in Conns, Connect(c)
    PROVE  PubInv'
<1>1. /\ conn[c].phase = "none" /\ notify \notin {"down", "tip"}
      /\ conn' = [conn EXCEPT ![c].phase = "open"]
      /\ UNCHANGED <<chain, notify, listeners, index, missed, crashes>>
  BY DEF Connect
<1>2. conn[c] \in Connection /\ Good(conn[c]) /\ conn \in [Conns -> Connection] /\ conn[c].writer
  BY <1>1, ConnIs, FreshIs
<1>3. PICK s : s = [conn[c] EXCEPT !.phase = "open"]
  OBVIOUS
<1>4. "open" \in Phases
  BY DEF Phases
<1>5. /\ s \in Connection /\ s.phase = "open" /\ s.writer = conn[c].writer
      /\ s.blocksFrom = conn[c].blocksFrom /\ s.txFrom = conn[c].txFrom
      /\ All(s) = All(conn[c]) /\ Good(s)
  BY <1>2, <1>3, <1>4, SetPhase
<1>6. conn' = [conn EXCEPT ![c] = s]
  BY <1>1, <1>3
<1> QED
  BY <1>1, <1>2, <1>5, <1>6, OneKept

LEMMA TimeoutKeeps ==
    ASSUME PubInv, NEW c \in Conns, Timeout(c)
    PROVE  PubInv'
<1>1. /\ conn[c].phase \in {"open", "removed"}
      /\ conn' = [conn EXCEPT ![c] = ClearPending(@)]
      /\ UNCHANGED <<chain, notify, listeners, index, missed, crashes>>
  BY DEF Timeout
<1>2. conn[c] \in Connection /\ Good(conn[c]) /\ conn \in [Conns -> Connection]
      /\ (conn[c].phase = "open" => conn[c].writer)
  BY ConnIs
<1>3. PICK s : s = ClearPending(conn[c])
  OBVIOUS
<1>4. s \in Connection /\ Good(s) /\ All(s) = All(conn[c]) /\ Status(s) = Status(conn[c])
  BY <1>2, <1>3, ClearKeeps
<1>5. s.phase = conn[c].phase /\ s.writer = conn[c].writer
      /\ s.blocksFrom = conn[c].blocksFrom /\ s.txFrom = conn[c].txFrom
  BY <1>4, StatusIs
<1>6. conn' = [conn EXCEPT ![c] = s]
  BY <1>1, <1>3
<1>7. notify \notin {"down", "tip"}
  BY <1>1, Alive
<1> QED
  BY <1>1, <1>2, <1>4, <1>5, <1>6, <1>7, OneKept

LEMMA WritesKeep ==
    ASSUME PubInv, NEW c \in Conns, Write(c)
    PROVE  PubInv'
<1>1. /\ conn[c].phase \notin {"none", "closed"} /\ conn[c].queue # <<>>
      /\ conn' = [conn EXCEPT ![c].queue = Tail(@), ![c].got = @ \o Head(conn[c].queue)]
      /\ UNCHANGED <<chain, notify, listeners, index, missed, crashes>>
  BY DEF Write
<1>2. conn[c] \in Connection /\ Good(conn[c]) /\ conn \in [Conns -> Connection]
      /\ (conn[c].phase = "open" => conn[c].writer)
  BY ConnIs
<1>3. PICK s : s = [conn[c] EXCEPT !.queue = Tail(@), !.got = @ \o Head(conn[c].queue)]
  OBVIOUS
<1>4. s \in Connection /\ Good(s) /\ All(s) = All(conn[c]) /\ Status(s) = Status(conn[c])
  BY <1>1, <1>2, <1>3, WriteKeeps
<1>5. s.phase = conn[c].phase /\ s.writer = conn[c].writer
      /\ s.blocksFrom = conn[c].blocksFrom /\ s.txFrom = conn[c].txFrom
  BY <1>4, StatusIs
<1>6. conn' = [conn EXCEPT ![c] = s]
  BY <1>1, <1>2, <1>3
<1>7. notify \notin {"down", "tip"}
  BY <1>1, Alive
<1> QED
  BY <1>1, <1>2, <1>4, <1>5, <1>6, <1>7, OneKept

LEMMA WriterEndsKeeps ==
    ASSUME PubInv, NEW c \in Conns, WriterEnds(c)
    PROVE  PubInv'
<1> DEFINE r == conn[c]
           d == IF r.queue = <<>> THEN r ELSE [r EXCEPT !.queue = Tail(@)]
           p == IF r.phase = "open" THEN "removed" ELSE r.phase
<1>1. /\ r.phase # "none"
      /\ conn' = [conn EXCEPT ![c].writer = FALSE,
                              ![c].phase = IF @ = "open" THEN "removed" ELSE @,
                              ![c].queue = IF @ = <<>> THEN @ ELSE Tail(@)]
      /\ UNCHANGED <<chain, notify, listeners, index, missed, crashes>>
  BY DEF WriterEnds
<1>2. r \in Connection /\ Good(r) /\ conn \in [Conns -> Connection] /\ r.phase \in Phases
  BY ConnIs DEF Connection
<1>3. p \in Phases /\ p # "none" /\ p # "open"
  BY <1>1, <1>2 DEF Phases
<1>4. d \in Connection /\ Good(d) /\ All(d) \subseteq All(r) /\ Status(d) = Status(r)
  BY <1>2, DropKeeps
<1>5. d.phase = r.phase /\ d.blocksFrom = r.blocksFrom /\ d.txFrom = r.txFrom
  BY <1>4, StatusIs
<1>6. PICK s : s = [[d EXCEPT !.writer = FALSE] EXCEPT !.phase = p]
  OBVIOUS
<1>7. conn' = [conn EXCEPT ![c] = s]
  <2>1. conn' = [conn EXCEPT ![c] = [r EXCEPT !.writer = FALSE, !.phase = p,
                                              !.queue = IF @ = <<>> THEN @ ELSE Tail(@)]]
    BY <1>1, <1>2
  <2>2. s = [r EXCEPT !.writer = FALSE, !.phase = p, !.queue = IF @ = <<>> THEN @ ELSE Tail(@)]
    <3>1. CASE r.queue = <<>>
      <4> HIDE DEF r, p
      <4> QED
        BY <1>2, <1>6, <3>1 DEF Connection
    <3>2. CASE r.queue # <<>>
      <4> HIDE DEF r, p
      <4> QED
        BY <1>2, <1>6, <3>2 DEF Connection
    <3> QED
      BY <3>1, <3>2
  <2> QED
    BY <2>1, <2>2
<1> HIDE DEF d, p
<1>8. PICK e : e = [d EXCEPT !.writer = FALSE]
  OBVIOUS
<1>9. e \in Connection /\ e.blocksFrom = d.blocksFrom /\ e.txFrom = d.txFrom
      /\ All(e) = All(d) /\ Good(e)
  BY <1>4, <1>8, SetWriter
<1>10. s = [e EXCEPT !.phase = p]
  BY <1>6, <1>8
<1>11. s \in Connection /\ s.phase = p /\ s.blocksFrom = e.blocksFrom /\ s.txFrom = e.txFrom
       /\ All(s) = All(e) /\ Good(s)
  BY <1>3, <1>9, <1>10, SetPhase
<1>12. notify \notin {"down", "tip"}
  BY <1>1, Alive
<1> QED
  BY <1>1, <1>3, <1>4, <1>5, <1>7, <1>9, <1>11, <1>12, OneKept

LEMMA PhaseKeeps ==
    ASSUME PubInv, NEW c \in Conns, NEW p \in Phases, p \notin {"none", "open"},
           conn[c].phase # "none", conn' = [conn EXCEPT ![c].phase = p],
           UNCHANGED <<chain, notify, listeners, index, missed, crashes>>
    PROVE  PubInv'
<1>1. conn[c] \in Connection /\ Good(conn[c]) /\ conn \in [Conns -> Connection]
  BY ConnIs
<1>2. PICK s : s = [conn[c] EXCEPT !.phase = p]
  OBVIOUS
<1>3. /\ s \in Connection /\ s.phase = p
      /\ s.blocksFrom = conn[c].blocksFrom /\ s.txFrom = conn[c].txFrom
      /\ All(s) = All(conn[c]) /\ Good(s)
  BY <1>1, <1>2, SetPhase
<1>4. conn' = [conn EXCEPT ![c] = s]
  BY <1>2
<1>5. notify \notin {"down", "tip"}
  BY Alive
<1> QED
  BY <1>3, <1>4, <1>5, OneKept

LEMMA ReaderEndsKeeps ==
    ASSUME PubInv, NEW c \in Conns, ReaderEnds(c) \/ CloseSocket(c)
    PROVE  PubInv'
<1>1. CASE ReaderEnds(c)
  BY <1>1, PhaseKeeps DEF ReaderEnds, Phases
<1>2. CASE CloseSocket(c)
  BY <1>2, PhaseKeeps DEF CloseSocket, Phases
<1> QED
  BY <1>1, <1>2

LEMMA DeactivateKeeps ==
    ASSUME PubInv, NEW c \in Conns, Deactivate(c)
    PROVE  PubInv'
<1>1. /\ conn[c].phase = "removed"
      /\ conn' = [conn EXCEPT ![c] = [ClearPending(@) EXCEPT !.phase = "deactivated"]]
      /\ UNCHANGED <<chain, notify, listeners, index, missed, crashes>>
  BY DEF Deactivate
<1>2. conn[c] \in Connection /\ Good(conn[c]) /\ conn \in [Conns -> Connection]
  BY ConnIs
<1>3. PICK e : e = ClearPending(conn[c])
  OBVIOUS
<1>4. e \in Connection /\ Good(e) /\ All(e) = All(conn[c]) /\ Status(e) = Status(conn[c])
  BY <1>2, <1>3, ClearKeeps
<1>5. e.blocksFrom = conn[c].blocksFrom /\ e.txFrom = conn[c].txFrom
  BY <1>4, StatusIs
<1>6. PICK s : s = [e EXCEPT !.phase = "deactivated"]
  OBVIOUS
<1>7. "deactivated" \in Phases
  BY DEF Phases
<1>8. s \in Connection /\ s.phase = "deactivated" /\ s.blocksFrom = e.blocksFrom
      /\ s.txFrom = e.txFrom /\ All(s) = All(e) /\ Good(s)
  BY <1>4, <1>6, <1>7, SetPhase
<1>9. conn' = [conn EXCEPT ![c] = s]
  BY <1>1, <1>3, <1>6
<1>10. notify \notin {"down", "tip"}
  BY <1>1, Alive
<1> QED
  BY <1>1, <1>4, <1>5, <1>8, <1>9, <1>10, OneKept

-----------------------------------------------------------------------------
(* Registrations                                                             *)

LEMMA SetBlocksFrom ==
    ASSUME NEW r \in Connection, NEW n \in Int
    PROVE  LET s == [r EXCEPT !.blocksFrom = n] IN
           /\ s \in Connection /\ s.phase = r.phase /\ s.writer = r.writer
           /\ s.blocksFrom = n /\ s.txFrom = r.txFrom
           /\ All(s) = All(r) /\ (Good(r) => Good(s))
<1> DEFINE s == [r EXCEPT !.blocksFrom = n]
<1>1. /\ s \in Connection /\ s.phase = r.phase /\ s.writer = r.writer
      /\ s.blocksFrom = n /\ s.txFrom = r.txFrom
      /\ s.got = r.got /\ s.queue = r.queue /\ s.pending = r.pending /\ s.lost = r.lost
  BY DEF Connection
<1> HIDE DEF s
<1>2. Stream(s) = Stream(r) /\ All(s) = All(r)
  BY <1>1 DEF Stream, All
<1>3. Good(r) => Good(s)
  BY <1>1, <1>2 DEF Good
<1> QED
  BY <1>1, <1>2, <1>3 DEF s

LEMMA SetTxFrom ==
    ASSUME NEW r \in Connection, NEW f \in [Txs -> Int]
    PROVE  LET s == [r EXCEPT !.txFrom = f] IN
           /\ s \in Connection /\ s.phase = r.phase /\ s.writer = r.writer
           /\ s.blocksFrom = r.blocksFrom /\ s.txFrom = f
           /\ All(s) = All(r) /\ (Good(r) => Good(s))
<1> DEFINE s == [r EXCEPT !.txFrom = f]
<1>1. /\ s \in Connection /\ s.phase = r.phase /\ s.writer = r.writer
      /\ s.blocksFrom = r.blocksFrom /\ s.txFrom = f
      /\ s.got = r.got /\ s.queue = r.queue /\ s.pending = r.pending /\ s.lost = r.lost
  BY DEF Connection
<1> HIDE DEF s
<1>2. Stream(s) = Stream(r) /\ All(s) = All(r)
  BY <1>1 DEF Stream, All
<1>3. Good(r) => Good(s)
  BY <1>1, <1>2 DEF Good
<1> QED
  BY <1>1, <1>2, <1>3 DEF s

(* Who reads has been opened, and the first block is accepted or nothing is. *)
LEMMA ReaderIs ==
    ASSUME PubInv, NEW c \in Conns, Reads(c)
    PROVE  /\ conn[c].phase # "none" /\ notify \notin {"down", "tip"}
           /\ BlocksDone \in Nat /\ TxsDone \in Nat
<1>1. conn[c].phase # "none"
  BY ConnIs, FreshIs DEF Reads
<1>2. notify \notin {"down", "tip"}
  BY <1>1, Alive
<1>3. Height \in Nat /\ (notify # "idle" => Height > 0)
  BY <1>2, ChainFacts DEF PubInv, ChainOK
<1> QED
  BY <1>1, <1>2, <1>3 DEF BlocksDone, TxsDone

LEMMA RegisterBlocksKeeps ==
    ASSUME PubInv, NEW c \in Conns, RegisterBlocks(c)
    PROVE  PubInv'
<1>1. PubTypeOK /\ ChainOK /\ IndexInv /\ Crashed /\ ConnInv
  BY DEF PubInv
<1>2. /\ conn[c].blocksFrom = -1 /\ blockListeners' = blockListeners \cup {c}
      /\ conn' = [conn EXCEPT ![c].blocksFrom = BlocksDone]
      /\ UNCHANGED <<chain, notify, txListeners, expiringTxs, index, missed, crashes>>
  BY DEF RegisterBlocks, BlocksDone
<1>3. conn[c].phase # "none" /\ notify \notin {"down", "tip"} /\ BlocksDone \in Nat
  BY ReaderIs DEF RegisterBlocks
<1>4. conn[c] \in Connection /\ Good(conn[c]) /\ conn \in [Conns -> Connection]
  BY ConnIs
<1>5. PICK s : s = [conn[c] EXCEPT !.blocksFrom = BlocksDone]
  OBVIOUS
<1>6. /\ s \in Connection /\ s.phase = conn[c].phase /\ s.writer = conn[c].writer
      /\ s.blocksFrom = BlocksDone /\ s.txFrom = conn[c].txFrom
      /\ All(s) = All(conn[c]) /\ Good(s)
  BY <1>3, <1>4, <1>5, SetBlocksFrom
<1>7. conn' \in [Conns -> Connection] /\ conn'[c] = s /\ \A d \in Conns \ {c} : conn'[d] = conn[d]
  BY <1>2, <1>4, <1>5, <1>6
<1>8. chain' = chain /\ notify' = notify /\ txListeners' = txListeners
      /\ expiringTxs' = expiringTxs /\ lastHeight' = lastHeight
      /\ crashes' = crashes /\ missed' = missed
  BY <1>2 DEF index
<1>9. PubTypeOK'
  BY <1>1, <1>2, <1>7, <1>8 DEF PubTypeOK
<1>10. Grows /\ BlocksGrow /\ TxsGrow /\ ChainOK'
  BY <1>1, <1>8, NothingGrows
<1>11. IndexInv'
  BY <1>1, <1>2, PublishIndexed
<1>12. Crashed'
  BY <1>1, <1>3, <1>8 DEF Crashed
<1>13. BlocksDone' = BlocksDone
  BY <1>8 DEF BlocksDone, Height
<1>14. BlocksInv(c)'
  <2>1. \A m \in All(conn[c]) : m.mode # "block"
    BY <1>1, <1>2 DEF ConnInv, BlocksInv
  <2>2. BlocksDone + 1 .. BlocksDone = {}
    BY <1>3
  <2> QED
    BY <1>2, <1>3, <1>6, <1>7, <1>13, <2>1, <2>2 DEF BlocksInv
<1>15. ASSUME NEW d \in Conns
       PROVE  /\ Good(conn'[d]) /\ BlocksInv(d)' /\ TxsInv(d)'
              /\ conn'[d].phase = "none" => Fresh(conn'[d])
              /\ conn'[d].phase = "open" => conn'[d].writer
  <2>1. Good(conn[d]) /\ BlocksInv(d) /\ TxsInv(d)
        /\ (conn[d].phase = "none" => Fresh(conn[d]))
        /\ (conn[d].phase = "open" => conn[d].writer)
    BY <1>1 DEF ConnInv
  <2>2. /\ conn'[d].phase = conn[d].phase /\ conn'[d].txFrom = conn[d].txFrom
        /\ All(conn'[d]) = All(conn[d]) /\ Good(conn'[d])
        /\ conn'[d].writer = conn[d].writer
    BY <1>6, <1>7, <2>1
  <2>3. TxsInv(d)'
    BY <1>1, <1>8, <1>10, <2>1, <2>2, TxsKept
  <2>4. ASSUME d # c PROVE BlocksInv(d)' /\ (conn'[d].phase = "none" => Fresh(conn'[d]))
    <3>1. conn'[d] = conn[d] /\ (d \in blockListeners' <=> d \in blockListeners)
      BY <1>2, <1>7, <2>4
    <3>2. BlocksInv(d)'
      <4>1. \A m \in All(conn'[d]) : m.mode = "block" => m \in All(conn[d])
        BY <3>1
      <4>2. conn'[d].phase = "open" /\ conn[d].blocksFrom # -1 =>
                /\ conn[d].phase = "open" /\ All(conn[d]) \subseteq All(conn'[d])
                /\ d \in blockListeners => d \in blockListeners'
        BY <3>1
      <4> QED
        BY <1>1, <1>10, <2>1, <3>1, <4>1, <4>2, BlocksKept
    <3> QED
      BY <2>1, <3>1, <3>2
  <2> QED
    BY <1>3, <1>14, <2>1, <2>2, <2>3, <2>4
<1>16. ConnInv'
  BY <1>1, <1>8, <1>15 DEF ConnInv
<1> QED
  BY <1>9, <1>10, <1>11, <1>12, <1>16 DEF PubInv

LEMMA RegisterTxKeeps ==
    ASSUME PubInv, NEW c \in Conns, NEW tx \in Txs, RegisterTx(c, tx)
    PROVE  PubInv'
<1>1. PubTypeOK /\ ChainOK /\ IndexInv /\ Crashed /\ ConnInv
  BY DEF PubInv
<1>2. /\ conn[c].txFrom[tx] = -1
      /\ txListeners' = [txListeners EXCEPT ![tx] = @ \cup {c}]
      /\ expiringTxs' = IF Expiry[tx] = 0 THEN expiringTxs ELSE expiringTxs \cup {tx}
      /\ conn' = [conn EXCEPT ![c].txFrom[tx] = TxsDone]
      /\ UNCHANGED <<chain, notify, blockListeners, index, missed, crashes>>
  BY DEF RegisterTx, TxsDone
<1>3. conn[c].phase # "none" /\ notify \notin {"down", "tip"} /\ TxsDone \in Nat
  BY ReaderIs DEF RegisterTx
<1>4. conn[c] \in Connection /\ Good(conn[c]) /\ conn \in [Conns -> Connection]
      /\ conn[c].txFrom \in [Txs -> Int]
  BY ConnIs DEF Connection
<1>5. PICK f : f = [conn[c].txFrom EXCEPT ![tx] = TxsDone]
  OBVIOUS
<1>6. f \in [Txs -> Int] /\ f[tx] = TxsDone /\ \A x \in Txs \ {tx} : f[x] = conn[c].txFrom[x]
  BY <1>3, <1>4, <1>5
<1>7. PICK s : s = [conn[c] EXCEPT !.txFrom = f]
  OBVIOUS
<1>8. /\ s \in Connection /\ s.phase = conn[c].phase /\ s.writer = conn[c].writer
      /\ s.blocksFrom = conn[c].blocksFrom /\ s.txFrom = f
      /\ All(s) = All(conn[c]) /\ Good(s)
  BY <1>4, <1>6, <1>7, SetTxFrom
<1>9. conn' \in [Conns -> Connection] /\ conn'[c] = s /\ \A d \in Conns \ {c} : conn'[d] = conn[d]
  <2>1. conn' = [conn EXCEPT ![c] = s]
    BY <1>2, <1>5, <1>7
  <2> QED
    BY <1>4, <1>8, <2>1
<1>10. chain' = chain /\ notify' = notify /\ blockListeners' = blockListeners
       /\ lastHeight' = lastHeight /\ crashes' = crashes /\ missed' = missed
  BY <1>2 DEF index
<1>11. /\ txListeners' \in [Txs -> SUBSET Conns] /\ expiringTxs' \in SUBSET Txs
       /\ \A x \in Txs, d \in Conns :
            d \in txListeners'[x] <=> d \in txListeners[x] \/ (x = tx /\ d = c)
  BY <1>1, <1>2 DEF PubTypeOK
<1>12. PubTypeOK'
  BY <1>1, <1>9, <1>10, <1>11 DEF PubTypeOK
<1>13. Grows /\ BlocksGrow /\ TxsGrow /\ ChainOK'
  BY <1>1, <1>10, NothingGrows
<1>14. IndexInv'
  BY <1>1, <1>2, PublishIndexed
<1>15. Crashed'
  BY <1>1, <1>3, <1>10 DEF Crashed
<1>16. TxsDone' = TxsDone /\ Height' = Height
  BY <1>10 DEF TxsDone, Height
<1>17. TxsInv(c)'
  <2>1. \A m \in All(conn[c]) : m.mode = "tx" => m.tx # tx
    BY <1>1, <1>2 DEF ConnInv, TxsInv
  <2>2. \A m \in All(conn[c]) : m.mode = "tx" =>
            /\ conn[c].txFrom[m.tx] # -1 /\ AnswerRight(m, conn[c].txFrom[m.tx])
            /\ c \notin txListeners[m.tx]
    BY <1>1 DEF ConnInv, TxsInv
  <2>3. ASSUME NEW m \in All(conn'[c]), m.mode = "tx"
        PROVE  /\ conn'[c].txFrom[m.tx] # -1 /\ AnswerRight(m, f[m.tx])'
               /\ c \notin txListeners'[m.tx]
    <3>1. m \in All(conn[c]) /\ m.tx # tx
      BY <1>8, <1>9, <2>1, <2>3
    <3>2. m.tx \in Txs
      BY <2>2, <2>3, <3>1 DEF AnswerRight
    <3>3. conn'[c].txFrom[m.tx] = conn[c].txFrom[m.tx] /\ f[m.tx] = conn[c].txFrom[m.tx]
      BY <1>6, <1>8, <1>9, <3>1, <3>2
    <3>4. AnswerRight(m, conn[c].txFrom[m.tx])
      BY <2>2, <2>3, <3>1
    <3>5. AnswerRight(m, f[m.tx])'
      BY <1>10, <1>16, <3>3, <3>4 DEF AnswerRight
    <3>6. conn[c].txFrom[m.tx] # -1 /\ c \notin txListeners[m.tx]
      BY <2>2, <2>3, <3>1
    <3> QED
      BY <1>11, <3>1, <3>2, <3>3, <3>5, <3>6
  <2>4. ASSUME NEW x \in Txs
        PROVE  /\ conn'[c].txFrom[x] >= -1
               /\ c \in txListeners'[x] =>
                    /\ conn'[c].txFrom[x] # -1
                    /\ \A k \in DOMAIN chain' : x \in chain'[k] =>
                            k <= conn'[c].txFrom[x] \/ k \in missed' \/ k > TxsDone'
               /\ conn'[c].phase = "open" /\ conn'[c].txFrom[x] # -1 =>
                    c \in txListeners'[x] \/ \E m \in All(conn'[c]) : m.mode = "tx" /\ m.tx = x
    <3>1. CASE x = tx
      <4>1. conn'[c].txFrom[x] = TxsDone /\ c \in txListeners'[x]
        BY <1>6, <1>8, <1>9, <1>11, <3>1
      <4>2. DOMAIN chain' = 1 .. Height /\ Height \in Nat
        BY <1>1, <1>10, ChainFacts
      <4>3. \A k \in DOMAIN chain' : k <= TxsDone \/ k > TxsDone
        BY <1>3, <4>2
      <4> QED
        BY <1>3, <1>16, <4>1, <4>3
    <3>2. CASE x # tx
      <4>1. conn'[c].txFrom[x] = conn[c].txFrom[x]
            /\ (c \in txListeners'[x] <=> c \in txListeners[x])
        BY <1>6, <1>8, <1>9, <1>11, <3>2
      <4>2. /\ conn[c].txFrom[x] >= -1
            /\ c \in txListeners[x] =>
                /\ conn[c].txFrom[x] # -1
                /\ \A k \in DOMAIN chain : x \in chain[k] =>
                        k <= conn[c].txFrom[x] \/ k \in missed \/ k > TxsDone
            /\ conn[c].phase = "open" /\ conn[c].txFrom[x] # -1 =>
                c \in txListeners[x] \/ \E m \in All(conn[c]) : m.mode = "tx" /\ m.tx = x
        BY <1>1 DEF ConnInv, TxsInv
      <4> QED
        BY <1>8, <1>9, <1>10, <1>16, <4>1, <4>2
    <3> QED
      BY <3>1, <3>2
  <2>5. conn'[c].txFrom = f
    BY <1>8, <1>9
  <2> QED
    BY <2>3, <2>4, <2>5 DEF TxsInv, AnswerRight
<1>18. ASSUME NEW d \in Conns
       PROVE  /\ Good(conn'[d]) /\ BlocksInv(d)' /\ TxsInv(d)'
              /\ conn'[d].phase = "none" => Fresh(conn'[d])
              /\ conn'[d].phase = "open" => conn'[d].writer
  <2>1. Good(conn[d]) /\ BlocksInv(d) /\ TxsInv(d)
        /\ (conn[d].phase = "none" => Fresh(conn[d]))
        /\ (conn[d].phase = "open" => conn[d].writer)
    BY <1>1 DEF ConnInv
  <2>2. /\ conn'[d].phase = conn[d].phase /\ conn'[d].blocksFrom = conn[d].blocksFrom
        /\ All(conn'[d]) = All(conn[d]) /\ Good(conn'[d])
        /\ conn'[d].writer = conn[d].writer
    BY <1>8, <1>9, <2>1
  <2>3. BlocksInv(d)'
    BY <1>1, <1>10, <1>13, <2>1, <2>2, BlocksKept
  <2>4. ASSUME d # c PROVE TxsInv(d)' /\ (conn'[d].phase = "none" => Fresh(conn'[d]))
    <3>1. conn'[d] = conn[d] /\ \A x \in Txs : d \in txListeners'[x] <=> d \in txListeners[x]
      BY <1>9, <1>11, <2>4
    <3>2. TxsInv(d)'
      <4>1. \A m \in All(conn'[d]) : m.mode = "tx" => m \in All(conn[d])
        BY <3>1
      <4>2. conn'[d].phase = "open" /\ (\E x \in Txs : conn[d].txFrom[x] # -1) =>
                conn[d].phase = "open" /\ All(conn[d]) \subseteq All(conn'[d])
        BY <3>1
      <4> QED
        BY <1>1, <1>13, <2>1, <3>1, <4>1, <4>2, TxsKept
    <3> QED
      BY <2>1, <3>1, <3>2
  <2> QED
    BY <1>3, <1>17, <2>1, <2>2, <2>3, <2>4
<1>19. ASSUME NEW x \in Txs, txListeners'[x] # {} PROVE x \in expiringTxs' \/ Expiry[x] = 0
  <2>1. CASE x = tx
    BY <1>2, <2>1
  <2>2. CASE x # tx
    <3>1. txListeners'[x] = txListeners[x]
      BY <1>1, <1>2, <2>2 DEF PubTypeOK
    <3>2. x \in expiringTxs \/ Expiry[x] = 0
      BY <1>1, <1>19, <3>1 DEF ConnInv
    <3> QED
      BY <1>2, <3>2
  <2> QED
    BY <2>1, <2>2
<1>20. ConnInv'
  BY <1>18, <1>19 DEF ConnInv
<1> QED
  BY <1>12, <1>13, <1>14, <1>15, <1>20 DEF PubInv

-----------------------------------------------------------------------------
(* Steps that leave the connections alone                                    *)

LEMMA QuietKeeps ==
    ASSUME PubInv, conn' = conn, listeners' = listeners, crashes' = crashes,
           PubTypeOK', ChainOK', IndexInv', Grows, BlocksGrow, TxsGrow,
           notify' \notin {"down", "tip"}
    PROVE  PubInv'
<1>1. PubTypeOK /\ ConnInv /\ Crashed
  BY DEF PubInv
<1>2. blockListeners' = blockListeners /\ txListeners' = txListeners /\ expiringTxs' = expiringTxs
  BY DEF listeners
<1>3. Crashed'
  BY <1>1, <1>2 DEF Crashed
<1>4. ASSUME NEW d \in Conns PROVE BlocksInv(d)' /\ TxsInv(d)'
  <2>1. BlocksInv(d) /\ TxsInv(d)
    BY <1>1 DEF ConnInv
  <2>2. conn'[d] = conn[d]
    OBVIOUS
  <2>3. BlocksInv(d)'
    BY <1>1, <1>2, <2>1, <2>2, BlocksKept
  <2>4. TxsInv(d)'
    BY <1>1, <1>2, <2>1, <2>2, TxsKept
  <2> QED
    BY <2>3, <2>4
<1>5. ConnInv'
  BY <1>1, <1>2, <1>4 DEF ConnInv
<1> QED
  BY <1>3, <1>5 DEF PubInv

LEMMA NewBlockGrows ==
    ASSUME PubTypeOK, ChainOK, NEW S \in SUBSET Txs, Valid(S), chain' = Append(chain, S),
           missed' = missed \cup {Height + 1}, notify' \in {"store", "idle"}
    PROVE  Grows /\ ChainOK' /\ Height' = Height + 1 /\ chain' \in Seq(SUBSET Txs)
<1>1. /\ chain' \in Seq(SUBSET Txs)
      /\ Height' = Height + 1 /\ DOMAIN chain' = 1 .. Height + 1
      /\ \A i \in 1 .. Height : chain'[i] = chain[i]
      /\ \A i, j \in DOMAIN chain' : chain'[i] \cap chain'[j] # {} => i = j
      /\ \A i \in DOMAIN chain' : \A tx \in chain'[i] : Expiry[tx] >= i
  BY Extended
<1>2. Height \in Nat
  BY ChainFacts
<1>3. Grows
  BY <1>1, <1>2 DEF Grows
<1>4. ChainOK'
  BY <1>1, <1>2 DEF ChainOK
<1> QED
  BY <1>1, <1>3, <1>4

LEMMA NotifyIndexerKeeps ==
    ASSUME PubInv, NEW S \in SUBSET Txs, NotifyIndexer(S)
    PROVE  PubInv'
<1>1. PubTypeOK /\ ChainOK /\ IndexInv
  BY DEF PubInv
<1>2. /\ notify = "idle" /\ Valid(S) /\ chain' = Append(chain, S) /\ IndexBlock(Height + 1, S)
      /\ missed' = missed \cup {Height + 1} /\ notify' = "store"
      /\ UNCHANGED <<conn, listeners, db, crashes>>
  BY DEF NotifyIndexer
<1>3. Grows /\ ChainOK' /\ Height' = Height + 1 /\ chain' \in Seq(SUBSET Txs) /\ Height \in Nat
  BY <1>1, <1>2, NewBlockGrows, ChainFacts
<1>4. IndexInv'
  BY <1>1, <1>2, NewBlockIndexed
<1>5. lastHeight' = Height + 1
  BY <1>2 DEF IndexBlock
<1>6. PubTypeOK'
  BY <1>1, <1>2, <1>3, <1>5 DEF PubTypeOK, listeners
<1>7. BlocksDone = Height /\ TxsDone = Height /\ BlocksDone' = Height /\ TxsDone' = Height
  BY <1>2, <1>3 DEF BlocksDone, TxsDone
<1>8. BlocksGrow
  BY <1>2, <1>3, <1>7 DEF BlocksGrow
<1>9. TxsGrow
  BY <1>2, <1>3, <1>7 DEF TxsGrow
<1> QED
  BY <1>2, <1>3, <1>4, <1>6, <1>8, <1>9, QuietKeeps

LEMMA SkipBlockKeeps ==
    ASSUME PubInv, NEW S \in SUBSET Txs, SkipBlock(S)
    PROVE  PubInv'
<1>1. PubTypeOK /\ ChainOK /\ IndexInv
  BY DEF PubInv
<1>2. /\ notify = "idle" /\ Valid(S) /\ chain' = Append(chain, S)
      /\ missed' = missed \cup {Height + 1}
      /\ UNCHANGED <<notify, conn, listeners, index, crashes>>
  BY DEF SkipBlock
<1>3. Grows /\ ChainOK' /\ Height' = Height + 1 /\ chain' \in Seq(SUBSET Txs) /\ Height \in Nat
  BY <1>1, <1>2, NewBlockGrows, ChainFacts
<1>4. IndexInv'
  BY <1>1, SkipIndexed
<1>5. PubTypeOK'
  BY <1>1, <1>2, <1>3 DEF PubTypeOK, listeners, index
<1>6. BlocksDone = Height /\ TxsDone = Height /\ BlocksDone' = Height + 1 /\ TxsDone' = Height + 1
  BY <1>2, <1>3 DEF BlocksDone, TxsDone
<1>7. BlocksGrow
  BY <1>2, <1>3, <1>6 DEF BlocksGrow
<1>8. TxsGrow
  BY <1>2, <1>3, <1>6 DEF TxsGrow
<1> QED
  BY <1>2, <1>3, <1>4, <1>5, <1>7, <1>8, QuietKeeps

LEMMA StoreBlockKeeps ==
    ASSUME PubInv, StoreBlock
    PROVE  PubInv'
<1>1. PubTypeOK /\ ChainOK /\ IndexInv
  BY DEF PubInv
<1>2. /\ notify = "store" /\ missed' = missed \ {Height} /\ notify' = "blocks"
      /\ UNCHANGED <<chain, conn, listeners, cache, txCache, lastHeight, crashes>>
  BY DEF StoreBlock
<1>3. Height' = Height
  BY <1>2 DEF Height
<1>4. Height \in Nat /\ DOMAIN chain = 1 .. Height
  BY <1>1, ChainFacts
<1>5. IndexInv'
  BY <1>1, StoreIndexed
<1>6. PubTypeOK' /\ ChainOK'
  BY <1>1, <1>2, <1>3 DEF PubTypeOK, ChainOK, listeners
<1>7. BlocksDone = Height - 1 /\ TxsDone = Height - 1
      /\ BlocksDone' = Height - 1 /\ TxsDone' = Height - 1
  BY <1>2, <1>3 DEF BlocksDone, TxsDone
<1>8. Grows
  BY <1>1, <1>2, <1>3, <1>4 DEF Grows, ChainOK
<1>9. BlocksGrow
  BY <1>2, <1>3, <1>4, <1>7 DEF BlocksGrow
<1>10. TxsGrow
  BY <1>2, <1>3, <1>4, <1>7 DEF TxsGrow
<1> QED
  BY <1>2, <1>5, <1>6, <1>8, <1>9, <1>10, QuietKeeps

-----------------------------------------------------------------------------
(* Crashes                                                                   *)

LEMMA DeadKeeps ==
    ASSUME PubTypeOK', ChainOK', IndexInv',
           \A c \in Conns : Fresh(conn'[c]) /\ Good(conn'[c]),
           blockListeners' = {}, \A tx \in Txs : txListeners'[tx] = {}
    PROVE  PubInv'
<1>1. ASSUME NEW d \in Conns PROVE /\ BlocksInv(d)' /\ TxsInv(d)' /\ conn'[d].phase = "none"
  BY FreshKept, FreshIs
<1>2. Crashed'
  BY <1>1 DEF Crashed
<1>3. ConnInv'
  BY <1>1 DEF ConnInv
<1> QED
  BY <1>2, <1>3 DEF PubInv

LEMMA NewConnIs == Fresh(NewConn) /\ Good(NewConn) /\ NewConn \in Connection
<1>1. Stream(NewConn) = <<>>
  BY FlatEmpty DEF Stream, NewConn
<1>2. All(NewConn) = {}
  BY <1>1, ToSetEmpty DEF All, NewConn
<1>3. Good(NewConn)
  BY <1>1, ToSetEmpty, OrderedEmpty DEF Good
<1>4. NewConn \in Connection
  BY DEF NewConn, Connection, Phases
<1> QED
  BY <1>2, <1>3, <1>4 DEF Fresh

LEMMA CrashKeeps ==
    ASSUME PubInv, Crash
    PROVE  PubInv'
<1>1. PubTypeOK /\ ChainOK /\ IndexInv
  BY DEF PubInv
<1>2. /\ crashes' = crashes + 1 /\ notify' = "down" /\ conn' = [c \in Conns |-> NewConn]
      /\ blockListeners' = {} /\ txListeners' = [tx \in Txs |-> {}] /\ expiringTxs' = {}
      /\ lastHeight' = 0 /\ chain' = chain
  BY DEF Crash
<1>3. Height' = Height
  BY <1>2 DEF Height
<1>4. IndexInv'
  BY <1>1, CrashIndexed
<1>5. PubTypeOK'
  BY <1>1, <1>2, NewConnIs DEF PubTypeOK
<1>6. ChainOK'
  BY <1>1, <1>2, <1>3 DEF ChainOK
<1> QED
  BY <1>2, <1>4, <1>5, <1>6, NewConnIs, DeadKeeps

(* Before the tip is notified, nobody is connected.                          *)
LEMMA DownIs ==
    ASSUME PubInv, notify \in {"down", "tip"}
    PROVE  /\ \A c \in Conns : Fresh(conn[c]) /\ Good(conn[c])
           /\ blockListeners = {} /\ \A tx \in Txs : txListeners[tx] = {}
BY DEF PubInv, Crashed, ConnInv

LEMMA RestartKeeps ==
    ASSUME PubInv, Restart
    PROVE  PubInv'
<1>1. PubTypeOK /\ ChainOK /\ IndexInv
  BY DEF PubInv
<1>2. /\ notify = "down" /\ lastHeight' = LastStored
      /\ notify' = IF Height = 0 THEN "idle" ELSE "tip"
      /\ UNCHANGED <<chain, conn, listeners, missed, crashes>>
  BY DEF Restart
<1>3. Height' = Height /\ Height \in Nat /\ LastStored \in Nat
  BY <1>1, <1>2, ChainFacts, LastIs DEF Height
<1>4. IndexInv'
  BY <1>1, RestartIndexed
<1>5. PubTypeOK'
  BY <1>1, <1>2, <1>3 DEF PubTypeOK, listeners
<1>6. ChainOK'
  BY <1>1, <1>2, <1>3 DEF ChainOK
<1>7. (\A c \in Conns : Fresh(conn[c]) /\ Good(conn[c]))
      /\ blockListeners = {} /\ \A tx \in Txs : txListeners[tx] = {}
  BY <1>2, DownIs
<1>8. conn' = conn /\ blockListeners' = blockListeners /\ txListeners' = txListeners
      /\ crashes' = crashes
  BY <1>2 DEF listeners
<1> QED
  BY <1>4, <1>5, <1>6, <1>7, <1>8, DeadKeeps

LEMMA NotifyTipKeeps ==
    ASSUME PubInv, NotifyTip
    PROVE  PubInv'
<1>1. PubTypeOK /\ ChainOK /\ IndexInv
  BY DEF PubInv
<1>2. /\ notify = "tip" /\ IndexBlock(Height, chain[Height]) /\ missed' = missed \cup {Height}
      /\ notify' = "store" /\ UNCHANGED <<chain, conn, listeners, db, crashes>>
  BY DEF NotifyTip
<1>3. Height' = Height /\ Height \in Nat
  BY <1>1, <1>2, ChainFacts DEF Height
<1>4. IndexInv'
  BY <1>1, <1>2, TipIndexed
<1>5. lastHeight' = Height
  BY <1>2 DEF IndexBlock
<1>6. PubTypeOK'
  BY <1>1, <1>2, <1>3, <1>5 DEF PubTypeOK, listeners
<1>7. ChainOK'
  BY <1>1, <1>2, <1>3 DEF ChainOK
<1>8. (\A c \in Conns : Fresh(conn[c]) /\ Good(conn[c]))
      /\ blockListeners = {} /\ \A tx \in Txs : txListeners[tx] = {}
  BY <1>2, DownIs
<1>9. conn' = conn /\ blockListeners' = blockListeners /\ txListeners' = txListeners
      /\ crashes' = crashes
  BY <1>2 DEF listeners
<1> QED
  BY <1>4, <1>6, <1>7, <1>8, <1>9, DeadKeeps

LEMMA NotifyNewTipKeeps ==
    ASSUME PubInv, NEW S \in SUBSET Txs, NotifyNewTip(S)
    PROVE  PubInv'
<1>1. PubTypeOK /\ ChainOK /\ IndexInv
  BY DEF PubInv
<1>2. /\ notify = "tip" /\ Valid(S) /\ chain' = Append(chain, S) /\ IndexBlock(Height + 1, S)
      /\ missed' = missed \cup {Height + 1} /\ notify' = "store"
      /\ UNCHANGED <<conn, listeners, db, crashes>>
  BY DEF NotifyNewTip
<1>3. ChainOK' /\ Height' = Height + 1 /\ chain' \in Seq(SUBSET Txs) /\ Height \in Nat
  BY <1>1, <1>2, NewBlockGrows, ChainFacts
<1>4. IndexInv'
  BY <1>1, <1>2, NewBlockIndexed
<1>5. lastHeight' = Height + 1
  BY <1>2 DEF IndexBlock
<1>6. PubTypeOK'
  BY <1>1, <1>2, <1>3, <1>5 DEF PubTypeOK, listeners
<1>7. (\A c \in Conns : Fresh(conn[c]) /\ Good(conn[c]))
      /\ blockListeners = {} /\ \A tx \in Txs : txListeners[tx] = {}
  BY <1>2, DownIs
<1>8. conn' = conn /\ blockListeners' = blockListeners /\ txListeners' = txListeners
      /\ crashes' = crashes
  BY <1>2 DEF listeners
<1> QED
  BY <1>3, <1>4, <1>6, <1>7, <1>8, DeadKeeps

-----------------------------------------------------------------------------
(* What is published                                                         *)

LEMMA SoundIs == ASSUME PubInv PROVE Sound(conn)
BY DEF PubInv, PubTypeOK, ConnInv, Sound

LEMMA SameChainGrows ==
    ASSUME PubTypeOK, ChainOK, UNCHANGED <<chain, missed>>
    PROVE  Grows /\ Height' = Height
<1>1. Height \in Nat /\ DOMAIN chain = 1 .. Height
  BY ChainFacts
<1>2. chain' = chain /\ missed' = missed
  OBVIOUS
<1>3. Height' = Height
  BY <1>2 DEF Height
<1> QED
  BY <1>1, <1>2, <1>3 DEF Grows, ChainOK

LEMMA BlockMsgIs ==
    ASSUME NEW h \in Nat
    PROVE  BlockMsg(h) \in Msg /\ BlockMsg(h).mode = "block" /\ BlockMsg(h).height = h
BY DEF BlockMsg, Msg

LEMMA PublishBlockKeeps ==
    ASSUME PubInv, PublishBlock
    PROVE  PubInv'
<1>1. PubTypeOK /\ ChainOK /\ IndexInv /\ Crashed /\ ConnInv
  BY DEF PubInv
<1>2. /\ notify = "blocks" /\ conn' = Publish(conn, BlockMsg(Height), blockListeners)
      /\ blockListeners' = {c \in blockListeners : conn[c].phase = "open"} /\ notify' = "txs"
      /\ UNCHANGED <<chain, txListeners, expiringTxs, index, missed, crashes>>
  BY DEF PublishBlock
<1>3. Height \in Nat /\ Height > 0 /\ Height' = Height /\ Grows /\ DOMAIN chain = 1 .. Height
  BY <1>1, <1>2, ChainFacts, SameChainGrows DEF ChainOK
<1>4. BlocksDone = Height - 1 /\ BlocksDone' = Height /\ TxsDone' = TxsDone
      /\ TxsDone = Height - 1
  BY <1>2, <1>3 DEF BlocksDone, TxsDone
<1>5. TxsGrow
  BY <1>1, <1>2, <1>3, <1>4 DEF TxsGrow
<1>6. PICK msg : msg = BlockMsg(Height)
  OBVIOUS
<1>7. msg \in Msg /\ msg.mode = "block" /\ msg.height = Height
  BY <1>3, <1>6, BlockMsgIs
<1>8. Sound(conn) /\ conn \in [Conns -> Connection]
  BY SoundIs DEF Sound
<1>9. MayFollow(conn, msg, blockListeners)
  <2> SUFFICES ASSUME NEW c \in Conns, NEW m \in All(conn[c]) PROVE Before(m, msg)
    BY DEF MayFollow, AllBefore
  <2>1. m.mode = "block" => m.height <= BlocksDone
    BY <1>1 DEF ConnInv, BlocksInv
  <2>2. m.height \in Nat
    BY <1>8, AllType DEF Msg
  <2> QED
    BY <1>3, <1>4, <1>7, <2>1, <2>2 DEF Before
<1>10. PICK new : new = Publish(conn, msg, blockListeners)
  OBVIOUS
<1>11. /\ Sound(new)
       /\ \A c \in Conns :
            /\ Status(new[c]) = Status(conn[c])
            /\ All(new[c]) = IF Gets(conn[c], msg, blockListeners, c) THEN All(conn[c]) \cup {msg}
                             ELSE All(conn[c])
  BY <1>7, <1>8, <1>9, <1>10, PublishAdds
<1>12. conn' = new
  BY <1>2, <1>6, <1>10
<1>13. \A c \in Conns : conn'[c].phase = conn[c].phase /\ conn'[c].writer = conn[c].writer
            /\ conn'[c].blocksFrom = conn[c].blocksFrom /\ conn'[c].txFrom = conn[c].txFrom
  BY <1>11, <1>12, StatusIs
<1>14. PubTypeOK'
  BY <1>1, <1>2, <1>11, <1>12 DEF PubTypeOK, Sound, index
<1>15. ChainOK'
  BY <1>1, <1>2, <1>3 DEF ChainOK
<1>16. IndexInv'
  BY <1>1, <1>2, PublishIndexed
<1>17. Crashed'
  BY <1>1, <1>2, <1>13 DEF Crashed
<1>18. ASSUME NEW c \in Conns PROVE BlocksInv(c)'
  <2>1. BlocksInv(c) /\ conn[c].blocksFrom \in Int /\ All(conn[c]) \in SUBSET Msg
    BY <1>1, <1>8, AllType DEF ConnInv, Connection
  <2>2. Gets(conn[c], msg, blockListeners, c) <=> c \in blockListeners /\ conn[c].phase = "open"
    BY DEF Gets
  <2>3. c \in blockListeners =>
            conn[c].blocksFrom # -1 /\ conn[c].blocksFrom <= BlocksDone
    BY <2>1 DEF BlocksInv
  <2>4. All(conn'[c]) = IF c \in blockListeners /\ conn[c].phase = "open"
                        THEN All(conn[c]) \cup {msg} ELSE All(conn[c])
    BY <1>11, <1>12, <2>2
  <2>5. ASSUME NEW m \in All(conn'[c]), m.mode = "block"
        PROVE  /\ conn'[c].blocksFrom # -1 /\ conn'[c].blocksFrom < m.height
               /\ m.height <= BlocksDone' /\ m = BlockMsg(m.height)
    <3>1. CASE m \in All(conn[c])
      <4>1. /\ conn[c].blocksFrom # -1 /\ conn[c].blocksFrom < m.height
            /\ m.height <= BlocksDone /\ m = BlockMsg(m.height)
        BY <2>1, <2>5, <3>1 DEF BlocksInv
      <4>2. m.height \in Nat
        BY <2>1, <3>1 DEF Msg
      <4> QED
        BY <1>3, <1>4, <1>13, <4>1, <4>2
    <3>2. CASE m = msg /\ c \in blockListeners
      BY <1>3, <1>4, <1>6, <1>7, <1>13, <2>1, <2>3, <3>2
    <3> QED
      BY <2>4, <2>5, <3>1, <3>2
  <2>6. conn'[c].blocksFrom >= -1 /\ (conn'[c].blocksFrom # -1 => conn'[c].blocksFrom <= BlocksDone')
        /\ (c \in blockListeners' => conn'[c].blocksFrom # -1)
    BY <1>2, <1>3, <1>4, <1>13, <2>1, <2>3 DEF BlocksInv
  <2>7. ASSUME conn'[c].phase = "open", conn'[c].blocksFrom # -1
        PROVE  /\ c \in blockListeners'
               /\ \A h \in conn'[c].blocksFrom + 1 .. BlocksDone' :
                        BlockMsg(h) \in All(conn'[c]) \/ h \in missed'
    <3>1. conn[c].phase = "open" /\ conn[c].blocksFrom # -1
      BY <1>13, <2>7
    <3>2. c \in blockListeners
          /\ \A h \in conn[c].blocksFrom + 1 .. BlocksDone : BlockMsg(h) \in All(conn[c]) \/ h \in missed
      BY <2>1, <3>1 DEF BlocksInv
    <3>3. ASSUME NEW h \in conn[c].blocksFrom + 1 .. Height
          PROVE  BlockMsg(h) \in All(conn'[c]) \/ h \in missed'
      <4>1. CASE h = Height
        BY <1>6, <2>4, <3>1, <3>2, <4>1
      <4>2. CASE h # Height
        <5>1. h \in conn[c].blocksFrom + 1 .. BlocksDone
          BY <1>3, <1>4, <2>1, <4>2
        <5> QED
          BY <1>2, <2>4, <3>2, <5>1
      <4> QED
        BY <4>1, <4>2
    <3> QED
      BY <1>2, <1>4, <1>13, <3>1, <3>2, <3>3
  <2> QED
    BY <2>5, <2>6, <2>7 DEF BlocksInv
<1>19. ASSUME NEW c \in Conns
       PROVE  /\ TxsInv(c)' /\ Good(conn'[c])
              /\ conn'[c].phase = "none" => Fresh(conn'[c])
              /\ conn'[c].phase = "open" => conn'[c].writer
  <2>1. /\ TxsInv(c) /\ (conn[c].phase = "none" => Fresh(conn[c]))
        /\ conn[c].phase = "open" => conn[c].writer
    BY <1>1 DEF ConnInv
  <2>2. /\ All(conn'[c]) \subseteq All(conn[c]) \cup {msg} /\ All(conn[c]) \subseteq All(conn'[c])
        /\ conn[c].phase # "open" => All(conn'[c]) = All(conn[c])
        /\ Status(conn'[c]) = Status(conn[c])
    BY <1>11, <1>12 DEF Gets
  <2>3. \A m \in All(conn'[c]) : m.mode = "tx" => m \in All(conn[c])
    BY <1>7, <2>2
  <2>4. TxsInv(c)'
    BY <1>1, <1>2, <1>3, <1>5, <1>13, <2>1, <2>2, <2>3, TxsKept
  <2>5. conn'[c].phase = "none" => Fresh(conn'[c])
    BY <1>13, <2>1, <2>2 DEF Fresh
  <2> QED
    BY <1>11, <1>12, <1>13, <2>1, <2>4, <2>5 DEF Sound
<1>20. ConnInv'
  BY <1>1, <1>2, <1>18, <1>19 DEF ConnInv
<1> QED
  BY <1>14, <1>15, <1>16, <1>17, <1>20 DEF PubInv

-----------------------------------------------------------------------------
(* The answers for the transactions of a block                               *)

LEMMA ForIs ==
    ASSUME NEW msgs \in Seq(Msg), NEW c, NEW m
    PROVE  m \in For(msgs, Len(msgs), c) <=>
                m \in ToSet(msgs) /\ c \in txListeners[m.tx] /\ conn[c].phase = "open"
<1>1. m \in ToSet(msgs) <=> \E i \in 1 .. Len(msgs) : msgs[i] = m
  BY MembersOf
<1> QED
  BY <1>1 DEF For, Gets


LEMMA AnswersOfBlock ==
    ASSUME NEW S \in SUBSET Txs, NEW E \in SUBSET Txs, NEW h \in Nat, S \cap E = {}
    PROVE  LET a == Answers(S, h) \o Answers(E, 0) IN
           /\ a \in Seq(Msg) /\ Ordered(a)
           /\ ToSet(a) = {TxMsg(tx, h) : tx \in S} \cup {TxMsg(tx, 0) : tx \in E}
<1>1. PICK a : a = Answers(S, h)
  OBVIOUS
<1>2. PICK b : b = Answers(E, 0)
  OBVIOUS
<1>3. a \in Seq(Msg) /\ ToSet(a) = {TxMsg(tx, h) : tx \in S} /\ Ordered(a)
  BY <1>1, AnswersIs
<1>4. b \in Seq(Msg) /\ ToSet(b) = {TxMsg(tx, 0) : tx \in E} /\ Ordered(b)
  BY <1>2, AnswersIs
<1>5. AllBefore(ToSet(a), ToSet(b))
  <2> SUFFICES ASSUME NEW m \in ToSet(a), NEW n \in ToSet(b) PROVE Before(m, n)
    BY DEF AllBefore
  <2>1. PICK x \in S : m = TxMsg(x, h)
    BY <1>3
  <2>2. PICK y \in E : n = TxMsg(y, 0)
    BY <1>4
  <2>3. m.mode = "tx" /\ m.tx = x /\ n.tx = y
    BY <2>1, <2>2, TxMsgIs
  <2> QED
    BY <2>3 DEF Before
<1>6. Ordered(a \o b)
  BY <1>3, <1>4, <1>5, OrderedCat
<1>7. a \o b \in Seq(Msg) /\ ToSet(a \o b) = ToSet(a) \cup ToSet(b)
  BY <1>3, <1>4, ToSetCat
<1> QED
  BY <1>1, <1>2, <1>3, <1>4, <1>6, <1>7

LEMMA PublishTxsKeepsInv ==
    ASSUME PubInv, PublishTxs
    PROVE  PubInv'
<1>1. PubTypeOK /\ ChainOK /\ IndexInv /\ Crashed /\ ConnInv
  BY DEF PubInv
<1> DEFINE S == chain[Height]
           E == Expired \ chain[Height]
<1>2. /\ notify = "txs" /\ conn' = Answer(conn, Answers(S, Height) \o Answers(E, 0))
      /\ txListeners' = [tx \in Txs |-> IF tx \in S \cup Expired THEN {} ELSE txListeners[tx]]
      /\ expiringTxs' = expiringTxs \ Expired /\ notify' = "idle"
      /\ UNCHANGED <<chain, blockListeners, index, missed, crashes>>
  BY DEF PublishTxs
<1>3. Height \in Nat /\ Height > 0 /\ Height' = Height /\ Grows /\ DOMAIN chain = 1 .. Height
  BY <1>1, <1>2, ChainFacts, SameChainGrows DEF ChainOK
<1>4. BlocksDone = Height /\ BlocksDone' = Height /\ TxsDone' = Height /\ TxsDone = Height - 1
  BY <1>2, <1>3 DEF BlocksDone, TxsDone
<1>5. BlocksGrow
  BY <1>1, <1>2, <1>3, <1>4 DEF BlocksGrow
<1>6. S \in SUBSET Txs /\ E \in SUBSET Txs /\ S \cap E = {} /\ expiringTxs \in SUBSET Txs
      /\ txListeners \in [Txs -> SUBSET Conns] /\ Expired \subseteq expiringTxs
  BY <1>1, <1>3, ChainFacts DEF PubTypeOK, Expired
<1>7. PICK msgs : msgs = Answers(S, Height) \o Answers(E, 0)
  OBVIOUS
<1>8. /\ msgs \in Seq(Msg) /\ Ordered(msgs)
      /\ ToSet(msgs) = {TxMsg(tx, Height) : tx \in S} \cup {TxMsg(tx, 0) : tx \in E}
  <2> HIDE DEF S, E
  <2> QED
    BY <1>3, <1>6, <1>7, AnswersOfBlock
<1> DEFINE new(c) == For(msgs, Len(msgs), c)
<1>9. ASSUME NEW c, NEW m
      PROVE  m \in new(c) <=>
                /\ \/ \E tx \in S : m = TxMsg(tx, Height)
                   \/ \E tx \in E : m = TxMsg(tx, 0)
                /\ c \in txListeners[m.tx] /\ conn[c].phase = "open"
  <2>1. m \in ToSet(msgs) <=> \/ \E tx \in S : m = TxMsg(tx, Height)
                              \/ \E tx \in E : m = TxMsg(tx, 0)
    <3> HIDE DEF S, E
    <3> QED
      BY <1>8
  <2>2. m \in new(c) <=>
                m \in ToSet(msgs) /\ c \in txListeners[m.tx] /\ conn[c].phase = "open"
    BY <1>8, ForIs
  <2> QED
    BY <2>1, <2>2
<1> HIDE DEF S, E, new
<1>10. ASSUME NEW c, NEW m \in new(c)
       PROVE  m.mode = "tx" /\ m.tx \in Txs /\ c \in txListeners[m.tx] /\ conn[c].phase = "open"
  BY <1>6, <1>9, TxMsgIs
<1>11. Sound(conn) /\ conn \in [Conns -> Connection]
  BY SoundIs DEF Sound
<1>12. \A c \in Conns : AllBefore(All(conn[c]), new(c))
  <2> SUFFICES ASSUME NEW c \in Conns, NEW m \in All(conn[c]), NEW n \in new(c)
               PROVE  Before(m, n)
    BY DEF AllBefore
  <2>1. m.mode = "tx" => c \notin txListeners[m.tx]
    BY <1>1 DEF ConnInv, TxsInv
  <2>2. n.mode = "tx" /\ c \in txListeners[n.tx]
    BY <1>10
  <2> QED
    BY <2>1, <2>2 DEF Before
<1>13. /\ Sound(Answer(conn, msgs))
       /\ \A c \in Conns :
            /\ Status(Answer(conn, msgs)[c]) = Status(conn[c])
            /\ All(Answer(conn, msgs)[c]) = All(conn[c]) \cup new(c)
  BY <1>8, <1>11, <1>12, AnswerAdds DEF new
<1>14. conn' = Answer(conn, msgs)
  BY <1>2, <1>7
<1>15. /\ Sound(conn')
       /\ \A c \in Conns : Status(conn'[c]) = Status(conn[c]) /\ All(conn'[c]) = All(conn[c]) \cup new(c)
  BY <1>13, <1>14, Zenon
<1>16. \A c \in Conns : conn'[c].phase = conn[c].phase /\ conn'[c].writer = conn[c].writer
            /\ conn'[c].blocksFrom = conn[c].blocksFrom /\ conn'[c].txFrom = conn[c].txFrom
  BY <1>15, StatusIs
<1>17. \A tx \in Txs : txListeners'[tx] = IF tx \in S \cup Expired THEN {} ELSE txListeners[tx]
  BY <1>2
<1>18. PubTypeOK'
  <2>1. txListeners' \in [Txs -> SUBSET Conns] /\ expiringTxs' \in SUBSET Txs
    BY <1>2, <1>6
  <2> QED
    BY <1>1, <1>2, <1>15, <2>1 DEF PubTypeOK, Sound, index
<1>19. ChainOK'
  BY <1>1, <1>2, <1>3 DEF ChainOK
<1>20. IndexInv'
  BY <1>1, <1>2, PublishIndexed
<1>21. Crashed'
  BY <1>1, <1>2, <1>16, <1>17 DEF Crashed
<1>22. ASSUME NEW c \in Conns
       PROVE  /\ BlocksInv(c)' /\ Good(conn'[c])
              /\ conn'[c].phase = "none" => Fresh(conn'[c])
              /\ conn'[c].phase = "open" => conn'[c].writer
  <2>1. /\ BlocksInv(c) /\ (conn[c].phase = "none" => Fresh(conn[c]))
        /\ conn[c].phase = "open" => conn[c].writer
    BY <1>1 DEF ConnInv
  <2>2. \A m \in All(conn'[c]) : m.mode = "block" => m \in All(conn[c])
    BY <1>10, <1>15
  <2>3. BlocksInv(c)'
    BY <1>1, <1>2, <1>5, <1>15, <1>16, <2>1, <2>2, BlocksKept
  <2>4. conn[c].phase # "open" => All(conn'[c]) = All(conn[c])
    BY <1>10, <1>15
  <2>5. conn'[c].phase = "none" => Fresh(conn'[c])
    BY <1>15, <1>16, <2>1, <2>4 DEF Fresh
  <2> QED
    BY <1>15, <1>16, <2>1, <2>3, <2>5 DEF Sound
<1>23. ASSUME NEW c \in Conns PROVE TxsInv(c)'
  <2>1. TxsInv(c) /\ conn[c].txFrom \in [Txs -> Int] /\ All(conn[c]) \in SUBSET Msg
    BY <1>1, <1>11, AllType DEF ConnInv, Connection
  <2>2. ASSUME NEW m \in All(conn'[c]), m.mode = "tx"
        PROVE  /\ conn'[c].txFrom[m.tx] # -1 /\ AnswerRight(m, conn[c].txFrom[m.tx])'
               /\ c \notin txListeners'[m.tx]
    <3>1. CASE m \in All(conn[c])
      <4>1. conn[c].txFrom[m.tx] # -1 /\ AnswerRight(m, conn[c].txFrom[m.tx])
            /\ c \notin txListeners[m.tx]
        BY <2>1, <2>2, <3>1 DEF TxsInv
      <4>2. m.tx \in Txs
        BY <4>1 DEF AnswerRight
      <4>3. PICK f : f = conn[c].txFrom[m.tx]
        OBVIOUS
      <4>4. AnswerRight(m, f)'
        BY <1>1, <1>3, <2>1, <3>1, <4>1, <4>3, AnswerKept
      <4>5. AnswerRight(m, conn[c].txFrom[m.tx])'
        BY <1>16, <4>3, <4>4 DEF AnswerRight
      <4> QED
        BY <1>16, <1>17, <4>1, <4>2, <4>5
    <3>2. CASE m \in new(c)
      <4>1. m.tx \in Txs /\ c \in txListeners[m.tx]
        BY <1>10, <3>2
      <4>2. conn[c].txFrom[m.tx] # -1
            /\ \A k \in DOMAIN chain : m.tx \in chain[k] =>
                    k <= conn[c].txFrom[m.tx] \/ k \in missed \/ k > TxsDone
        BY <2>1, <4>1 DEF TxsInv
      <4>3. m.tx \in S \cup Expired /\ ((m.height = Height /\ m.tx \in S) \/ (m.height = 0 /\ m.tx \in E))
        BY <1>9, <3>2, TxMsgIs DEF E
      <4>4. CASE m.height = Height /\ m.tx \in S
        <5>1. Height \in DOMAIN chain' /\ m.tx \in chain'[Height] /\ m.height # 0
          BY <1>2, <1>3, <4>4 DEF S
        <5>2. AnswerRight(m, conn[c].txFrom[m.tx])'
          BY <1>16, <4>1, <4>4, <5>1 DEF AnswerRight
        <5> QED
          BY <1>16, <1>17, <4>1, <4>2, <4>3, <5>2
      <4>5. CASE m.height = 0 /\ m.tx \in E
        <5>1. Expiry[m.tx] < Height /\ m.tx \notin chain[Height]
          BY <4>5 DEF E, Expired
        <5>2. \A k \in DOMAIN chain : m.tx \in chain[k] =>
                    k <= conn[c].txFrom[m.tx] \/ k \in missed
          BY <1>3, <1>4, <4>2, <5>1
        <5>3. AnswerRight(m, conn[c].txFrom[m.tx])'
          BY <1>2, <1>3, <1>16, <4>1, <4>5, <5>1, <5>2 DEF AnswerRight
        <5> QED
          BY <1>16, <1>17, <4>1, <4>2, <4>3, <5>3
      <4> QED
        BY <4>3, <4>4, <4>5
    <3> QED
      BY <1>15, <2>2, <3>1, <3>2
  <2>3. ASSUME NEW tx \in Txs
        PROVE  /\ conn'[c].txFrom[tx] >= -1
               /\ c \in txListeners'[tx] =>
                    /\ conn'[c].txFrom[tx] # -1
                    /\ \A k \in DOMAIN chain' : tx \in chain'[k] =>
                            k <= conn'[c].txFrom[tx] \/ k \in missed' \/ k > TxsDone'
               /\ conn'[c].phase = "open" /\ conn'[c].txFrom[tx] # -1 =>
                    c \in txListeners'[tx] \/ \E m \in All(conn'[c]) : m.mode = "tx" /\ m.tx = tx
    <3>1. /\ conn[c].txFrom[tx] >= -1
          /\ c \in txListeners[tx] =>
                /\ conn[c].txFrom[tx] # -1
                /\ \A k \in DOMAIN chain : tx \in chain[k] =>
                        k <= conn[c].txFrom[tx] \/ k \in missed \/ k > TxsDone
          /\ conn[c].phase = "open" /\ conn[c].txFrom[tx] # -1 =>
                c \in txListeners[tx] \/ \E m \in All(conn[c]) : m.mode = "tx" /\ m.tx = tx
      BY <2>1 DEF TxsInv
    <3>2. ASSUME c \in txListeners'[tx]
          PROVE  /\ conn[c].txFrom[tx] # -1
                 /\ \A k \in DOMAIN chain : tx \in chain[k] =>
                        k <= conn[c].txFrom[tx] \/ k \in missed
      <4>1. tx \notin S /\ c \in txListeners[tx]
        BY <1>17, <3>2
      <4>2. ASSUME NEW k \in DOMAIN chain, tx \in chain[k] PROVE ~(k > TxsDone)
        <5>1. k \in 1 .. Height /\ k # Height
          BY <1>3, <4>1, <4>2 DEF S
        <5> QED
          BY <1>3, <1>4, <5>1
      <4> QED
        BY <3>1, <4>1, <4>2
    <3>3. ASSUME conn[c].phase = "open", conn[c].txFrom[tx] # -1
          PROVE  c \in txListeners'[tx] \/ \E m \in All(conn'[c]) : m.mode = "tx" /\ m.tx = tx
      <4>1. CASE \E m \in All(conn[c]) : m.mode = "tx" /\ m.tx = tx
        BY <1>15, <4>1
      <4>2. CASE c \in txListeners[tx] /\ tx \notin S \cup Expired
        BY <1>17, <4>2
      <4>3. CASE c \in txListeners[tx] /\ tx \in S
        <5>1. TxMsg(tx, Height) \in new(c)
          BY <1>9, <3>3, <4>3, TxMsgIs
        <5> QED
          BY <1>15, <5>1, TxMsgIs
      <4>4. CASE c \in txListeners[tx] /\ tx \in E
        <5>1. TxMsg(tx, 0) \in new(c)
          BY <1>9, <3>3, <4>4, TxMsgIs
        <5> QED
          BY <1>15, <5>1, TxMsgIs
      <4>5. tx \in S \/ tx \in E \/ tx \notin S \cup Expired
        BY DEF E, S
      <4> QED
        BY <3>1, <3>3, <4>1, <4>2, <4>3, <4>4, <4>5
    <3> QED
      BY <1>2, <1>16, <3>1, <3>2, <3>3
  <2> QED
    BY <1>16, <2>2, <2>3 DEF TxsInv, AnswerRight
<1>24. ASSUME NEW tx \in Txs, txListeners'[tx] # {} PROVE tx \in expiringTxs' \/ Expiry[tx] = 0
  <2>1. tx \notin Expired /\ txListeners[tx] # {}
    BY <1>17, <1>24
  <2> QED
    BY <1>1, <1>2, <2>1 DEF ConnInv
<1>25. ConnInv'
  BY <1>22, <1>23, <1>24 DEF ConnInv
<1> QED
  BY <1>18, <1>19, <1>20, <1>21, <1>25 DEF PubInv

-----------------------------------------------------------------------------
(* The invariant and what it implies                                         *)

LEMMA PubInit == ASSUME Init PROVE PubInv
<1>1. /\ chain = <<>> /\ notify = "idle" /\ conn = [c \in Conns |-> NewConn]
      /\ blockListeners = {} /\ txListeners = [tx \in Txs |-> {}] /\ expiringTxs = {}
      /\ cache = {} /\ txCache = {} /\ lastHeight = 0 /\ db = {}
      /\ missed = {} /\ crashes = 0
  BY DEF Init
<1>2. PubTypeOK
  BY <1>1, NewConnIs DEF PubTypeOK
<1>3. Height = 0 /\ DOMAIN chain = {}
  BY <1>1 DEF Height
<1>4. ChainOK
  BY <1>1, <1>3 DEF ChainOK
<1>5. txCache = Exact(chain, cache)
  BY <1>1 DEF Exact
<1>6. IndexInv
  BY <1>1, <1>3, <1>5 DEF IndexInv
<1>7. Crashed
  BY <1>1 DEF Crashed
<1>8. ASSUME NEW c \in Conns
      PROVE  /\ Good(conn[c]) /\ BlocksInv(c) /\ TxsInv(c) /\ Fresh(conn[c])
             /\ conn[c].phase = "none"
  <2>1. Fresh(conn[c]) /\ Good(conn[c])
    BY <1>1, NewConnIs
  <2>2. /\ conn[c].phase = "none" /\ conn[c].blocksFrom = -1
        /\ \A tx \in Txs : conn[c].txFrom[tx] = -1
        /\ All(conn[c]) = {}
    BY <2>1, FreshIs
  <2>3. BlocksInv(c)
    BY <1>1, <2>2 DEF BlocksInv
  <2>4. TxsInv(c)
    BY <1>1, <2>2 DEF TxsInv
  <2> QED
    BY <2>1, <2>2, <2>3, <2>4
<1>9. ConnInv
  BY <1>1, <1>8 DEF ConnInv
<1> QED
  BY <1>2, <1>4, <1>6, <1>7, <1>9 DEF PubInv

LEMMA PubStep == ASSUME PubInv, [Next]_vars PROVE PubInv'
<1>1. CASE Accepter
  <2>1. ASSUME NEW S \in SUBSET Txs, NotifyIndexer(S) \/ SkipBlock(S) \/ NotifyNewTip(S)
        PROVE  PubInv'
    BY <2>1, NotifyIndexerKeeps, SkipBlockKeeps, NotifyNewTipKeeps
  <2>2. CASE NotifyTip \/ StoreBlock \/ PublishBlock \/ PublishTxs
    BY <2>2, NotifyTipKeeps, StoreBlockKeeps, PublishBlockKeeps, PublishTxsKeepsInv
  <2> QED
    BY <1>1, <2>1, <2>2 DEF Accepter
<1>2. ASSUME NEW c \in Conns,
             \/ Connect(c) \/ RegisterBlocks(c)
             \/ \E tx \in Txs : RegisterTx(c, tx)
             \/ Timeout(c) \/ Write(c) \/ WriterEnds(c) \/ ReaderEnds(c)
             \/ Deactivate(c) \/ CloseSocket(c)
      PROVE  PubInv'
  BY <1>2, ConnectKeeps, RegisterBlocksKeeps, RegisterTxKeeps, TimeoutKeeps, WritesKeep,
     WriterEndsKeeps, ReaderEndsKeeps, DeactivateKeeps
<1>3. CASE Crash \/ Restart
  BY <1>3, CrashKeeps, RestartKeeps
<1>4. CASE UNCHANGED vars
  <2>1. /\ chain' = chain /\ notify' = notify /\ conn' = conn /\ listeners' = listeners
        /\ index' = index /\ missed' = missed /\ crashes' = crashes
    BY <1>4 DEF vars
  <2>2. /\ blockListeners' = blockListeners /\ txListeners' = txListeners
        /\ expiringTxs' = expiringTxs /\ cache' = cache /\ txCache' = txCache
        /\ lastHeight' = lastHeight /\ db' = db
    BY <2>1 DEF listeners, index
  <2>3. PubTypeOK' /\ IndexInv' /\ ChainOK'
    BY <2>1, <2>2, PublishIndexed, NothingGrows DEF PubInv, PubTypeOK
  <2>4. Crashed'
    BY <2>1, <2>2 DEF PubInv, Crashed
  <2>5. Height' = Height /\ BlocksDone' = BlocksDone /\ TxsDone' = TxsDone
    BY <2>1 DEF Height, BlocksDone, TxsDone
  <2>6. ASSUME NEW c \in Conns PROVE BlocksInv(c)' /\ TxsInv(c)'
    <3>1. BlocksInv(c) /\ TxsInv(c)
      BY DEF PubInv, ConnInv
    <3> QED
      BY <2>1, <2>2, <2>5, <3>1 DEF BlocksInv, TxsInv, AnswerRight
  <2>7. ConnInv'
    BY <2>1, <2>2, <2>6 DEF PubInv, ConnInv
  <2> QED
    BY <2>3, <2>4, <2>7 DEF PubInv
<1> QED
  BY <1>1, <1>2, <1>3, <1>4 DEF Next

LEMMA SentIs ==
    ASSUME PubInv, NEW c \in Conns
    PROVE  /\ Sent(c) = Stream(conn[c]) /\ Sent(c) \in Seq(Msg) /\ Ordered(Sent(c))
           /\ ToSet(Sent(c)) \cup conn[c].lost = All(conn[c])
           /\ ToSet(Sent(c)) \cap conn[c].lost = {}
           /\ DOMAIN Sent(c) = 1 .. Len(Sent(c)) /\ Len(Sent(c)) \in Nat
           /\ \A i \in DOMAIN Sent(c) : Sent(c)[i] \in ToSet(Sent(c)) /\ Sent(c)[i] \in Msg
           /\ \A m \in ToSet(Sent(c)) : \E i \in DOMAIN Sent(c) : Sent(c)[i] = m
           /\ conn[c].lost \in SUBSET Msg
<1>1. conn[c] \in Connection /\ Good(conn[c])
  BY ConnIs
<1>2. Sent(c) = Stream(conn[c])
  BY DEF Sent, Stream
<1>3. Sent(c) \in Seq(Msg)
  BY <1>1, <1>2, StreamParts
<1>4. PICK s : s = Sent(c)
  OBVIOUS
<1>5. s \in Seq(Msg) /\ DOMAIN s = 1 .. Len(s) /\ ToSet(s) \in SUBSET Msg
      /\ \A m : m \in ToSet(s) <=> \E i \in 1 .. Len(s) : s[i] = m
  BY <1>3, <1>4, MembersOf
<1>6. /\ \A i \in DOMAIN s : s[i] \in ToSet(s) /\ s[i] \in Msg
      /\ \A m \in ToSet(s) : \E i \in DOMAIN s : s[i] = m
      /\ Len(s) \in Nat
  BY <1>5
<1>7. Ordered(Sent(c)) /\ ToSet(Sent(c)) \cap conn[c].lost = {}
      /\ ToSet(Sent(c)) \cup conn[c].lost = All(conn[c])
  BY <1>1, <1>2 DEF Good, All
<1>8. conn[c].lost \in SUBSET Msg
  BY <1>1 DEF Connection
<1> QED
  BY <1>2, <1>3, <1>4, <1>5, <1>6, <1>7, <1>8

LEMMA PubInvStream == ASSUME PubInv PROVE StreamExact
<1>1. SUFFICES ASSUME NEW c \in Conns
               PROVE  LET sent == Sent(c)
                          blocks == {i \in DOMAIN sent : sent[i].mode = "block"}
                          heights == {sent[i].height : i \in blocks}
                          lost == {msg.height : msg \in {l \in conn[c].lost : l.mode = "block"}}
                      IN /\ \A i, j \in blocks : i < j => sent[i].height < sent[j].height
                         /\ \A h \in heights : h > conn[c].blocksFrom /\ h \notin lost
                         /\ Healthy(c) /\ conn[c].blocksFrom # -1 =>
                                conn[c].blocksFrom + 1 .. BlocksDone
                                    \subseteq heights \cup lost \cup missed
  BY DEF StreamExact
<1> DEFINE blocks(s) == {i \in DOMAIN s : s[i].mode = "block"}
           heights(s) == {s[i].height : i \in blocks(s)}
           lost == {msg.height : msg \in {l \in conn[c].lost : l.mode = "block"}}
<1>2. PICK s : s = Sent(c)
  OBVIOUS
<1>3. /\ Ordered(s) /\ ToSet(s) \cup conn[c].lost = All(conn[c])
      /\ ToSet(s) \cap conn[c].lost = {}
      /\ \A i \in DOMAIN s : s[i] \in ToSet(s) /\ s[i] \in Msg
      /\ \A m \in ToSet(s) : \E i \in DOMAIN s : s[i] = m
      /\ conn[c].lost \in SUBSET Msg
  BY <1>2, SentIs
<1>4. BlocksInv(c) /\ conn[c].blocksFrom \in Int /\ BlocksDone \in Int /\ All(conn[c]) \in SUBSET Msg
  BY ConnIs, DoneIs, AllType DEF PubInv, ConnInv, Connection
<1>5. \A m \in All(conn[c]) : m.mode = "block" =>
            conn[c].blocksFrom < m.height /\ m = BlockMsg(m.height)
  BY <1>4 DEF BlocksInv
<1>6. \A i, j \in blocks(s) : i < j => s[i].height < s[j].height
  BY <1>3 DEF Ordered, Before
<1>7. ASSUME NEW h \in heights(s) PROVE h > conn[c].blocksFrom /\ h \notin lost
  <2>1. PICK i \in DOMAIN s : s[i].mode = "block" /\ h = s[i].height
    OBVIOUS
  <2>2. s[i] \in All(conn[c]) /\ s[i] \in ToSet(s) /\ h \in Nat
    BY <1>3, <2>1 DEF Msg
  <2>3. conn[c].blocksFrom < h /\ s[i] = BlockMsg(h)
    BY <1>5, <2>1, <2>2
  <2>4. ASSUME h \in lost PROVE FALSE
    <3>1. PICK l \in conn[c].lost : l.mode = "block" /\ h = l.height
      BY <2>4
    <3>2. l \in All(conn[c])
      BY <1>3
    <3>3. l = BlockMsg(h)
      BY <1>5, <3>1, <3>2
    <3> QED
      BY <1>3, <2>2, <2>3, <3>1, <3>3
  <2> QED
    BY <1>4, <2>2, <2>3, <2>4
<1>8. ASSUME Healthy(c), conn[c].blocksFrom # -1
      PROVE  conn[c].blocksFrom + 1 .. BlocksDone \subseteq heights(s) \cup lost \cup missed
  <2> SUFFICES ASSUME NEW h \in conn[c].blocksFrom + 1 .. BlocksDone, h \notin missed
               PROVE  h \in heights(s) \cup lost
    OBVIOUS
  <2>1. BlockMsg(h) \in All(conn[c])
    BY <1>4, <1>8 DEF BlocksInv, Healthy
  <2>2. BlockMsg(h).mode = "block" /\ BlockMsg(h).height = h
    BY DEF BlockMsg
  <2>3. CASE BlockMsg(h) \in ToSet(s)
    <3>1. PICK i \in DOMAIN s : s[i] = BlockMsg(h)
      BY <1>3, <2>3
    <3> QED
      BY <2>2, <3>1
  <2>4. CASE BlockMsg(h) \in conn[c].lost
    BY <2>2, <2>4
  <2> QED
    BY <1>3, <2>1, <2>3, <2>4
<1> QED
  BY <1>2, <1>6, <1>7, <1>8

LEMMA HeightOfIs ==
    ASSUME PubTypeOK, ChainOK, NEW tx, NEW k \in DOMAIN chain, tx \in chain[k]
    PROVE  HeightOf(tx) = k
<1>1. \A i \in DOMAIN chain : tx \in chain[i] => i = k
  BY DEF ChainOK
<1> QED
  BY <1>1 DEF HeightOf

LEMMA PubInvAnswers == ASSUME PubInv PROVE AnswersRight
<1>1. PubTypeOK /\ ChainOK
  BY DEF PubInv
<1>2. SUFFICES ASSUME NEW c \in Conns, NEW tx \in Txs
               PROVE  LET sent == Sent(c)
                          answers == {i \in DOMAIN sent : sent[i].tx = tx}
                          lost == {msg.tx : msg \in {l \in conn[c].lost : l.mode = "tx"}}
                      IN /\ \A i \in answers :
                            LET h == sent[i].height IN
                            IF h # 0 THEN h \in DOMAIN chain /\ tx \in chain[h]
                            ELSE /\ tx \in AcceptedTxs => HeightOf(tx) <= conn[c].txFrom[tx]
                                                          \/ HeightOf(tx) \in missed
                                 /\ Expiry[tx] < Height
                         /\ \A i, j \in answers : i = j
                         /\ Healthy(c) /\ conn[c].txFrom[tx] # -1 =>
                                answers # {} \/ tx \in lost \/ c \in txListeners[tx]
                         /\ txListeners[tx] # {} => tx \in expiringTxs \/ Expiry[tx] = 0
  BY DEF AnswersRight
<1> DEFINE answers(s) == {i \in DOMAIN s : s[i].tx = tx}
           lost == {msg.tx : msg \in {l \in conn[c].lost : l.mode = "tx"}}
<1>3. PICK s : s = Sent(c)
  OBVIOUS
<1>4. /\ Ordered(s) /\ ToSet(s) \cup conn[c].lost = All(conn[c])
      /\ DOMAIN s = 1 .. Len(s) /\ Len(s) \in Nat
      /\ \A i \in DOMAIN s : s[i] \in ToSet(s) /\ s[i] \in Msg
      /\ \A m \in ToSet(s) : \E i \in DOMAIN s : s[i] = m
  BY <1>3, SentIs
<1>5. BlocksInv(c) /\ TxsInv(c) /\ tx # 0
  BY PublicationAssumption DEF PubInv, ConnInv
<1>6. ASSUME NEW i \in answers(s) PROVE s[i].mode = "tx" /\ AnswerRight(s[i], conn[c].txFrom[tx])
  <2>1. s[i] \in All(conn[c]) /\ s[i] \in Msg /\ s[i].tx = tx
    BY <1>4
  <2>2. s[i].mode # "block"
    <3>1. s[i].mode = "block" => s[i] = BlockMsg(s[i].height)
      BY <1>5, <2>1 DEF BlocksInv
    <3>2. BlockMsg(s[i].height).tx = 0
      BY DEF BlockMsg
    <3> QED
      BY <1>5, <2>1, <3>1, <3>2
  <2>3. s[i].mode = "tx"
    BY <2>1, <2>2 DEF Msg
  <2> QED
    BY <1>5, <2>1, <2>3 DEF TxsInv
<1>7. ASSUME NEW i \in answers(s)
      PROVE  IF s[i].height # 0
             THEN s[i].height \in DOMAIN chain /\ tx \in chain[s[i].height]
             ELSE /\ tx \in AcceptedTxs => HeightOf(tx) <= conn[c].txFrom[tx]
                                           \/ HeightOf(tx) \in missed
                  /\ Expiry[tx] < Height
  <2>1. s[i].tx = tx /\ AnswerRight(s[i], conn[c].txFrom[tx])
    BY <1>6
  <2>2. CASE s[i].height # 0
    BY <2>1, <2>2 DEF AnswerRight
  <2>3. CASE s[i].height = 0
    <3>1. /\ Expiry[tx] < Height
          /\ \A k \in DOMAIN chain : tx \in chain[k] => k <= conn[c].txFrom[tx] \/ k \in missed
      BY <2>1, <2>3 DEF AnswerRight
    <3>2. ASSUME tx \in AcceptedTxs
          PROVE  HeightOf(tx) <= conn[c].txFrom[tx] \/ HeightOf(tx) \in missed
      <4>1. PICK k \in DOMAIN chain : tx \in chain[k]
        BY <1>1, <3>2, Accepted, ChainFacts
      <4>2. HeightOf(tx) = k
        BY <1>1, <4>1, HeightOfIs
      <4> QED
        BY <3>1, <4>1, <4>2
    <3> QED
      BY <2>3, <3>1, <3>2
  <2> QED
    BY <2>2, <2>3
<1>8. ASSUME NEW i \in answers(s), NEW j \in answers(s) PROVE i = j
  <2>1. s[i].mode = "tx" /\ s[j].mode = "tx" /\ s[i].tx = s[j].tx
    BY <1>6
  <2>2. ~Before(s[i], s[j]) /\ ~Before(s[j], s[i])
    BY <2>1 DEF Before
  <2>3. i \in DOMAIN s /\ j \in DOMAIN s
    OBVIOUS
  <2>4. ~(i < j) /\ ~(j < i)
    BY <1>4, <2>2, <2>3 DEF Ordered
  <2>5. i \in Nat /\ j \in Nat
    BY <1>4, <2>3
  <2> QED
    BY <2>4, <2>5
<1>9. ASSUME Healthy(c), conn[c].txFrom[tx] # -1
      PROVE  answers(s) # {} \/ tx \in lost \/ c \in txListeners[tx]
  <2>1. c \in txListeners[tx] \/ \E m \in All(conn[c]) : m.mode = "tx" /\ m.tx = tx
    BY <1>5, <1>9 DEF TxsInv, Healthy
  <2>2. ASSUME NEW m \in All(conn[c]), m.mode = "tx", m.tx = tx
        PROVE  answers(s) # {} \/ tx \in lost
    <3>1. CASE m \in ToSet(s)
      <4>1. PICK i \in DOMAIN s : s[i] = m
        BY <1>4, <3>1
      <4>2. i \in answers(s)
        BY <2>2, <4>1
      <4> QED
        BY <4>2
    <3>2. CASE m \in conn[c].lost
      BY <2>2, <3>2
    <3> QED
      BY <1>4, <3>1, <3>2
  <2> QED
    BY <2>1, <2>2
<1>10. txListeners[tx] # {} => tx \in expiringTxs \/ Expiry[tx] = 0
  BY DEF PubInv, ConnInv
<1> QED
  BY <1>3, <1>7, <1>8, <1>9, <1>10

LEMMA PubInvWindow == ASSUME PubInv PROVE IndexWindow
BY IndexInvWindow DEF PubInv

(* The notification of a block, the connections with their buffers, the      *)
(* listeners and the index agree at every step, which the three results      *)
(* below rest on.  (server.go, message_buffer.go, connection.go, indexer.go) *)
THEOREM PublicationInvariant == Spec => []PubInv
<1>1. Init => PubInv
  BY PubInit
<1>2. PubInv /\ [Next]_vars => PubInv'
  BY PubStep
<1> QED
  BY <1>1, <1>2, PTL DEF Spec

(* A block listener is sent the blocks in order, each once, and misses while *)
(* its connection lives only those whose batch was dropped, those that are   *)
(* too large and those nobody is notified of, for any number of connections, *)
(* blocks and crashes.  (server.go AcceptBlock, message_buffer.go)           *)
THEOREM BlocksAreStreamed == Spec => []StreamExact
<1>1. PubInv => StreamExact
  BY PubInvStream
<1> QED
  BY <1>1, PublicationInvariant, PTL

(* A client that waits for a transaction gets one answer, and a right one.   *)
(* (server.go AddTxListener, AcceptBlock, setMinTx)                          *)
THEOREM AnswersAreRight == Spec => []AnswersRight
<1>1. PubInv => AnswersRight
  BY PubInvAnswers
<1> QED
  BY <1>1, PublicationInvariant, PTL

(* The indexer serves its window whatever it has been through: crashes       *)
(* between its cache and its disk, restarts, blocks it never saw.            *)
(* (indexer.go insertBlockIntoCache, storeBlock, initBlocks)                 *)
THEOREM IndexServesItsWindow == Spec => []IndexWindow
<1>1. PubInv => IndexWindow
  BY PubInvWindow
<1> QED
  BY <1>1, PublicationInvariant, PTL
==============================================================================
