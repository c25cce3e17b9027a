----------------------------- MODULE TStateView -----------------------------
(***************************************************************************)
(* The view through which one transaction changes the state of a block     *)
(* (state/tstate): a TState collects the keys that the views of a block    *)
(* committed, a TStateView overlays one transaction's pending changes on   *)
(* it and logs every operation so that a failed action is rolled back.     *)
(*                                                                         *)
(* Simplifications:                                                        *)
(*  - every key of the scope is writable, `allocatable' are those with the *)
(*    Allocate permission; the checks that only return an error and leave  *)
(*    the view alone are the guards of the operations;                     *)
(*  - writes records that a key was written or deleted, not how many       *)
(*    chunks; allocates that it was allocated;                             *)
(*  - views of conflicting transactions do not overlap (Executor), so one  *)
(*    view at a time is enough;                                            *)
(*  - Rollback undoes one operation per step and shortens the log as it    *)
(*    goes; the code shortens it after the loop, which nobody can see;     *)
(*  - `hist' is history: no code reads it.                                 *)
(***************************************************************************)
EXTENDS Integers, Sequences

CONSTANTS
    Keys,
    Values,
    None,           \* no such key: database.ErrNotFound, maybe.Nothing
    Unset,          \* no entry in a Go map
    MaxOps          \* bound on the operations of one view

ASSUME DistinctAssumption ==
    None \notin Values /\ Unset \notin Values \cup {None, "deleted", "written"}
ASSUME BoundAssumption == MaxOps \in Nat

VARIABLES
    storage,        \* the state before the block
    changedKeys,    \* TState.changedKeys
    allocatable,    \* keys of the scope with the Allocate permission
    pending,        \* TStateView.pendingChangedKeys
    allocates,      \* keys in TStateView.allocates
    writes,         \* TStateView.writes
    ops,            \* TStateView.ops
    restorePoint,   \* argument of a Rollback that is running, or NoRollback
    hist            \* history: the view before each operation, and now

parent == <<storage, changedKeys, allocatable>>
viewVars == <<parent, pending, allocates, writes, ops, restorePoint, hist>>

NoRollback == -1
Op == [t : {"create", "insert", "remove"}, k : Keys,
       pastV : Values \cup {None}, pastAllocates : BOOLEAN,
       pastWrites : {Unset, "deleted", "written"}]
Change == Values \cup {None, Unset}
Snapshot == [pending : [Keys -> Change], allocates : [Keys -> BOOLEAN],
             writes : [Keys -> {Unset, "deleted", "written"}]]

(* getChangedValue, then the storage.                                        *)
Parent(k) == IF changedKeys[k] # Unset THEN changedKeys[k] ELSE storage[k]

Overlay(p, k) == IF p[k] # Unset THEN p[k] ELSE Parent(k)

(* getValue                                                                  *)
Value(k) == Overlay(pending, k)

View == [pending |-> pending, allocates |-> allocates, writes |-> writes]

(* NewView                                                                   *)
EmptyView == [pending |-> [k \in Keys |-> Unset],
              allocates |-> [k \in Keys |-> FALSE],
              writes |-> [k \in Keys |-> Unset]]

ViewInit ==
    /\ storage \in [Keys -> Values \cup {None}]
    /\ changedKeys = [k \in Keys |-> Unset]
    /\ allocatable \in SUBSET Keys
    /\ pending = EmptyView.pending
    /\ allocates = EmptyView.allocates
    /\ writes = EmptyView.writes
    /\ ops = <<>> /\ restorePoint = NoRollback
    /\ hist = <<EmptyView>>

-----------------------------------------------------------------------------
Ready == restorePoint = NoRollback /\ Len(ops) < MaxOps

LogOp(t, k) == Append(ops, [t |-> t, k |-> k, pastV |-> Value(k),
                            pastAllocates |-> allocates[k],
                            pastWrites |-> writes[k]])

(* The view after k was given the change c: back to the parent's value, the  *)
(* key is as if it was never touched.                                        *)
SetKey(k, c, w, a) ==
    LET same == c = Parent(k)
    IN  /\ pending' = [pending EXCEPT ![k] = IF same THEN Unset ELSE c]
        /\ writes' = [writes EXCEPT ![k] = IF same THEN Unset ELSE w]
        /\ allocates' = [allocates EXCEPT ![k] = ~same /\ a]

Logged == hist' = Append(hist, [pending |-> pending', allocates |-> allocates',
                                writes |-> writes'])

(* Insert of a key that exists with another value.                           *)
InsertExisting(k, v) ==
    /\ Ready
    /\ Value(k) \notin {None, v}
    /\ SetKey(k, v, "written", allocates[k])
    /\ ops' = LogOp("insert", k)
    /\ Logged
    /\ UNCHANGED <<parent, restorePoint>>

(* Mutant: a re-created key is logged as an insert.                          *)
InsertNewLoggedAsInsert(k, v) ==
    /\ Ready
    /\ Value(k) = None /\ k \in allocatable
    /\ SetKey(k, v, "written", TRUE)
    /\ ops' = LogOp("insert", k)
    /\ Logged
    /\ UNCHANGED <<parent, restorePoint>>

(* Insert of a key that does not exist: it needs the Allocate permission.    *)
InsertNew(k, v) ==
    /\ Ready
    /\ Value(k) = None /\ k \in allocatable
    /\ SetKey(k, v, "written", TRUE)
    /\ ops' = LogOp("create", k)
    /\ Logged
    /\ UNCHANGED <<parent, restorePoint>>

(* Remove: a key allocated by this view is forgotten, "as if nothing         *)
(* happened", and has the parent's value again, if there is one; any other   *)
(* key is marked as deleted.                                                 *)
RemoveKey(k) ==
    /\ Ready
    /\ Value(k) # None
    /\ IF allocates[k]
       THEN /\ pending' = [pending EXCEPT ![k] = Unset]
            /\ writes' = [writes EXCEPT ![k] = Unset]
            /\ allocates' = [allocates EXCEPT ![k] = FALSE]
       ELSE SetKey(k, None, "deleted", FALSE)
    /\ ops' = LogOp("remove", k)
    /\ Logged
    /\ UNCHANGED <<parent, restorePoint>>

-----------------------------------------------------------------------------
(* Transaction.Execute rolls a failed action back to where it started.       *)
Rollback(point) ==
    /\ restorePoint = NoRollback
    /\ point < Len(ops)
    /\ restorePoint' = point
    /\ UNCHANGED <<parent, pending, allocates, writes, ops, hist>>

(* The pending change before the operation o.                                *)
PastChange(o) == IF o.pastWrites = Unset THEN Unset
                 ELSE IF o.t = "create" THEN None ELSE o.pastV

(* One iteration of Rollback's loop, from the last operation down.           *)
Undo ==
    /\ restorePoint # NoRollback
    /\ LET n == Len(ops)  o == ops[n]
       IN  /\ pending' = [pending EXCEPT ![o.k] = PastChange(o)]
           /\ writes' = [writes EXCEPT ![o.k] = o.pastWrites]
           /\ allocates' = [allocates EXCEPT ![o.k] =
                 IF o.t = "create" THEN FALSE
                 ELSE @ \/ (o.t = "remove" /\ o.pastAllocates)]
           /\ ops' = SubSeq(ops, 1, n - 1)
           /\ hist' = SubSeq(hist, 1, n)
           /\ restorePoint' = IF n - 1 = restorePoint THEN NoRollback
                                                      ELSE restorePoint
    /\ UNCHANGED parent

-----------------------------------------------------------------------------
(* The next transaction gets a new view, with a scope of its own.            *)
NewView ==
    /\ allocatable' \in SUBSET Keys
    /\ pending' = EmptyView.pending
    /\ allocates' = EmptyView.allocates
    /\ writes' = EmptyView.writes
    /\ ops' = <<>> /\ hist' = <<EmptyView>>
    /\ UNCHANGED <<storage, restorePoint>>

(* Mutant: deletions are not passed on.                                      *)
CommitDropsDeletes ==
    /\ restorePoint = NoRollback
    /\ changedKeys' = [k \in Keys |-> IF pending[k] \in Values
                                      THEN pending[k] ELSE changedKeys[k]]
    /\ NewView

Commit ==
    /\ restorePoint = NoRollback
    /\ changedKeys' = [k \in Keys |-> IF pending[k] # Unset
                                      THEN pending[k] ELSE changedKeys[k]]
    /\ NewView

(* The builder drops the view of a transaction that did not make it.         *)
Discard == restorePoint = NoRollback /\ UNCHANGED changedKeys /\ NewView

ViewNext ==
    \/ \E k \in Keys, v \in Values : InsertExisting(k, v) \/ InsertNew(k, v)
    \/ \E k \in Keys : RemoveKey(k)
    \/ \E point \in 0 .. MaxOps : Rollback(point)
    \/ Undo
    \/ Commit
    \/ Discard

ViewSpec == ViewInit /\ [][ViewNext]_viewVars

-----------------------------------------------------------------------------
(* Every map keeps its type, and the log its length.                         *)
TypeOK ==
    /\ storage \in [Keys -> Values \cup {None}]
    /\ changedKeys \in [Keys -> Change]
    /\ allocatable \subseteq Keys
    /\ View \in Snapshot
    /\ ops \in Seq(Op) /\ Len(ops) <= MaxOps
    /\ restorePoint = NoRollback \/ restorePoint \in 0 .. Len(ops) - 1
    /\ hist \in Seq(Snapshot) /\ Len(hist) = Len(ops) + 1

(* Whatever operations came first and were rolled back before, undoing the   *)
(* log takes the pending changes back to exactly what they were: GetValue    *)
(* returns what it returned at the restore point.                            *)
RollbackRestores == pending = hist[Len(hist)].pending

(* Only keys that differ from the parent view are pending, so Commit never   *)
(* marks a key as changed that the transaction gave its old value back.      *)
OnlyRealChanges == \A k \in Keys : pending[k] # Parent(k)

(* The write log, from which fees were computed, agrees with the pending     *)
(* changes, and a key counts as allocated only while it has a pending value. *)
WritesMatchChanges ==
    \A k \in Keys : /\ writes[k] = Unset <=> pending[k] = Unset
                    /\ writes[k] = "deleted" <=> pending[k] = None
                    /\ allocates[k] => pending[k] \in Values

(* A view is a key-value map with an undo stack: undoing an operation takes  *)
(* every key back, and what was committed is what the next view starts from. *)
Contents(p) == [k \in Keys |-> Overlay(p, k)]
Stack == [i \in 1 .. Len(hist) - 1 |-> Contents(hist[i].pending)]
Committed == [k \in Keys |-> Parent(k)]

Map == INSTANCE UndoMap
         WITH contents <- Contents(pending), stack <- Stack,
              committed <- Committed

ImplementsMap == Map!Spec

-----------------------------------------------------------------------------
(* The inductive invariant.                                                  *)

(* The operation o, logged between two views, holds what is needed to go     *)
(* back from the second to the first.                                        *)
Undoes(o, before, after) ==
    /\ before.pending = [after.pending EXCEPT ![o.k] = PastChange(o)]
    /\ o.pastWrites = "deleted" => o.t = "create"
    /\ o.pastWrites = "written" => o.t # "create" /\ o.pastV \in Values
    /\ o.t = "create" => ~before.allocates[o.k]
    /\ o.t = "remove" => ~after.allocates[o.k]
    /\ o.pastAllocates => before.allocates[o.k]
    /\ \A k \in Keys : after.allocates[k] =>
                           before.allocates[k] \/ (o.t = "create" /\ o.k = k)

UndoInv == \A i \in 1 .. Len(ops) : Undoes(ops[i], hist[i], hist[i + 1])

(* Each entry of the history is a view that could be committed.              *)
Consistent(s) ==
    \A k \in Keys : /\ s.pending[k] # Parent(k)
                    /\ s.allocates[k] => s.pending[k] \in Values

HistInv == \A i \in 1 .. Len(hist) : Consistent(hist[i])

(* An undone allocation may be forgotten, but none is invented.              *)
AllocatesBounded ==
    \A k \in Keys : allocates[k] => hist[Len(hist)].allocates[k]

ViewInv == /\ TypeOK
           /\ RollbackRestores
           /\ WritesMatchChanges
           /\ UndoInv
           /\ HistInv
           /\ AllocatesBounded
=============================================================================
