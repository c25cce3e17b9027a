------------------------------ MODULE AuthBatch ------------------------------
(***************************************************************************)
(* How a block gives its signatures to the pool (chain/auth_batch.go): one *)
(* whose kind of key has a batch verifier goes to the goroutine of that    *)
(* kind, which makes a task of every full batch; the others are tasks of   *)
(* their own.  Done waits for the goroutine and makes a task of what is    *)
(* left.  The only batch verifier is that of auth/ed25519.go.              *)
(*                                                                         *)
(* Simplifications: a batch has BatchSize signatures, for any number of    *)
(* them; the backlog of the goroutine holds all.                           *)
(***************************************************************************)
EXTENDS ParallelWorkers

CONSTANT BatchSize

ASSUME BatchAssumption == BatchSize \in Nat \ {0}

VARIABLES
    added,          \* job -> signatures given to Add
    items,          \* job -> authBatchWorker.items
    done,           \* job -> authBatchWorker.done is closed
    bv              \* job -> ED25519Batch

batchVars == <<added, items, done, bv>>
authVars == <<poolVars, batchVars>>

Batched(j) == {s \in Signatures(j) : plan[j][s[2]].batch}

BatchInit ==
    /\ PoolInit
    /\ added = [j \in Jobs |-> 0] /\ items = [j \in Jobs |-> <<>>]
    /\ done = [j \in Jobs |-> FALSE]
    /\ bv = [j \in Jobs |-> [batch |-> {}, counter |-> 0, total |-> 0]]

Rest == UNCHANGED <<plan, queue, schedVars, sg, err, workerVars, stopVars>>

Add(j) ==
    LET sig == <<j, added[j] + 1>>
    IN /\ caller[j] = "open" /\ added[j] < Len(plan[j])
       /\ added' = [added EXCEPT ![j] = @ + 1]
       /\ IF sig \in Batched(j)
          THEN items' = [items EXCEPT ![j] = Append(@, sig)] /\ UNCHANGED given
          ELSE Go(j, {sig}) /\ UNCHANGED items
       /\ UNCHANGED <<caller, done, bv>> /\ Rest

(* The goroutine of the batch.  A batch is dropped when it is full, but for  *)
(* the last one: when that is full, Done verifies it once more.              *)
BatchAdd(j) ==
    LET batch == bv[j].batch \cup {Head(items[j])}
        full == bv[j].counter + 1 = BatchSize
        total == bv[j].total + 1
    IN /\ items[j] # <<>>
       /\ items' = [items EXCEPT ![j] = Tail(@)]
       /\ bv' = [bv EXCEPT ![j] =
                    [batch |-> IF full /\ total < Cardinality(Batched(j)) THEN {} ELSE batch,
                     counter |-> IF full THEN 0 ELSE @.counter + 1,
                     total |-> total]]
       /\ IF full THEN Go(j, batch) ELSE UNCHANGED given
       /\ UNCHANGED <<caller, added, done>> /\ Rest

CloseItems(j) ==
    /\ caller[j] = "open" /\ added[j] = Len(plan[j])
    /\ caller' = [caller EXCEPT ![j] = "done"]
    /\ UNCHANGED <<given, batchVars>> /\ Rest

BatchEnd(j) ==
    /\ caller[j] = "done" /\ items[j] = <<>> /\ ~done[j]
    /\ done' = [done EXCEPT ![j] = TRUE]
    /\ UNCHANGED <<caller, given, added, items, bv>> /\ Rest

(* Mutant: Done does not wait for the goroutine.                             *)
DoneEarly(j) ==
    /\ caller[j] = "done"
    /\ IF bv[j].batch # {} THEN Go(j, bv[j].batch) ELSE UNCHANGED given
    /\ caller' = [caller EXCEPT ![j] = "closed"]
    /\ UNCHANGED batchVars /\ Rest

Done(j) ==
    /\ caller[j] = "done" /\ done[j]
    /\ IF bv[j].batch # {} THEN Go(j, bv[j].batch) ELSE UNCHANGED given
    /\ caller' = [caller EXCEPT ![j] = "closed"]
    /\ UNCHANGED batchVars /\ Rest

-----------------------------------------------------------------------------
verifySignatures(j) == Add(j) \/ BatchAdd(j) \/ CloseItems(j) \/ BatchEnd(j) \/ Done(j)

AuthNext ==
    \/ \E j \in Jobs : verifySignatures(j)
    \/ ((\E j \in Jobs : JobStep(j)) \/ PoolNext) /\ UNCHANGED batchVars

(* The goroutines keep going.                                                *)
AuthSpec ==
    /\ BatchInit /\ [][AuthNext]_authVars
    /\ WF_authVars(Scheduler /\ UNCHANGED batchVars)
    /\ WF_authVars(StopRest /\ UNCHANGED batchVars)
    /\ \A w \in Workers : WF_authVars(WorkerStep(w) /\ UNCHANGED batchVars)
    /\ \A j \in Jobs : WF_authVars(verifySignatures(j))

-----------------------------------------------------------------------------
(* Properties                                                                *)

(* Every signature that was added is in the backlog of the goroutine, in its *)
(* batch or in a task of the job, and in a task when Done has returned: Done *)
(* waits for the goroutine, which ends when the caller has added the last.   *)
BatchTypeOK ==
    /\ added \in [Jobs -> Nat] /\ done \in [Jobs -> BOOLEAN]
    /\ items \in [Jobs -> Seq(Jobs \X Nat)]
    /\ bv \in [Jobs -> [batch : SUBSET (Jobs \X Nat), counter : Nat, total : Nat]]
    /\ \A j \in Jobs : /\ added[j] <= Len(plan[j])
                       /\ ToSet(items[j]) \cup bv[j].batch \subseteq Signatures(j)

NoneLost(j) ==
    /\ caller[j] \in {"done", "closed", "returned"} => added[j] = Len(plan[j])
    /\ done[j] => items[j] = <<>> /\ caller[j] \in {"done", "closed", "returned"}
    /\ caller[j] \in {"closed", "returned"} =>
           done[j] /\ Signatures(j) \subseteq UNION ToSet(given[j])
    /\ \A k \in 1 .. added[j] :
           <<j, k>> \in ToSet(items[j]) \cup bv[j].batch \cup UNION ToSet(given[j])

BatchInv == \A j \in Jobs : NoneLost(j)

AuthInv == WorkersInv /\ BatchTypeOK /\ BatchInv

(* A nil result means that every signature of the block was verified, in a   *)
(* batch or alone, and that each is good: no block is accepted with a        *)
(* signature that was skipped, left in a batch or is still verified.         *)
NilMeansVerified ==
    \A j \in Jobs : result[j] = Nil =>
        /\ caller[j] \in {"closed", "returned"}
        /\ Signatures(j) \subseteq verified
        /\ ~Fails(Signatures(j))

(* A job whose signatures were all added gets its result, and Stop returns   *)
(* after "waiting for all workers to complete", as long as no task was       *)
(* skipped after a failure: the worker that skips one leaves for good.       *)
AllGone == \A w \in Workers : worker[w] \in {"gone", "left"}
SomeGone == \E w \in Workers : worker[w] = "gone"

Returns ==
    /\ \A j \in Jobs : caller[j] = "done" ~> result[j] # NoResult \/ AllGone
    /\ stopper = "flagged" ~> stopper = "done" \/ SomeGone
=============================================================================
