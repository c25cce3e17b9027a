----------------------------- MODULE ExecuteTxs -----------------------------
(***************************************************************************)
(* Processor.executeTxs (chain/processor.go): one goroutine fetches the     *)
(* keys of each transaction of a block and queues its task; the workers of *)
(* the executor run the tasks, each of which first waits for its keys; at  *)
(* the end the goroutine waits for the fetcher and then for the executor.   *)
(* This composes Executor and Fetcher the way the processor does, with the *)
(* early returns, some of which stop both and some of which stop neither.   *)
(*                                                                         *)
(* Simplifications: what a task does with its view is left out (TStateView *)
(* and Transaction), it fails or it does not; the checks before Fetch      *)
(* (StateKeys, Units, Consume) are one outcome for each transaction.       *)
(***************************************************************************)
EXTENDS Executor

CONSTANTS
    BadKeys,        \* the keys that the parent view may fail to read
    FetchWorkers,   \* goroutines of the fetcher
    MayReject       \* the transactions that the checks may refuse

ASSUME FetchAssumption ==
    IsFiniteSet(Keys) /\ IsFiniteSet(FetchWorkers) /\ MayReject \subseteq Tasks

VARIABLES
    rejected,       \* the transactions that the checks refuse
    pc,             \* where executeTxs is
    verdict,        \* the error it returns
    keyState, waiting, blockers, waiter,            \* the fetcher's index
    fetchPc, toSend, getPc, tasks,
    worker, held, fetchErr, waitPc

fetchVars == <<keyState, waiting, blockers, waiter, fetchPc, toSend, getPc, tasks,
               worker, held, fetchErr, waitPc>>
allVars == <<vars, rejected, pc, verdict, fetchVars>>

KeysOf(p) == [t \in Tasks |-> {k \in Keys : p[t][k] # "none"}]

F == INSTANCE Fetcher WITH Txs <- Tasks, Workers <- FetchWorkers, blocked <- waiting,
                           Plans <- {KeysOf(p) : p \in Plans}, plan <- KeysOf(plan),
                           err <- fetchErr

Start0 ==
    /\ Init /\ F!Init
    /\ rejected \in SUBSET MayReject
    /\ pc = "next" /\ verdict = "nil"

-----------------------------------------------------------------------------
(* The goroutine of executeTxs.                                              *)

Next0 == current + 1

(* It is about to look at the next transaction.                              *)
Loop == pc = "next" /\ runPc = "idle" /\ current < N

Return(e) == pc' = "returned" /\ verdict' = e

(* The checks refuse the transaction: f.Stop() ...                           *)
RejectTx ==
    /\ Loop /\ Next0 \in rejected /\ fetchPc[Next0] = "new"
    /\ pc' = "stop" /\ UNCHANGED <<vars, rejected, verdict>>
    /\ IF fetchErr = "nil" THEN F!Stop ELSE UNCHANGED fetchVars

(* ... e.Stop(), and the error is returned, with tasks still running.        *)
RejectReturns ==
    /\ pc = "stop"
    /\ IF err = "nil" THEN Stop ELSE UNCHANGED vars
    /\ Return("rejected")
    /\ UNCHANGED <<rejected, fetchVars>>

(* Fetch of the transaction, up to its return.                               *)
FetchTx ==
    /\ Loop /\ Next0 \notin rejected
    /\ UNCHANGED <<vars, rejected, pc, verdict>>
    /\ F!FetchFails(Next0) \/ F!Register(Next0) \/ F!FetchStep(Next0)

(* Fetch returned an error, and so does executeTxs: nothing is stopped.      *)
FetchError ==
    /\ Loop /\ fetchPc[Next0] = "failed"
    /\ Return("fetch")
    /\ UNCHANGED <<vars, rejected, fetchVars>>

(* e.Run, in the steps of Executor.                                          *)
RunTx ==
    /\ pc = "next"
    /\ \/ Loop /\ fetchPc[Next0] = "fetched" /\ Run
       \/ RunAdjust
       \/ \E k \in Keys : RunFirst(k) \/ RunRead(k) \/ RunWrite(k)
    /\ UNCHANGED <<rejected, pc, verdict, fetchVars>>

(* f.Wait() ...                                                              *)
FetcherWait ==
    /\ pc = "next" /\ runPc = "idle" /\ current = N
    /\ pc' = "fetcher" /\ UNCHANGED <<vars, rejected, verdict>>
    /\ F!Wait

(* ... returns: with an error, executeTxs does not wait for the tasks.       *)
FetcherWaitReturns ==
    /\ pc = "fetcher" /\ UNCHANGED <<vars, rejected>> /\ F!WaitReturn
    /\ IF fetchErr = "nil" THEN pc' = "executor" /\ verdict' = verdict
                           ELSE Return("fetch")

(* e.Wait().                                                                 *)
ExecutorWait ==
    /\ pc = "executor" /\ Wait
    /\ UNCHANGED <<rejected, pc, verdict, fetchVars>>

ExecutorWaitReturns ==
    /\ pc = "executor" /\ WaitDone
    /\ Return(err)
    /\ UNCHANGED <<rejected, fetchVars>>

-----------------------------------------------------------------------------
(* A task, on a worker of the executor.                                      *)

(* Mutant: the task does not wait for its keys.                              *)
GetAtOnce(t) ==
    /\ taskPc[t] = "run" /\ UNCHANGED <<vars, rejected, pc, verdict>>
    /\ F!GetStep(t, "storage")

(* f.Get                                                                     *)
Get(t) ==
    /\ taskPc[t] = "run" /\ UNCHANGED <<vars, rejected, pc, verdict>>
    /\ F!GetReturn(t)

(* With the storage, the transaction is executed and its view committed; it  *)
(* may fail.                                                                 *)
Execute(t) ==
    /\ getPc[t] = "storage" /\ Finish(t)
    /\ UNCHANGED <<rejected, pc, verdict, fetchVars>>

(* Without it, the task returns the error of the fetcher.                    *)
GetFails(t) ==
    /\ taskPc[t] = "run" /\ getPc[t] = "error"
    /\ err' = IF err = "nil" THEN "task" ELSE err
    /\ taskPc' = [taskPc EXCEPT ![t] = "clear"]
    /\ UNCHANGED <<plan, failing, caller, graph, executable, rejected, pc, verdict, fetchVars>>

RunTask(t) ==
    \/ Get(t) \/ Execute(t) \/ GetFails(t)
    \/ /\ Start(t) \/ Release(t) \/ \E u \in Tasks : ClearReading(t, u)
       /\ UNCHANGED <<rejected, pc, verdict, fetchVars>>

FetchWorker(w) == UNCHANGED <<vars, rejected, pc, verdict>> /\ F!WorkerStep(w)

-----------------------------------------------------------------------------
ExecuteTxsStep ==
    \/ RejectTx \/ RejectReturns \/ FetchTx \/ FetchError \/ RunTx
    \/ FetcherWait \/ FetcherWaitReturns \/ ExecutorWait \/ ExecutorWaitReturns

BlockNext ==
    \/ ExecuteTxsStep
    \/ \E t \in Tasks : RunTask(t)
    \/ \E w \in FetchWorkers : FetchWorker(w)

(* Every goroutine keeps going.                                              *)
BlockSpec ==
    /\ Start0 /\ [][BlockNext]_allVars
    /\ WF_allVars(ExecuteTxsStep)
    /\ \A t \in Tasks : WF_allVars(RunTask(t))
    /\ \A w \in FetchWorkers : WF_allVars(FetchWorker(w))

-----------------------------------------------------------------------------
(* Properties                                                                *)

(* A block is accepted only if each of its transactions passed its checks    *)
(* and was executed, without an error, on all of its keys; and it is refused *)
(* only for what is wrong with the block or with the disk: the error of one  *)
(* part never surfaces as another's, and ErrStopped never does.              *)
VerdictIsExact ==
    pc = "returned" =>
        /\ verdict = "nil" =>
               /\ rejected = {} /\ failing = {}
               /\ \A t \in Tasks : Done(t) /\ getPc[t] = "storage"
        /\ verdict = "rejected" => rejected # {}
        /\ verdict = "fetch" => fetchErr = "read"
        /\ verdict = "task" => failing # {} /\ fetchErr = "nil"
        /\ verdict # "stopped"

(* How the goroutine, the tasks and the fetcher depend on one another: what  *)
(* the early returns may rely on.                                            *)
CallsInv ==
    /\ pc \in {"next", "stop", "fetcher", "executor", "returned"}
    /\ verdict \in {"nil", "rejected", "fetch", "task", "stopped"}
    /\ rejected \subseteq Tasks /\ (pc = "stop" => rejected # {})
    /\ \A t \in Tasks : /\ t <= current => fetchPc[t] = "fetched"
                        /\ fetchPc[t] # "new" => t \notin rejected
    /\ err = "nil" => \A t \in Tasks : Returned(t) => getPc[t] = "storage" /\ t \notin failing
    /\ err = "task" => failing # {} \/ fetchErr # "nil"
    /\ fetchErr = "stopped" => pc = "stop" \/ (pc = "returned" /\ verdict = "rejected")
    /\ err = "stopped" => pc = "returned" /\ verdict = "rejected"
    /\ pc \in {"fetcher", "executor"} => current = N /\ runPc # "keys"
    /\ pc = "executor" \/ (pc = "returned" /\ verdict \in {"nil", "task"}) =>
           waitPc = "done" /\ fetchErr = "nil"

ExecuteTxsInv == F!FetcherInv /\ CallsInv /\ VerdictIsExact

(* executeTxs returns, also early, and leaves neither a task that it queued  *)
(* nor a goroutine of the fetcher behind.                                    *)
Ends ==
    <>(pc = "returned" /\ Outstanding = {} /\ \A w \in FetchWorkers : worker[w] = "gone")
=============================================================================
