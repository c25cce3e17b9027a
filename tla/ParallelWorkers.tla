-------------------------- MODULE ParallelWorkers --------------------------
(***************************************************************************)
(* The pool that verifies signatures (internal/workers): jobs wait in a    *)
(* queue, one scheduler hands the tasks of one job at a time to the        *)
(* workers, and the caller waits for the result of its job.  A task        *)
(* verifies a set of the signatures of its job.                            *)
(*                                                                         *)
(* Simplifications:                                                        *)
(*  - the backlog of a job holds all its tasks (chain/processor.go:327),   *)
(*    so that Go does not block;                                           *)
(*  - an error is the job whose task returned it;                          *)
(*  - the callback of Done, which is for tracing, is left out.             *)
(***************************************************************************)
EXTENDS Integers, Sequences, SequencesExt

CONSTANTS
    Workers,        \* the goroutines of startWorker
    MaxJobs,        \* capacity of the queue
    Jobs,           \* the jobs: 1 .. number of jobs
    Plans           \* the signatures of each job

ASSUME WorkerAssumption == IsFiniteSet(Workers)
ASSUME JobAssumption == MaxJobs \in Nat /\ Jobs \subseteq Nat \ {0}
ASSUME PlanAssumption == Plans \subseteq [Jobs -> Seq([batch : BOOLEAN, bad : BOOLEAN])]

VARIABLES
    plan,           \* member of Plans
    caller,         \* job -> where its caller is
    queue,          \* ParallelWorkers.queue
    queueClosed,
    given,          \* job -> tasks that were given to Go
    taken,          \* job -> tasks that the scheduler took
    result,         \* job -> what ParallelJob.result holds or held
    verified,       \* history: signatures that a task has verified
    sched,          \* where the scheduler is
    cur,            \* the job it works on
    sg,             \* counter of ParallelWorkers.sg
    err,            \* ParallelWorkers.err
    worker,         \* worker -> where it is
    held,           \* worker -> its task
    shouldShutdown,
    stopper         \* where Stop is

jobVars == <<caller, queue, given>>
schedVars == <<sched, cur, taken, result>>
workerVars == <<worker, held, verified>>
stopVars == <<shouldShutdown, queueClosed, stopper>>
poolVars == <<plan, jobVars, schedVars, sg, err, workerVars, stopVars>>

Nil == 0
NoResult == -1
Shutdown == -2

Signatures(j) == {<<j, k>> : k \in 1 .. Len(plan[j])}
JobOf(task) == (CHOOSE s \in task : TRUE)[1]
Fails(task) == \E s \in task : plan[s[1]][s[2]].bad

PoolInit ==
    /\ plan \in Plans
    /\ caller = [j \in Jobs |-> "new"] /\ queue = <<>> /\ queueClosed = FALSE
    /\ given = [j \in Jobs |-> <<>>] /\ taken = [j \in Jobs |-> 0]
    /\ result = [j \in Jobs |-> NoResult] /\ verified = {}
    /\ sched = "idle" /\ cur = 0 /\ sg = 0 /\ err = Nil
    /\ worker = [w \in Workers |-> "idle"] /\ held = [w \in Workers |-> {}]
    /\ shouldShutdown = FALSE /\ stopper = "none"

-----------------------------------------------------------------------------
(* The callers                                                               *)

CallerStep(j, from, to) ==
    /\ caller[j] = from /\ caller' = [caller EXCEPT ![j] = to]
    /\ UNCHANGED <<plan, schedVars, sg, err, workerVars, stopVars>>

(* NewJob looks at shouldShutdown under the lock ...                         *)
NewJob(j) ==
    /\ CallerStep(j, "new", IF shouldShutdown THEN "refused" ELSE "checked")
    /\ UNCHANGED <<queue, given>>

(* ... and sends afterwards; the queue may have been closed in between.      *)
Enqueue(j) ==
    /\ CallerStep(j, "checked", "open")
    /\ ~queueClosed /\ Len(queue) < MaxJobs
    /\ queue' = Append(queue, j)
    /\ UNCHANGED given

SendOnClosed(j) ==
    /\ CallerStep(j, "checked", "panic")
    /\ queueClosed
    /\ UNCHANGED <<queue, given>>

Go(j, task) == given' = [given EXCEPT ![j] = Append(@, task)]

Wait(j) ==
    /\ CallerStep(j, "closed", "returned")
    /\ result[j] # NoResult
    /\ UNCHANGED <<queue, given>>

-----------------------------------------------------------------------------
(* The scheduler: processQueue                                               *)

(* The next job is taken unless the pool shuts down ...                      *)
SchedTake ==
    /\ sched = "idle" /\ queue # <<>>
    /\ queue' = Tail(queue)
    /\ IF shouldShutdown
       THEN /\ result' = [result EXCEPT ![Head(queue)] = Shutdown]
            /\ UNCHANGED <<sched, cur>>
       ELSE /\ sched' = "tasks" /\ cur' = Head(queue)
            /\ UNCHANGED result
    /\ UNCHANGED <<plan, caller, given, taken, sg, err, workerVars, stopVars>>

(* ... its tasks are counted one by one ...                                  *)
SchedNext ==
    /\ sched = "tasks" /\ taken[cur] < Len(given[cur])
    /\ taken' = [taken EXCEPT ![cur] = @ + 1]
    /\ sg' = sg + 1
    /\ sched' = "sending"
    /\ UNCHANGED <<plan, jobVars, cur, result, err, workerVars, stopVars>>

(* ... and handed to a worker that receives from the unbuffered channel.     *)
Assign(w) ==
    /\ sched = "sending" /\ worker[w] = "idle"
    /\ held' = [held EXCEPT ![w] = given[cur][taken[cur]]]
    /\ worker' = [worker EXCEPT ![w] = "got"]
    /\ sched' = "tasks"
    /\ UNCHANGED <<plan, jobVars, cur, taken, result, sg, err, verified, stopVars>>

SchedDrained ==
    /\ sched = "tasks"
    /\ taken[cur] = Len(given[cur]) /\ caller[cur] = "closed"
    /\ sched' = "wait"
    /\ UNCHANGED <<plan, jobVars, cur, taken, result, sg, err, workerVars, stopVars>>

(* Mutant: the error is not reset.                                           *)
SchedFinishKeepsErr ==
    /\ sched = "wait" /\ sg = 0
    /\ result' = [result EXCEPT ![cur] = err]
    /\ sched' = "idle"
    /\ UNCHANGED <<plan, jobVars, cur, taken, sg, err, workerVars, stopVars>>

(* Mutant: the result is sent only if it is an error.                        *)
SchedFinishSilent ==
    /\ sched = "wait" /\ sg = 0
    /\ result' = [result EXCEPT ![cur] = IF err = Nil THEN NoResult ELSE err]
    /\ err' = Nil
    /\ sched' = "idle"
    /\ UNCHANGED <<plan, jobVars, cur, taken, sg, workerVars, stopVars>>

(* When all are done, the result is sent and the error reset.                *)
SchedFinish ==
    /\ sched = "wait" /\ sg = 0
    /\ result' = [result EXCEPT ![cur] = err]
    /\ err' = Nil
    /\ sched' = "idle"
    /\ UNCHANGED <<plan, jobVars, cur, taken, sg, workerVars, stopVars>>

(* The queue is closed and empty: ackShutdown is closed.                     *)
SchedExit ==
    /\ sched = "idle" /\ queueClosed /\ queue = <<>>
    /\ sched' = "exited"
    /\ UNCHANGED <<plan, jobVars, cur, taken, result, sg, err, workerVars, stopVars>>

-----------------------------------------------------------------------------
(* The workers: startWorker                                                  *)

(* Another task has failed: the worker skips its task and returns.           *)
SkipTask(w) ==
    /\ worker[w] = "got" /\ err # Nil
    /\ worker' = [worker EXCEPT ![w] = "gone"]
    /\ held' = [held EXCEPT ![w] = {}]
    /\ sg' = sg - 1
    /\ UNCHANGED <<plan, jobVars, schedVars, err, verified, stopVars>>

StartTask(w) ==
    /\ worker[w] = "got" /\ err = Nil
    /\ worker' = [worker EXCEPT ![w] = "run"]
    /\ UNCHANGED <<plan, jobVars, schedVars, sg, err, held, verified, stopVars>>

EndTask(w) ==
    /\ worker[w] = "run"
    /\ IF Fails(held[w])
       THEN err' = (IF err = Nil THEN JobOf(held[w]) ELSE err) /\ UNCHANGED verified
       ELSE verified' = verified \cup held[w] /\ UNCHANGED err
    /\ worker' = [worker EXCEPT ![w] = "idle"]
    /\ held' = [held EXCEPT ![w] = {}]
    /\ sg' = sg - 1
    /\ UNCHANGED <<plan, jobVars, schedVars, stopVars>>

(* stopWorkers is closed; the worker tells Stop and returns.                 *)
Leave(w) ==
    /\ worker[w] = "idle" /\ stopper = "collect"
    /\ worker' = [worker EXCEPT ![w] = "left"]
    /\ UNCHANGED <<plan, jobVars, schedVars, sg, err, held, verified, stopVars>>

-----------------------------------------------------------------------------
(* Stop                                                                      *)

StopStep(from, to) ==
    /\ stopper = from /\ stopper' = to
    /\ UNCHANGED <<plan, jobVars, schedVars, sg, err, workerVars>>

SetShutdown ==
    /\ StopStep("none", "flagged")
    /\ shouldShutdown' = TRUE
    /\ UNCHANGED queueClosed

CloseQueue ==
    /\ StopStep("flagged", "waitAck")
    /\ queueClosed' = TRUE
    /\ UNCHANGED shouldShutdown

CloseStopWorkers ==
    /\ StopStep("waitAck", "collect")
    /\ sched = "exited"
    /\ UNCHANGED <<shouldShutdown, queueClosed>>

(* Stop returns when every worker has told it.                               *)
StopReturn ==
    /\ StopStep("collect", "done")
    /\ \A w \in Workers : worker[w] = "left"
    /\ UNCHANGED <<shouldShutdown, queueClosed>>

-----------------------------------------------------------------------------
Scheduler ==
    \/ SchedTake \/ SchedNext \/ SchedDrained \/ SchedFinish \/ SchedExit
    \/ \E w \in Workers : Assign(w)

WorkerStep(w) == SkipTask(w) \/ StartTask(w) \/ EndTask(w) \/ Leave(w)

StopRest == CloseQueue \/ CloseStopWorkers \/ StopReturn

JobStep(j) == NewJob(j) \/ Enqueue(j) \/ SendOnClosed(j) \/ Wait(j)

PoolNext == Scheduler \/ (\E w \in Workers : WorkerStep(w)) \/ SetShutdown \/ StopRest

-----------------------------------------------------------------------------
(* Properties                                                                *)

(* The variables have their types; the wait group is never negative.         *)
PoolTypeOK ==
    /\ plan \in Plans
    /\ caller \in [Jobs -> {"new", "checked", "refused", "open", "done", "closed",
                            "returned", "panic"}]
    /\ queue \in Seq(Jobs) /\ Len(queue) <= MaxJobs
    /\ {queueClosed, shouldShutdown} \subseteq BOOLEAN
    /\ given \in [Jobs -> Seq(SUBSET (Jobs \X Nat))]
    /\ \A j \in Jobs : ToSet(given[j]) \subseteq SUBSET Signatures(j)
    /\ taken \in [Jobs -> Nat] /\ held \in [Workers -> SUBSET (Jobs \X Nat)]
    /\ verified \subseteq UNION {Signatures(j) : j \in Jobs}
    /\ result \in [Jobs -> Jobs \cup {Nil, NoResult, Shutdown}]
    /\ sched \in {"idle", "tasks", "sending", "wait", "exited"}
    /\ cur \in Jobs \cup {0} /\ sg \in Nat /\ err \in Jobs \cup {Nil}
    /\ worker \in [Workers -> {"idle", "got", "run", "gone", "left"}]
    /\ stopper \in {"none", "flagged", "waitAck", "collect", "done"}

(* A job fails only by a bad signature of its own, and never because an      *)
(* earlier job has left its error in the pool.                               *)
ErrorIsOwn ==
    /\ \A j \in Jobs : result[j] \in Jobs => result[j] = j /\ Fails(Signatures(j))
    /\ err # Nil => err = cur /\ sched \notin {"idle", "exited"} /\ Fails(Signatures(err))
    /\ ~Fails(verified)

(* sg counts the tasks of one job: the one that is to be sent and those that *)
(* workers have; while the scheduler has no job there are none.              *)
Busy == sched \in {"tasks", "sending", "wait"}
Active == {w \in Workers : worker[w] \in {"got", "run"}}

CountInv ==
    /\ sg = Cardinality(Active) + (IF sched = "sending" THEN 1 ELSE 0)
    /\ ~Busy => Active = {}

(* A job is queued once, after NewJob, and taken before its first task is.   *)
Outside == {"new", "checked", "refused", "panic"}

QueueInv ==
    /\ IsInjective(queue)
    /\ \A j \in Jobs : j \in ToSet(queue) \/ caller[j] \in Outside =>
          taken[j] = 0 /\ result[j] = NoResult /\ ~(Busy /\ cur = j)
    /\ \A j \in ToSet(queue) : caller[j] \notin Outside
    /\ Busy => cur \in Jobs /\ result[cur] = NoResult

(* The tasks of the job in order: those handed to a worker are verified or   *)
(* in work unless one has failed, the others wait; the caller adds none once *)
(* the scheduler waits for the last ones.                                    *)
Handed == taken[cur] - (IF sched = "sending" THEN 1 ELSE 0)

TasksInv ==
    /\ \A j \in Jobs : taken[j] <= Len(given[j])
    /\ sched = "sending" => taken[cur] > 0
    /\ sched = "wait" => taken[cur] = Len(given[cur]) /\ caller[cur] = "closed"
    /\ \A w \in Active : held[w] \subseteq Signatures(cur)
    /\ Busy /\ err = Nil => \A k \in 1 .. Handed :
          given[cur][k] \subseteq verified \cup UNION {held[w] : w \in Active}

WorkersInv == PoolTypeOK /\ ErrorIsOwn /\ CountInv /\ QueueInv /\ TasksInv
=============================================================================
