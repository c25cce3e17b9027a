------------------------------ MODULE Executor ------------------------------
(***************************************************************************)
(* The executor that runs the transactions of a block in parallel          *)
(* (internal/executor).  One goroutine calls Run for each task in block    *)
(* order and finally Wait; a pool of workers takes tasks whose             *)
(* dependencies are all executed.                                          *)
(*                                                                         *)
(* Simplifications:                                                        *)
(*  - a task is its position in the block, what it does is one step        *)
(*    between its start and its end;                                       *)
(*  - `executable' is a set: nothing relies on the order of the channel,   *)
(*    whose buffer holds every task of the block;                          *)
(*  - a worker is not identified, only how many of them are busy;          *)
(*  - the part of Run that handles one key holds the lock of the task it   *)
(*    finds, and so does each part of runTask that reads or changes it, so *)
(*    each is one step; the nested lock of a reader needs no step of its   *)
(*    own, a reader cannot get past the lock that is held;                 *)
(*  - dependsOn keeps Run's local set `dependencies' after Run returned.   *)
(***************************************************************************)
EXTENDS Integers, FiniteSets

CONSTANTS
    N,                  \* tasks of the block
    Keys,
    Plans,              \* what the tasks may need: state.Keys of each task
    MayFail,            \* the tasks that may return an error
    Concurrency,        \* worker goroutines
    MaxDependencies

Tasks == 1 .. N
None == 0

ASSUME SizeAssumption == N \in Nat /\ Concurrency \in Nat \ {0}
(* "It is assumed that no single task has more than [maxDependencies]"       *)
ASSUME DependencyAssumption == MaxDependencies \in Nat /\ MaxDependencies > N
ASSUME PlanAssumption ==
    Plans \subseteq [Tasks -> [Keys -> {"none", "read", "write"}]]

ASSUME FailureAssumption == MayFail \subseteq Tasks

VARIABLES
    plan,           \* the permissions of each task on each key
    failing,        \* the tasks that return an error when they run
    runPc,          \* where the goroutine that calls Run and Wait is
    current,        \* the last task given to Run
    keysLeft,       \* its keys that Run has not handled
    dependsOn,      \* Run's set of dependencies, kept for each task
    nodes,          \* Executor.nodes
    reading,        \* task.reading
    readers,        \* task.readers
    blocked,        \* task.blocked
    executed,       \* task.executed
    dependencies,   \* task.dependencies
    executable,     \* the channel of tasks to run
    taskPc,         \* where the worker that took the task is
    err             \* Executor.err

caller == <<runPc, current, keysLeft, dependsOn>>
graph == <<nodes, reading, readers, blocked, executed, dependencies>>
work == <<executable, taskPc>>
vars == <<plan, failing, caller, graph, work, err>>

(* The dependencies of a task that are not executed.                         *)
Pending(t) == {d \in dependsOn[t] : ~executed[d]}

Access(t, k) == plan[t][k] # "none"
ConflictOn(t, u, k) == /\ Access(t, k) /\ Access(u, k)
                       /\ plan[t][k] = "write" \/ plan[u][k] = "write"
Conflict(t, u) == \E k \in Keys : ConflictOn(t, u, k)

Started(t) == taskPc[t] # "none"
Returned(t) == taskPc[t] \in {"clear", "done"}
Done(t) == taskPc[t] = "done"
Outstanding == {t \in 1 .. current : ~Done(t)}
Busy == {t \in Tasks : taskPc[t] \in {"run", "clear"}}

Init ==
    /\ plan \in Plans
    /\ failing \in SUBSET MayFail
    /\ runPc = "idle" /\ current = 0 /\ keysLeft = {}
    /\ dependsOn = [t \in Tasks |-> {}]
    /\ nodes = [k \in Keys |-> None]
    /\ reading = [t \in Tasks |-> {}]
    /\ readers = [t \in Tasks |-> {}]
    /\ blocked = [t \in Tasks |-> {}]
    /\ executed = [t \in Tasks |-> FALSE]
    /\ dependencies = [t \in Tasks |-> 0]
    /\ executable = {} /\ taskPc = [t \in Tasks |-> "none"]
    /\ err = "nil"

-----------------------------------------------------------------------------
(* Executor.Run                                                              *)

(* The counter starts above any number of dependencies.                      *)
Run ==
    /\ runPc = "idle" /\ current < N
    /\ current' = current + 1
    /\ keysLeft' = {k \in Keys : Access(current + 1, k)}
    /\ dependencies' = [dependencies EXCEPT ![current + 1] = MaxDependencies]
    /\ runPc' = "keys"
    /\ UNCHANGED <<plan, failing, dependsOn, nodes, reading, readers, blocked,
                   executed, work, err>>

RunKey(k) == runPc = "keys" /\ k \in keysLeft /\ keysLeft' = keysLeft \ {k}

(* The tasks in D block the current one until they are executed.             *)
BlockOn(D) ==
    /\ blocked' = [t \in Tasks |->
           IF t \in D THEN blocked[t] \cup {current} ELSE blocked[t]]
    /\ dependsOn' = [dependsOn EXCEPT ![current] = @ \cup D]

(* Nobody has used the key yet.                                              *)
RunFirst(k) ==
    /\ RunKey(k)
    /\ nodes[k] = None
    /\ nodes' = [nodes EXCEPT ![k] = current]
    /\ UNCHANGED <<plan, failing, runPc, current, dependsOn, reading, readers,
                   blocked, executed, dependencies, work, err>>

(* Mutant: the last task is a dependency even if it is executed.             *)
LastAlways(k) == {nodes[k]}

(* The last task, if it is not executed.                                     *)
Last(k) == {t \in {nodes[k]} : ~executed[t]}

(* Non-exclusive access: a reader of the last task with exclusive access,    *)
(* or of the first reader.                                                   *)
RunRead(k) ==
    /\ RunKey(k)
    /\ nodes[k] # None /\ plan[current][k] = "read"
    /\ reading' = [reading EXCEPT ![current] = @ \cup {nodes[k]}]
    /\ readers' = [readers EXCEPT ![nodes[k]] = @ \cup {current}]
    /\ BlockOn(Last(k))
    /\ UNCHANGED <<plan, failing, runPc, current, nodes, executed,
                   dependencies, work, err>>

(* Mutant: the task does not wait for the readers.                           *)
RunWriteForgetsReaders(k) ==
    /\ RunKey(k)
    /\ nodes[k] # None /\ plan[current][k] = "write"
    /\ BlockOn(Last(k))
    /\ nodes' = [nodes EXCEPT ![k] = current]
    /\ UNCHANGED <<plan, failing, runPc, current, reading, readers, executed,
                   dependencies, work, err>>

(* Exclusive access: after the last task and all its readers.                *)
RunWrite(k) ==
    /\ RunKey(k)
    /\ nodes[k] # None /\ plan[current][k] = "write"
    /\ BlockOn(Last(k) \cup (readers[nodes[k]] \ {current}))
    /\ nodes' = [nodes EXCEPT ![k] = current]
    /\ UNCHANGED <<plan, failing, runPc, current, reading, readers, executed,
                   dependencies, work, err>>

(* The counter is adjusted to the real number of dependencies; without any   *)
(* that is not executed, the task goes to the workers at once.               *)
RunAdjust ==
    /\ runPc = "keys" /\ keysLeft = {}
    /\ LET left == dependencies[current]
                     - (MaxDependencies - Cardinality(dependsOn[current]))
       IN  /\ dependencies' = [dependencies EXCEPT ![current] = left]
           /\ executable' = IF left > 0 THEN executable
                                        ELSE executable \cup {current}
    /\ runPc' = "idle"
    /\ UNCHANGED <<plan, failing, current, keysLeft, dependsOn, nodes, reading,
                   readers, blocked, executed, taskPc, err>>

-----------------------------------------------------------------------------
(* A worker: Executor.work and runTask.                                      *)

Take(t) == /\ t \in executable
           /\ Cardinality(Busy) < Concurrency
           /\ executable' = executable \ {t}

(* The task is started, or skipped after an error of another task.           *)
Start(t) ==
    /\ Take(t)
    /\ taskPc' = [taskPc EXCEPT ![t] = IF err = "nil" THEN "run" ELSE "clear"]
    /\ UNCHANGED <<plan, failing, caller, graph, err>>

(* f returns; the first error is kept.                                       *)
Finish(t) ==
    /\ taskPc[t] = "run"
    /\ err' = IF t \in failing /\ err = "nil" THEN "task" ELSE err
    /\ taskPc' = [taskPc EXCEPT ![t] = "clear"]
    /\ UNCHANGED <<plan, failing, caller, graph, executable>>

(* The task takes itself out of the readers of u.                            *)
ClearReading(t, u) ==
    /\ taskPc[t] = "clear" /\ u \in reading[t]
    /\ readers' = [readers EXCEPT ![u] = @ \ {t}]
    /\ reading' = [reading EXCEPT ![t] = @ \ {u}]
    /\ UNCHANGED <<plan, failing, caller, nodes, blocked, executed,
                   dependencies, work, err>>

(* The blocked tasks lose a dependency; those without any become executable. *)
Release(t) ==
    /\ taskPc[t] = "clear" /\ reading[t] = {}
    /\ dependencies' = [b \in Tasks |-> IF b \in blocked[t]
                                        THEN dependencies[b] - 1
                                        ELSE dependencies[b]]
    /\ executable' = executable \cup
                     {b \in blocked[t] : dependencies[b] - 1 <= 0}
    /\ blocked' = [blocked EXCEPT ![t] = {}]
    /\ executed' = [executed EXCEPT ![t] = TRUE]
    /\ taskPc' = [taskPc EXCEPT ![t] = "done"]
    /\ UNCHANGED <<plan, failing, caller, nodes, reading, readers, err>>

-----------------------------------------------------------------------------
(* The caller may stop the execution at any time ...                         *)
Stop ==
    /\ runPc # "done" /\ err = "nil"
    /\ err' = "stopped"
    /\ UNCHANGED <<plan, failing, caller, graph, work>>

(* ... and finally calls Wait.                                               *)
Wait ==
    /\ runPc = "idle"
    /\ runPc' = "waiting"
    /\ UNCHANGED <<plan, failing, current, keysLeft, dependsOn, graph, work, err>>

WaitDone ==
    /\ runPc = "waiting" /\ Outstanding = {}
    /\ runPc' = "done"
    /\ UNCHANGED <<plan, failing, current, keysLeft, dependsOn, graph, work, err>>

Caller == \/ Run \/ RunAdjust \/ Wait \/ WaitDone
          \/ \E k \in Keys : RunFirst(k) \/ RunRead(k) \/ RunWrite(k)

Worker(t) == \/ Start(t) \/ Finish(t) \/ Release(t)
             \/ \E u \in Tasks : ClearReading(t, u)

Next == Caller \/ Stop \/ \E t \in Tasks : Worker(t)

Spec == Init /\ [][Next]_vars

-----------------------------------------------------------------------------
(* The types; the counter of dependencies is never negative.                 *)
TypeOK ==
    /\ plan \in [Tasks -> [Keys -> {"none", "read", "write"}]]
    /\ failing \subseteq Tasks
    /\ runPc \in {"idle", "keys", "waiting", "done"}
    /\ current \in 0 .. N /\ keysLeft \subseteq Keys
    /\ runPc = "keys" => /\ current \in Tasks
                         /\ \A k \in keysLeft : Access(current, k)
    /\ dependsOn \in [Tasks -> SUBSET Tasks]
    /\ nodes \in [Keys -> Tasks \cup {None}]
    /\ reading \in [Tasks -> SUBSET Tasks]
    /\ readers \in [Tasks -> SUBSET Tasks]
    /\ blocked \in [Tasks -> SUBSET Tasks]
    /\ executed \in [Tasks -> BOOLEAN]
    /\ dependencies \in [Tasks -> Nat]
    /\ executable \subseteq Tasks
    /\ taskPc \in [Tasks -> {"none", "run", "clear", "done"}]
    /\ err \in {"nil", "task", "stopped"}

(* "Executor ensures that conflicting tasks are executed in the order they   *)
(* were queued": when a task starts, every conflicting task before it has    *)
(* returned, or is never going to run.                                       *)
ConflictOrder ==
    \A t, u \in Tasks : u < t /\ Conflict(u, t) /\ Started(t) => Returned(u)

(* "tasks should not be added to [blocked] after the task has been           *)
(* executed": nobody would release them.                                     *)
NeverBlockedOnExecuted == \A t \in Tasks : executed[t] => blocked[t] = {}

(* "If a task is a reader, that means it is not executed yet", which is why  *)
(* a writer may add itself to the blocked set of every reader.               *)
ReadersNotExecuted == \A t \in Tasks : \A r \in readers[t] : ~executed[r]

(* The counter of a task is the number of its dependencies that are still    *)
(* not executed, so a task is released exactly once.                         *)
CountersExact ==
    \A t \in 1 .. current :
        ~(t = current /\ runPc = "keys") =>
            dependencies[t] = Cardinality(Pending(t))

(* Whether a block is rejected does not depend on the schedule: unless the   *)
(* caller stopped it, Wait returns an error iff some task fails.             *)
VerdictIsDeterministic ==
    runPc = "done" /\ err # "stopped" =>
        (err = "task" <=> failing \cap 1 .. current # {})

-----------------------------------------------------------------------------
(* The inductive invariant behind ConflictOrder.                             *)

(* Run has handled the key k of the task t.                                  *)
Handled(t, k) == /\ t \in 1 .. current /\ Access(t, k)
                 /\ ~(t = current /\ runPc = "keys" /\ k \in keysLeft)

(* The last task with exclusive access, or the first reader, stands for all  *)
(* the earlier ones, and the readers after it are registered with it.        *)
NodeInv ==
    \A k \in Keys :
        /\ nodes[k] = None => \A t \in Tasks : ~Handled(t, k)
        /\ nodes[k] # None =>
            /\ Handled(nodes[k], k)
            /\ \A v \in Tasks : Handled(v, k) /\ v < nodes[k] =>
                                    plan[nodes[k]][k] = "write"
            /\ \A v \in Tasks : Handled(v, k) /\ v > nodes[k] =>
                                    /\ plan[v][k] = "read"
                                    /\ v \in readers[nodes[k]] \/ Returned(v)

(* An earlier conflicting task has returned, is a dependency, or is one that *)
(* a dependency waits for.                                                   *)
OrderInv ==
    \A t, u \in Tasks, k \in Keys :
        u < t /\ Handled(t, k) /\ ConflictOn(u, t, k) =>
            \/ Returned(u)
            \/ u \in dependsOn[t]
            \/ \E d \in dependsOn[t] : u < d /\ ConflictOn(u, d, k)

ReaderInv ==
    \A t, r \in Tasks : /\ r \in readers[t] => r \in 1 .. current /\ t < r
                        /\ r \in readers[t] <=> t \in reading[r]
                        /\ r \in readers[t] => ~Done(r)

(* A task waits exactly for the dependencies that are not executed.          *)
BlockInv ==
    \A t, d \in Tasks :
        /\ d \in dependsOn[t] => d < t /\ t <= current
        /\ t \in blocked[d] <=> d \in dependsOn[t] /\ ~executed[d]

Adjusted(t) == t \in 1 .. current /\ ~(t = current /\ runPc = "keys")

CountInv ==
    \A t \in Tasks :
        /\ Adjusted(t) => dependencies[t] = Cardinality(Pending(t))
        /\ t = current /\ runPc = "keys" =>
               dependencies[t] =
                   MaxDependencies - Cardinality(dependsOn[t] \ Pending(t))

(* A task is with the workers once all its dependencies are executed.        *)
ReleaseInv ==
    \A t \in Tasks :
        /\ executed[t] <=> Done(t)
        /\ t \in executable \/ Started(t) =>
               Adjusted(t) /\ \A d \in dependsOn[t] : executed[d]
        /\ t \in executable => ~Started(t)

(* As long as there is no error no task has failed or was skipped.           *)
VerdictInv ==
    /\ err = "nil" => \A t \in failing : ~Returned(t)
    /\ err = "task" => failing \cap 1 .. current # {}
    /\ runPc = "done" => \A t \in 1 .. current : Done(t)

OrderedInv ==
    /\ TypeOK
    /\ NodeInv
    /\ OrderInv
    /\ ReaderInv
    /\ BlockInv
    /\ CountInv
    /\ ReleaseInv
    /\ ConflictOrder

ExecutorInv == OrderedInv /\ VerdictInv
=============================================================================
