------------------------------ MODULE Fetcher ------------------------------
(***************************************************************************)
(* The fetcher that reads the state keys of a block ahead of its           *)
(* transactions (internal/fetcher): Fetch registers the keys of a          *)
(* transaction and sends a task for each key that nobody has asked for,    *)
(* workers read the keys, and Get waits until those of its transaction     *)
(* are there.                                                              *)
(*                                                                         *)
(* Simplifications:                                                        *)
(*  - the value of a key is left out: a key is cached or it is not;        *)
(*  - the keys of a transaction differ, and it sends their tasks in any    *)
(*    order;                                                               *)
(*  - an error is stored and `stop' closed in one step: who sees only the  *)
(*    error returns it, as who sees both.                                  *)
(***************************************************************************)
EXTENDS Integers, FiniteSets

CONSTANTS
    Txs,
    Keys,
    Plans,          \* the keys each transaction may need, in [Txs -> SUBSET Keys]
    BadKeys,        \* the keys that data may fail to read, a subset of Keys
    Workers         \* the goroutines of runWorker

VARIABLES
    plan,           \* member of Plans
    keyState,       \* Fetcher.keys: "unknown", "pending" or "cached"
    blocked,        \* key.blocked
    blockers,       \* tx.blockers
    waiter,         \* tx.waiter: "nil", "open" or "closed"
    fetchPc,        \* where Fetch of a transaction is
    toSend,         \* its tasks that are not sent
    getPc,          \* where Get of a transaction is
    tasks,          \* the channel of tasks, of one place for each transaction
    worker,         \* "idle", "busy" or "gone"
    held,           \* the set of the keys a worker reads: one or none
    err,            \* Fetcher.err; `stop' is closed when there is one
    waitPc          \* where Wait is

index == <<keyState, blocked, blockers, waiter>>
calls == <<fetchPc, toSend, getPc>>
pool == <<worker, held>>
vars == <<plan, index, calls, tasks, pool, err, waitPc>>

stopped == err # "nil"
Needs(t) == plan[t]
Missing(t) == {k \in Needs(t) : keyState[k] # "cached"}

Init ==
    /\ plan \in Plans
    /\ keyState = [k \in Keys |-> "unknown"] /\ blocked = [k \in Keys |-> {}]
    /\ blockers = [t \in Txs |-> 0] /\ waiter = [t \in Txs |-> "nil"]
    /\ fetchPc = [t \in Txs |-> "new"] /\ toSend = [t \in Txs |-> {}]
    /\ getPc = [t \in Txs |-> "none"]
    /\ tasks = {} /\ worker = [w \in Workers |-> "idle"]
    /\ held = [w \in Workers |-> {}]
    /\ err = "nil" /\ waitPc = "none"

-----------------------------------------------------------------------------
(* Fetch                                                                     *)

(* There is an error already.                                                *)
FetchFails(t) ==
    /\ fetchPc[t] = "new" /\ waitPc = "none"
    /\ stopped
    /\ fetchPc' = [fetchPc EXCEPT ![t] = "failed"]
    /\ UNCHANGED <<plan, index, toSend, getPc, tasks, pool, err, waitPc>>

RegisterWith(t, fresh, wait) ==
    /\ fetchPc[t] = "new" /\ waitPc = "none"
    /\ ~stopped
    /\ keyState' = [k \in Keys |-> IF k \in fresh THEN "pending" ELSE keyState[k]]
    /\ blocked' = [k \in Keys |-> IF k \in wait THEN blocked[k] \cup {t} ELSE blocked[k]]
    /\ blockers' = [blockers EXCEPT ![t] = Cardinality(wait)]
    /\ waiter' = [waiter EXCEPT ![t] = IF wait = {} THEN "nil" ELSE "open"]
    /\ toSend' = [toSend EXCEPT ![t] = fresh]
    /\ fetchPc' = [fetchPc EXCEPT ![t] = "send"]
    /\ UNCHANGED <<plan, getPc, tasks, pool, err, waitPc>>

(* Under the lock, the transaction is registered with every key that is not  *)
(* cached; it has to send the tasks of the keys that are new.                *)
Register(t) == RegisterWith(t, {k \in Needs(t) : keyState[k] = "unknown"}, Missing(t))

Send(t, k) ==
    /\ fetchPc[t] = "send" /\ k \in toSend[t]
    /\ Cardinality(tasks) < Cardinality(Txs)
    /\ tasks' = tasks \cup {k}
    /\ toSend' = [toSend EXCEPT ![t] = @ \ {k}]
    /\ UNCHANGED <<plan, index, fetchPc, getPc, pool, err, waitPc>>

SendStopped(t) ==
    /\ fetchPc[t] = "send" /\ toSend[t] # {}
    /\ stopped
    /\ fetchPc' = [fetchPc EXCEPT ![t] = "failed"]
    /\ UNCHANGED <<plan, index, toSend, getPc, tasks, pool, err, waitPc>>

FetchReturns(t) ==
    /\ fetchPc[t] = "send" /\ toSend[t] = {}
    /\ fetchPc' = [fetchPc EXCEPT ![t] = "fetched"]
    /\ UNCHANGED <<plan, index, toSend, getPc, tasks, pool, err, waitPc>>

-----------------------------------------------------------------------------
(* Get                                                                       *)

GetStep(t, to) ==
    /\ fetchPc[t] = "fetched" /\ getPc[t] = "none"
    /\ getPc' = [getPc EXCEPT ![t] = to]
    /\ UNCHANGED <<plan, index, fetchPc, toSend, tasks, pool, err, waitPc>>

(* The keys are there.                                                       *)
GetStorage(t) == GetStep(t, "storage") /\ waiter[t] \in {"nil", "closed"}

(* The fetcher stopped.  If the keys are there as well, either may happen.   *)
GetError(t) == GetStep(t, "error") /\ waiter[t] # "nil" /\ stopped

-----------------------------------------------------------------------------
(* The workers                                                               *)

TakeTask(w, k) ==
    /\ worker[w] = "idle" /\ k \in tasks
    /\ tasks' = tasks \ {k}
    /\ worker' = [worker EXCEPT ![w] = "busy"]
    /\ held' = [held EXCEPT ![w] = {k}]
    /\ UNCHANGED <<plan, index, calls, err, waitPc>>

(* The key was read, or does not exist: who waits for it has one key less to *)
(* wait for, and with the last of them its waiter is closed.                 *)
SetKey(w, k) ==
    /\ worker[w] = "busy" /\ k \in held[w]
    /\ keyState' = [keyState EXCEPT ![k] = "cached"]
    /\ blockers' = [t \in Txs |-> IF t \in blocked[k] THEN blockers[t] - 1 ELSE blockers[t]]
    /\ waiter' = [t \in Txs |-> IF t \in blocked[k] /\ blockers[t] = 1
                                THEN "closed" ELSE waiter[t]]
    /\ blocked' = [blocked EXCEPT ![k] = {}]
    /\ worker' = [worker EXCEPT ![w] = "idle"]
    /\ held' = [held EXCEPT ![w] = {}]
    /\ UNCHANGED <<plan, calls, tasks, err, waitPc>>

(* handleErr stores an error once, and never after Wait.                     *)
HandleErr(e) == err' = IF err = "nil" /\ waitPc # "done" THEN e ELSE err

(* A read fails: the worker returns.                                         *)
ReadFails(w, k) ==
    /\ worker[w] = "busy" /\ k \in held[w] \cap BadKeys
    /\ HandleErr("read")
    /\ worker' = [worker EXCEPT ![w] = "gone"]
    /\ held' = [held EXCEPT ![w] = {}]
    /\ UNCHANGED <<plan, index, calls, tasks, waitPc>>

(* The channel of tasks is closed and drained, or `stop' is closed.          *)
WorkerReturns(w) ==
    /\ worker[w] = "idle"
    /\ stopped \/ (waitPc # "none" /\ tasks = {})
    /\ worker' = [worker EXCEPT ![w] = "gone"]
    /\ UNCHANGED <<plan, index, calls, tasks, held, err, waitPc>>

-----------------------------------------------------------------------------
Stop ==
    /\ ~stopped
    /\ HandleErr("stopped")
    /\ UNCHANGED <<plan, index, calls, tasks, pool, waitPc>>

(* Wait closes the channel of tasks; there is no Fetch at that time ...      *)
Wait ==
    /\ waitPc = "none" /\ \A t \in Txs : fetchPc[t] # "send"
    /\ waitPc' = "waiting"
    /\ UNCHANGED <<plan, index, calls, tasks, pool, err>>

(* ... and returns when all workers have.                                    *)
WaitReturn ==
    /\ waitPc = "waiting" /\ \A w \in Workers : worker[w] = "gone"
    /\ waitPc' = "done"
    /\ UNCHANGED <<plan, index, calls, tasks, pool, err>>

-----------------------------------------------------------------------------
FetchStep(t) ==
    SendStopped(t) \/ FetchReturns(t) \/ \E k \in Keys : Send(t, k)

GetReturn(t) == GetStorage(t) \/ GetError(t)

WorkerStep(w) ==
    \/ WorkerReturns(w)
    \/ \E k \in Keys : TakeTask(w, k) \/ SetKey(w, k) \/ ReadFails(w, k)

Next ==
    \/ \E t \in Txs : FetchFails(t) \/ Register(t) \/ FetchStep(t) \/ GetReturn(t)
    \/ \E w \in Workers : WorkerStep(w)
    \/ Stop \/ Wait \/ WaitReturn

Spec == Init /\ [][Next]_vars

-----------------------------------------------------------------------------
(* Properties                                                                *)

(* The variables have their types.                                           *)
TypeOK ==
    /\ plan \in Plans
    /\ keyState \in [Keys -> {"unknown", "pending", "cached"}]
    /\ blocked \in [Keys -> SUBSET Txs]
    /\ blockers \in [Txs -> Nat] /\ waiter \in [Txs -> {"nil", "open", "closed"}]
    /\ fetchPc \in [Txs -> {"new", "send", "fetched", "failed"}]
    /\ toSend \in [Txs -> SUBSET Keys]
    /\ getPc \in [Txs -> {"none", "storage", "error"}]
    /\ tasks \subseteq Keys /\ Cardinality(tasks) <= Cardinality(Txs)
    /\ worker \in [Workers -> {"idle", "busy", "gone"}]
    /\ held \in [Workers -> SUBSET Keys]
    /\ err \in {"nil", "read", "stopped"} /\ waitPc \in {"none", "waiting", "done"}

(* The counter of a registered transaction is the number of its keys that    *)
(* are not cached, its waiter is open exactly when there is one, and each of *)
(* these keys knows the transaction: no wake-up is lost between Fetch of one *)
(* transaction and the read of a key it shares with another.                 *)
BlockersExact ==
    \A t \in Txs : fetchPc[t] \in {"send", "fetched"} =>
        /\ blockers[t] = Cardinality(Missing(t))
        /\ waiter[t] = "open" <=> Missing(t) # {}
        /\ \A k \in Missing(t) : keyState[k] = "pending" /\ t \in blocked[k]

(* Storage that Get returns is complete: a transaction never runs on state   *)
(* that lacks one of its keys because it has not been read.                  *)
StorageIsComplete == \A t \in Txs : getPc[t] = "storage" => Missing(t) = {}

(* Where a key is on its way.                                                *)
Sending(k) == {t \in Txs : k \in toSend[t]}
Reading(k) == {w \in Workers : k \in held[w]}
Places(k) == Cardinality(Sending(k)) + Cardinality(Reading(k))
                 + (IF k \in tasks THEN 1 ELSE 0)

(* A key is on its way once, from the Fetch that is to send it to the worker *)
(* that reads it, and not when it is cached: "Duplicate keys are only        *)
(* fetched once."                                                            *)
FetchedOnce ==
    \A k \in Keys : IF keyState[k] = "pending"
                    THEN Places(k) <= 1 /\ (stopped \/ Places(k) = 1)
                    ELSE Places(k) = 0

(* What makes them inductive: a transaction is registered only with keys of  *)
(* its own that are on their way, and its counter is the number of these,    *)
(* also after an error ...                                                   *)
Registered(t) == {k \in Keys : t \in blocked[k]}

RegisterInv ==
    \A t \in Txs :
        /\ Registered(t) \subseteq {k \in Needs(t) : keyState[k] = "pending"}
        /\ blockers[t] = Cardinality(Registered(t))
        /\ waiter[t] = "open" <=> Registered(t) # {}
        /\ fetchPc[t] \in {"send", "fetched"} => Missing(t) \subseteq Registered(t)
        /\ fetchPc[t] = "new" => Registered(t) = {} /\ toSend[t] = {}
        /\ fetchPc[t] = "failed" \/ getPc[t] = "error" => stopped
        /\ getPc[t] # "none" => fetchPc[t] = "fetched"

(* ... and a worker that is not reading holds no key.                        *)
PoolInv ==
    /\ \A w \in Workers : IF worker[w] = "busy" THEN \E k \in Keys : held[w] = {k}
                                                ELSE held[w] = {}
    /\ waitPc = "done" => \A w \in Workers : worker[w] = "gone"

FetcherInv ==
    /\ TypeOK
    /\ BlockersExact
    /\ StorageIsComplete
    /\ FetchedOnce
    /\ RegisterInv
    /\ PoolInv
=============================================================================
