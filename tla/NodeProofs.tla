----------------------------- MODULE NodeProofs -----------------------------
(***************************************************************************)
(* A node in normal operation, from the transactions it collects to the    *)
(* blocks it accepts.                                                      *)
(*                                                                         *)
(* The acceptance pipeline, for every queue size, cache size and bound:    *)
(* PositionInv is inductive, DeliveryInv is inductive relative to it, the  *)
(* safety properties of AcceptPipeline follow from the two, and the        *)
(* pipeline implements AcceptedLog.                                        *)
(*                                                                         *)
(* The mempool and the gossiper, for any items, sponsors, limits and       *)
(* batches: MempoolInv is inductive, with the places where the builder has *)
(* items in hand (StreamInv) as its strengthening.  The steps are proved   *)
(* about Held, which says the same of each of these places separately; the *)
(* lemmas before them say what Among, Restore, TakeOut and FirstItems do   *)
(* to the items of a queue and to the places its sponsors own.             *)
(***************************************************************************)
EXTENDS AcceptPipeline, Gossiper, FiniteSetTheorems, SequenceTheorems,
        WellFoundedInduction, TLAPS

-----------------------------------------------------------------------------
(* The acceptance pipeline                                                   *)

LEMMA InitInv == Init => PositionInv
  BY QueueAssumption, CacheAssumption, BoundAssumption
     DEF Init, PositionInv, TypeOK, Heights, Phases, EnginePcs, AccepterPcs, Up,
         DiskInv, GenesisInv, GenesisOnce

(* The steps of the consensus thread.                                        *)
LEMMA EngineStep == PositionInv /\ Engine => PositionInv'
<1> USE QueueAssumption, CacheAssumption, BoundAssumption
        DEF PositionInv, TypeOK, Heights, Phases, EnginePcs, AccepterPcs, Up,
            GenesisInv, GenesisOnce,
            accepter, history, disk
<1> SUFFICES ASSUME PositionInv, Engine PROVE PositionInv'
  OBVIOUS
<1>1. CASE AcceptIndex
  BY <1>1 DEF AcceptIndex, AccepterInv, QueueInv, EngineInv, Received
<1>2. CASE AcceptQueue
  <2>1. TypeOK'
    BY <1>2 DEF AcceptQueue, EngineInv
  <2>2. AccepterInv' /\ EngineInv'
    BY <1>2 DEF AcceptQueue, AccepterInv, EngineInv
  <2>3. Received' = Received
    BY <1>2 DEF AcceptQueue, Received
  <2>4. QueueInv'
    <3>1. acceptedQueue \in Seq(Nat) /\ acceptedQueue' = Append(acceptedQueue, lastAccepted + 1)
      BY <1>2 DEF AcceptQueue
    <3>2. lastAccepted = Received + Len(acceptedQueue) /\ Received \in Nat
      BY <1>2 DEF AcceptQueue, QueueInv, Received
    <3>3. Len(acceptedQueue') = Len(acceptedQueue) + 1
      BY <3>1
    <3>4. ASSUME NEW i \in 1 .. Len(acceptedQueue')
          PROVE  acceptedQueue'[i] = Received + i
      <4>1. CASE i \in 1 .. Len(acceptedQueue)
        <5>1. acceptedQueue'[i] = acceptedQueue[i]
          BY <3>1, <4>1
        <5> QED  BY <1>2, <4>1, <5>1 DEF AcceptQueue, QueueInv
      <4>2. CASE i = Len(acceptedQueue) + 1
        <5>1. acceptedQueue'[i] = lastAccepted + 1
          BY <3>1, <4>2
        <5> QED  BY <3>2, <4>2, <5>1
      <4> QED  BY <3>3, <4>1, <4>2
    <3>5. Len(acceptedQueue') <= QueueSize
      BY <1>2, <3>1, <3>3 DEF AcceptQueue
    <3>6. Received + Len(acceptedQueue') = lastAccepted' + 1 /\ enginePc' = "publish"
      BY <1>2, <3>2, <3>3 DEF AcceptQueue
    <3> QED  BY <2>3, <3>4, <3>5, <3>6 DEF QueueInv
  <2> QED
    BY <1>2, <2>1, <2>2, <2>4 DEF AcceptQueue
<1>3. CASE AcceptPublish
  <2>1. QueueInv' /\ AccepterInv'
    BY <1>3 DEF AcceptPublish, AccepterInv, QueueInv, Received
  <2>2. lastAccepted - QueueSize <= lastProcessed
    BY <1>3 DEF AcceptPublish, QueueInv, AccepterInv, Received
  <2>3. EngineInv' /\ TypeOK'
    BY <1>3, <2>2 DEF AcceptPublish, EngineInv
  <2> QED
    BY <1>3, <2>1, <2>3 DEF AcceptPublish
<1> QED
  BY <1>1, <1>2, <1>3 DEF Engine

(* The steps of the async accepter.                                          *)
LEMMA AccepterStep == PositionInv /\ Accepter => PositionInv'
<1> USE QueueAssumption, CacheAssumption, BoundAssumption
        DEF PositionInv, TypeOK, Heights, Phases, EnginePcs, AccepterPcs, Up,
            GenesisInv, GenesisOnce,
            engine, history, disk
<1> SUFFICES ASSUME PositionInv, Accepter PROVE PositionInv'
  OBVIOUS
<1>1. CASE Receive
  <2>1. /\ acceptedQueue \in Seq(Nat) /\ Len(acceptedQueue) >= 1
        /\ acceptedQueue' = Tail(acceptedQueue)
        /\ processing' = acceptedQueue[1]
        /\ Received = lastProcessed /\ Received' = processing'
    BY <1>1 DEF Receive, Received
  <2>2. processing' = lastProcessed + 1
    BY <1>1, <2>1 DEF Receive, QueueInv
  <2>3. Len(acceptedQueue') = Len(acceptedQueue) - 1
    BY <2>1
  <2>4. ASSUME NEW i \in 1 .. Len(acceptedQueue')
        PROVE  acceptedQueue'[i] = Received' + i
    <3>1. acceptedQueue'[i] = acceptedQueue[i + 1] /\ i + 1 \in 1 .. Len(acceptedQueue)
      BY <2>1, <2>3
    <3>2. acceptedQueue[i + 1] = Received + (i + 1)
      BY <1>1, <3>1 DEF Receive, QueueInv
    <3> QED  BY <2>1, <2>2, <3>1, <3>2
  <2>5. QueueInv'
    BY <1>1, <2>1, <2>2, <2>3, <2>4 DEF Receive, QueueInv
  <2>6. AccepterInv' /\ EngineInv'
    BY <1>1, <2>2 DEF Receive, AccepterInv, EngineInv
  <2>7. TypeOK'
    <3>1. acceptedQueue' \in Seq(Heights)
      BY <2>1
    <3>2. processing' \in Heights
      BY <2>1
    <3> QED  BY <1>1, <3>1, <3>2 DEF Receive
  <2> QED
    BY <1>1, <2>5, <2>6, <2>7 DEF Receive
<1>2. CASE PutResults
  BY <1>2 DEF PutResults, AccepterInv, QueueInv, EngineInv, Received
<1>3. CASE CommitState
  BY <1>3 DEF CommitState, AccepterInv, QueueInv, EngineInv, Received
<1>4. CASE NotifyAccepted
  BY <1>4 DEF NotifyAccepted, AccepterInv, QueueInv, EngineInv, Received
<1>5. CASE SetLastProcessed
  BY <1>5 DEF SetLastProcessed, AccepterInv, QueueInv, EngineInv, Received
<1> QED
  BY <1>1, <1>2, <1>3, <1>4, <1>5 DEF Accepter

(* What the invariant of a running pipeline says of its stores: this is what *)
(* a crash leaves on disk.                                                   *)
LEMMA RunningDisk ==
    PositionInv /\ Up => /\ stateHeight <= resultsHeight
                        /\ resultsHeight <= stateHeight + 1
                        /\ resultsHeight <= indexHeight
                        /\ indexHeight <= stateHeight + QueueSize + 2
<1> USE QueueAssumption, CacheAssumption, BoundAssumption
        DEF PositionInv, TypeOK, Heights, EnginePcs, AccepterPcs
<1> SUFFICES ASSUME PositionInv, Up
             PROVE  /\ stateHeight <= resultsHeight
                    /\ resultsHeight <= stateHeight + 1
                    /\ resultsHeight <= indexHeight
                    /\ indexHeight <= stateHeight + QueueSize + 2
  OBVIOUS
<1>1. Received <= lastAccepted + 1 /\ lastAccepted <= Received + QueueSize
  BY DEF QueueInv, Received
<1>2. Received <= indexHeight /\ indexHeight <= Received + QueueSize + 1
  BY <1>1 DEF QueueInv, EngineInv, Received
<1> QED
  BY <1>2 DEF AccepterInv, Received

(* Shutdown, crash and restart.                                              *)
LEMMA LifecycleStep ==
    PositionInv /\ (Shutdown \/ ShutdownDone \/ Crash \/ Recovery) => PositionInv'
<1> USE QueueAssumption, CacheAssumption, BoundAssumption
        DEF PositionInv, TypeOK, Heights, Phases, EnginePcs, AccepterPcs, Up,
            GenesisInv, GenesisOnce,
            engine, accepter, history, disk
<1> SUFFICES ASSUME PositionInv, Shutdown \/ ShutdownDone \/ Crash \/ Recovery
             PROVE  PositionInv'
  OBVIOUS
<1>1. CASE Shutdown
  BY <1>1 DEF Shutdown, AccepterInv, QueueInv, EngineInv, Received
<1>2. CASE ShutdownDone
  <2>1. indexHeight = stateHeight /\ resultsHeight = indexHeight
    BY <1>2 DEF ShutdownDone, AccepterInv, QueueInv, EngineInv, Received
  <2> QED
    BY <1>2, <2>1 DEF ShutdownDone, EngineInv, DiskInv
<1>3. CASE Crash
  <2>1. /\ stateHeight <= resultsHeight
        /\ resultsHeight <= stateHeight + 1
        /\ resultsHeight <= indexHeight
        /\ indexHeight <= stateHeight + QueueSize + 2
    BY RunningDisk DEF DiskInv
  <2>2. crashes' # 0 /\ vm' = "down"
    BY <1>3 DEF Crash
  <2>3. <<>> \in Seq(Heights)
    OBVIOUS
  <2> QED
    BY <1>3, <2>1, <2>2, <2>3 DEF Crash, DiskInv
<1>4. CASE RecoverAtTip
  BY <1>4 DEF RecoverAtTip, Restarting, Booting, DiskInv
<1>5. CASE RecoverExecute
  BY <1>5 DEF RecoverExecute, Restarting, Booting, DiskInv
<1>6. CASE RecoverCommit
  BY <1>6 DEF RecoverCommit, DiskInv
<1>7. CASE RecoverFail
  BY <1>7 DEF RecoverFail, Restarting, Booting, DiskInv
<1>8. CASE Start
  BY <1>8 DEF Start, MakeConsensusIndex, DiskInv, AccepterInv, QueueInv,
              EngineInv, Received
<1>9. CASE GenesisCommit
  BY <1>9 DEF GenesisCommit, Booting, DiskInv
<1>10. CASE GenesisIndex
  BY <1>10 DEF GenesisIndex, DiskInv
<1> QED
  BY <1>1, <1>2, <1>3, <1>4, <1>5, <1>6, <1>7, <1>8, <1>9, <1>10 DEF Recovery

LEMMA NextInv == PositionInv /\ [Next]_vars => PositionInv'
<1>1. PositionInv /\ UNCHANGED vars => PositionInv'
  BY DEF vars, disk, engine, accepter, history, PositionInv, TypeOK, Up,
         AccepterInv, QueueInv, EngineInv, DiskInv, GenesisInv, GenesisOnce,
         Received
<1> QED
  BY <1>1, EngineStep, AccepterStep, LifecycleStep DEF Next

LEMMA Positions == Spec => []PositionInv
  BY InitInv, NextInv, PTL DEF Spec

-----------------------------------------------------------------------------
(* Counting the blocks that were not delivered.                              *)

(* More deliveries and a lower tip miss no more blocks.                      *)
LEMMA MissedFewer ==
    ASSUME NEW m \in Int, NEW n \in Int, m <= n, NEW D, NEW E, D \subseteq E
    PROVE  /\ Cardinality((0 .. m) \ E) \in Nat
           /\ Cardinality((0 .. m) \ E) <= Cardinality((0 .. n) \ D)
<1>1. IsFiniteSet((0 .. n) \ D) /\ IsFiniteSet((0 .. m) \ E)
  <2>1. IsFiniteSet(0 .. n) /\ IsFiniteSet(0 .. m)
    BY FS_Interval
  <2> QED
    BY <2>1, FS_Difference
<1>2. (0 .. m) \ E \in SUBSET ((0 .. n) \ D)
  OBVIOUS
<1> QED
  BY <1>1, <1>2, FS_Subset, FS_CardinalityType

(* One block more is one missed block more at most.                          *)
LEMMA MissedOneMore ==
    ASSUME NEW n \in Nat, NEW D
    PROVE  Cardinality((0 .. n) \ D) <= Cardinality((0 .. n - 1) \ D) + 1
<1> DEFINE M == (0 .. n - 1) \ D
<1>1. IsFiniteSet(M) /\ Cardinality(M) \in Nat
  <2>1. IsFiniteSet(0 .. n - 1)
    BY FS_Interval
  <2> QED
    BY <2>1, FS_Difference, FS_CardinalityType
<1>2. IsFiniteSet(M \cup {n}) /\ Cardinality(M \cup {n}) <= Cardinality(M) + 1
  <2> HIDE DEF M
  <2> QED
    BY <1>1, FS_AddElement
<1>3. (0 .. n) \ D \in SUBSET (M \cup {n})
  OBVIOUS
<1>4. Cardinality((0 .. n) \ D) <= Cardinality(M \cup {n})
  BY <1>2, <1>3, FS_Subset
<1>5. Cardinality((0 .. n) \ D) \in Nat /\ Cardinality(M \cup {n}) \in Nat
  BY <1>2, <1>3, FS_Subset, FS_CardinalityType
<1> QED
  BY <1>1, <1>2, <1>4, <1>5

(* The same of the blocks missed in one state.                               *)
LEMMA MissedUpTo ==
    ASSUME NEW m \in Int, NEW n \in Int, m <= n
    PROVE  /\ Cardinality(Missed(m)) \in Nat
           /\ Cardinality(Missed(m)) <= Cardinality(Missed(n))
<1>1. delivered \subseteq delivered
  OBVIOUS
<1> QED
  BY <1>1, MissedFewer, Zenon DEF Missed

LEMMA MissedNext ==
    ASSUME NEW n \in Nat
    PROVE  Cardinality(Missed(n)) <= Cardinality(Missed(n - 1)) + 1
  BY MissedOneMore, Zenon DEF Missed

LEMMA InitDelivery == Init => DeliveryInv
  BY DEF Init, DeliveryInv, Up

(* Receive may start on the next block, nothing else moves what is counted.  *)
LEMMA DeliveryStep == PipelineInv /\ [Next]_vars => DeliveryInv'
<1> USE QueueAssumption, CacheAssumption, BoundAssumption
        DEF TypeOK, Heights, Phases, EnginePcs, AccepterPcs, Up
<1> SUFFICES ASSUME PositionInv, DeliveryInv, [Next]_vars PROVE DeliveryInv'
  BY DEF PipelineInv
<1>1. CASE NotifyAccepted
  <2>1. lastProcessed \in Int /\ lastProcessed <= lastProcessed
        /\ delivered \subseteq delivered'
    BY <1>1 DEF PositionInv, NotifyAccepted
  <2>2. Missed(lastProcessed)' = (0 .. lastProcessed) \ delivered'
    BY <1>1 DEF NotifyAccepted, Missed
  <2>3. /\ Cardinality(Missed(lastProcessed)) \in Nat
        /\ Cardinality(Missed(lastProcessed)') \in Nat
        /\ Cardinality(Missed(lastProcessed)') <= Cardinality(Missed(lastProcessed))
    BY <2>1, <2>2, MissedFewer, Zenon DEF Missed
  <2> QED
    BY <1>1, <2>3 DEF PositionInv, NotifyAccepted, DeliveryInv
<1>2. CASE SetLastProcessed
  <2>1. lastProcessed' = lastProcessed + 1 /\ lastProcessed + 1 \in delivered
    BY <1>2 DEF PositionInv, SetLastProcessed, AccepterInv, DeliveryInv
  <2>2. Missed(lastProcessed)' = Missed(lastProcessed)
    BY <1>2, <2>1 DEF PositionInv, SetLastProcessed, Missed, history
  <2> QED
    BY <1>2, <2>2 DEF PositionInv, SetLastProcessed, DeliveryInv, history
<1>3. CASE ShutdownDone
  <2>1. stateHeight = lastProcessed
    BY <1>3 DEF PositionInv, ShutdownDone, AccepterInv
  <2> QED
    BY <1>3, <2>1 DEF ShutdownDone, DeliveryInv, history, disk, Missed
<1>4. CASE Crash
  <2>1. UNCHANGED <<stateHeight, delivered, genesis>> /\ crashes' = crashes + 1
        /\ vm' = "down"
    BY <1>4 DEF Crash, disk
  <2>2. ASSUME genesis = "indexed" PROVE Cardinality(Missed(stateHeight)) <= crashes + 1
    <3>1. CASE Up
      <4>1. stateHeight - 1 <= lastProcessed /\ lastProcessed \in Nat /\ stateHeight \in Nat
        BY <3>1 DEF PositionInv, AccepterInv
      <4>2. Cardinality(Missed(stateHeight - 1)) <= Cardinality(Missed(lastProcessed))
        BY <4>1, MissedUpTo
      <4>3. Cardinality(Missed(stateHeight)) <= Cardinality(Missed(stateHeight - 1)) + 1
        BY <4>1, MissedNext
      <4>4. /\ Cardinality(Missed(stateHeight)) \in Nat
            /\ Cardinality(Missed(stateHeight - 1)) \in Nat
            /\ Cardinality(Missed(lastProcessed)) \in Nat
        BY <4>1, MissedUpTo
      <4> QED
        BY <3>1, <4>2, <4>3, <4>4 DEF PositionInv, DeliveryInv
    <3>2. CASE vm = "starting"
      <4>1. Cardinality(Missed(stateHeight)) <= Cardinality(Missed(stateHeight - 1)) + 1
        BY MissedNext DEF PositionInv
      <4>2. /\ Cardinality(Missed(stateHeight)) \in Nat
            /\ Cardinality(Missed(stateHeight - 1)) \in Nat
        BY MissedUpTo, SMTT(20) DEF PositionInv
      <4> QED
        BY <3>2, <4>1, <4>2 DEF PositionInv, DeliveryInv
    <3>3. CASE vm = "committing"
      <4>1. Cardinality(Missed(stateHeight)) \in Nat
        BY MissedUpTo DEF PositionInv
      <4> QED
        BY <2>2, <3>3, <4>1 DEF PositionInv, DeliveryInv
    <3>4. vm # "genesis"
      BY <2>2 DEF PositionInv, GenesisInv
    <3> QED
      BY <1>4, <3>1, <3>2, <3>3, <3>4 DEF Crash
  <2> QED
    BY <2>1, <2>2 DEF DeliveryInv, Missed
<1>5. CASE RecoverAtTip
  <2>1. /\ Cardinality(Missed(stateHeight - 1)) <= Cardinality(Missed(stateHeight))
        /\ Cardinality(Missed(stateHeight - 1)) \in Nat
        /\ Cardinality(Missed(stateHeight)) \in Nat
    BY MissedUpTo, SMTT(20) DEF PositionInv
  <2> QED
    BY <1>5, <2>1
       DEF PositionInv, RecoverAtTip, Restarting, Booting, DeliveryInv, Missed, disk
<1>6. CASE RecoverExecute
  BY <1>6 DEF RecoverExecute, Restarting, Booting, DeliveryInv, Missed
<1>7. CASE RecoverCommit
  <2>1. stateHeight' - 1 = stateHeight
    BY <1>7 DEF PositionInv, RecoverCommit, DiskInv
  <2>2. genesis = "indexed"
    BY <1>7 DEF PositionInv, GenesisInv, RecoverCommit
  <2> QED
    BY <1>7, <2>1, <2>2 DEF RecoverCommit, DeliveryInv, Missed, history
<1>8. CASE GenesisCommit
  BY <1>8 DEF GenesisCommit, DeliveryInv
<1>9. CASE GenesisIndex
  <2>1. stateHeight' = 0 /\ crashes' = crashes
    BY <1>9 DEF PositionInv, GenesisIndex, GenesisInv, DiskInv, history
  <2>2. Cardinality(Missed(stateHeight - 1)') = 0
    <3>1. Missed(stateHeight - 1)' = {}
      BY <2>1 DEF Missed
    <3> QED
      BY <3>1, FS_EmptySet
  <2> QED
    BY <1>9, <2>1, <2>2 DEF PositionInv, GenesisIndex, DeliveryInv
<1>10. CASE Start
  <2>1. Missed(lastProcessed)' = Missed(stateHeight - 1)
    BY <1>10 DEF PositionInv, DiskInv, Start, MakeConsensusIndex, Missed
  <2>2. accepterPc' = "idle"
    BY <1>10 DEF PositionInv, DiskInv, Start
  <2> QED
    BY <1>10, <2>1, <2>2 DEF Start, DeliveryInv
<1> QED
  <2>1. CASE AcceptIndex \/ AcceptQueue \/ AcceptPublish \/ Shutdown
    BY <2>1 DEF AcceptIndex, AcceptQueue, AcceptPublish, Shutdown, DeliveryInv,
                Missed, accepter, history, disk
  <2>2. CASE Receive \/ PutResults \/ CommitState
    BY <2>2 DEF Receive, PutResults, CommitState, DeliveryInv, Missed, history
  <2>3. CASE RecoverFail
    BY <2>3 DEF RecoverFail, DeliveryInv
  <2>4. CASE UNCHANGED vars
    BY <2>4 DEF vars, disk, accepter, history, DeliveryInv, Missed
  <2> QED
    BY <1>1, <1>2, <1>3, <1>4, <1>5, <1>6, <1>7, <1>8, <1>9, <1>10,
       <2>1, <2>2, <2>3, <2>4 DEF Next, Engine, Accepter, Recovery

(* PipelineInv holds in every reachable state, for every instance.           *)
THEOREM PipelineInvariant == Spec => []PipelineInv
<1>1. Init => PipelineInv
  BY InitInv, InitDelivery DEF PipelineInv
<1>2. PipelineInv /\ [Next]_vars => PipelineInv'
  BY NextInv, DeliveryStep DEF PipelineInv
<1> QED
  BY <1>1, <1>2, PTL DEF Spec

-----------------------------------------------------------------------------
(* The stores and the program points keep their types.                       *)
THEOREM TypeCorrect == Spec => []TypeOK
<1>1. PositionInv => TypeOK
  BY DEF PositionInv
<1> QED
  BY <1>1, Positions, PTL

(* State and results are never ahead of the persisted index.                 *)
THEOREM Persisted == Spec => []PersistedFirst
<1>1. PositionInv => PersistedFirst
  BY RunningDisk DEF PositionInv, DiskInv, PersistedFirst
<1> QED
  BY <1>1, Positions, PTL

(* A restart finds at most QueueSize + 2 accepted blocks not executed.       *)
THEOREM LeadBounded == Spec => []IndexLeadBounded
<1>1. PositionInv => IndexLeadBounded
  <2> SUFFICES ASSUME PositionInv PROVE IndexLeadBounded
    OBVIOUS
  <2>1. indexHeight <= stateHeight + QueueSize + 2
    BY RunningDisk DEF PositionInv, DiskInv
  <2> QED
    BY <2>1, QueueAssumption, BoundAssumption
       DEF PositionInv, TypeOK, Heights, IndexLeadBounded
<1> QED
  BY <1>1, Positions, PTL

(* With CacheSize >= QueueSize + 2 the accepter finds an accepted parent.    *)
THEOREM ParentIsAccepted == Spec => []ParentAccepted
<1>1. PositionInv => ParentAccepted
  BY QueueAssumption, CacheAssumption, BoundAssumption
     DEF PositionInv, TypeOK, Heights, Up, ParentAccepted, AccepterInv,
         QueueInv, EngineInv, Received
<1> QED
  BY <1>1, Positions, PTL

(* The processed frontier passes the accepted one only within an Accept.     *)
THEOREM FrontierOrder == Spec => []ProcessedAheadOnlyInAccept
<1>1. PositionInv => ProcessedAheadOnlyInAccept
  BY QueueAssumption, BoundAssumption
     DEF PositionInv, TypeOK, Heights, Up, EnginePcs, AccepterPcs,
         ProcessedAheadOnlyInAccept, AccepterInv, QueueInv, Received
<1> QED
  BY <1>1, Positions, PTL

(* Graceful shutdowns always leave a state the node starts from.             *)
THEOREM GracefulRestarts == Spec => []GracefulRestart
<1>1. PositionInv => GracefulRestart
  BY DEF PositionInv, DiskInv, Up, GracefulRestart
<1> QED
  BY <1>1, Positions, PTL

(* The genesis allocations are in the state once, and once more for each     *)
(* crash at most.                                                            *)
THEOREM GenesisAppliedOnce == Spec => []GenesisOnce
<1>1. PositionInv => GenesisOnce
  BY DEF PositionInv
<1> QED
  BY <1>1, Positions, PTL

(* A crash costs at most one delivery to acceptedSubs and at most one more   *)
(* application of genesis; nothing else costs any.                           *)
THEOREM CrashesBounded == Spec => []CrashCosts
<1>1. PipelineInv => CrashCosts
  BY DEF PipelineInv, PositionInv, DeliveryInv, Up, Missed, CrashCosts,
         MissedBoundedByCrashes
<1> QED
  BY <1>1, PipelineInvariant, PTL

(* First deliveries come in height order, through crashes and restarts.      *)
THEOREM DeliveredInOrder == Spec => DeliveryInOrder
<1>1. ASSUME PositionInv, [Next]_vars,
             NEW h \in delivered' \ delivered, NEW g \in delivered
      PROVE  g < h
  <2> USE <1>1, BoundAssumption DEF PositionInv, TypeOK, Heights
  <2>1. h = stateHeight
    <3>1. CASE NotifyAccepted
      BY <3>1 DEF NotifyAccepted, Up, AccepterInv
    <3>2. CASE Start
      BY <3>2 DEF Start, Up, DiskInv
    <3> QED
      BY <3>1, <3>2
         DEF Next, vars, history, Engine, AcceptIndex, AcceptQueue, AcceptPublish,
             Accepter, Receive, PutResults, CommitState, SetLastProcessed,
             Shutdown, ShutdownDone, Crash, Recovery, RecoverAtTip,
             RecoverExecute, RecoverCommit, RecoverFail, GenesisCommit, GenesisIndex
  <2>2. g <= stateHeight /\ g # h
    OBVIOUS
  <2> QED
    BY <2>1, <2>2
<1>2. PositionInv /\ [Next]_vars =>
        [\A h \in delivered' \ delivered : \A g \in delivered : g < h]_delivered
  BY <1>1
<1> QED
  BY <1>2, Positions, PTL DEF Spec, DeliveryInOrder

-----------------------------------------------------------------------------
(* The detailed pipeline is a correct implementation of AcceptedLog: every   *)
(* step decides, executes or delivers as the log allows, or changes nothing  *)
(* the log can see.                                                          *)
THEOREM Refinement == Spec => ImplementsLog
<1>1. Init => Log!Init
  BY DEF Init, Log!Init
<1>2. PositionInv /\ [Next]_vars => [Log!Next]_Log!vars
  <2> SUFFICES ASSUME PositionInv, [Next]_vars PROVE [Log!Next]_Log!vars
    OBVIOUS
  <2> USE BoundAssumption, QueueAssumption
          DEF PositionInv, TypeOK, Heights, Up, Log!Next, Log!vars
  <2>1. CASE AcceptIndex
    BY <2>1 DEF AcceptIndex, history, EngineInv, Log!Decide
  <2>2. CASE CommitState
    <3>1. stateHeight' = stateHeight + 1 /\ stateHeight < indexHeight
      BY <2>2 DEF CommitState, AccepterInv, QueueInv, EngineInv, Received
    <3> QED
      BY <2>2, <3>1 DEF CommitState, history, Log!Execute
  <2>3. CASE RecoverCommit
    BY <2>3 DEF RecoverCommit, DiskInv, history, Log!Execute
  <2>4. CASE NotifyAccepted
    BY <2>4 DEF NotifyAccepted, AccepterInv, disk, Log!Deliver
  <2>5. CASE Start
    BY <2>5 DEF Start, DiskInv, disk, Log!Deliver
  <2> QED
    BY <2>1, <2>2, <2>3, <2>4, <2>5
       DEF Next, vars, disk, history, Engine, AcceptQueue, AcceptPublish,
           Accepter, Receive, PutResults, SetLastProcessed, Shutdown,
           ShutdownDone, Crash, Recovery, RecoverAtTip, RecoverExecute,
           RecoverFail, GenesisCommit, GenesisIndex
<1> QED
  BY <1>1, <1>2, Positions, PTL DEF Spec, ImplementsLog, Log!Spec

-----------------------------------------------------------------------------
(* Numbers                                                                   *)

(* A set of naturals has a least element.                                    *)
LEMMA LeastNat ==
    ASSUME NEW T \in SUBSET Nat, T # {}
    PROVE  \E m \in T : \A k \in T : m <= k
<1> DEFINE F == {0 .. m : m \in T}
<1>1. F \subseteq FiniteSubsetsOf(Nat)
  <2>1. \A m \in T : IsFiniteSet(0 .. m) /\ 0 .. m \subseteq Nat
    BY FS_Interval
  <2> QED
    BY <2>1 DEF FiniteSubsetsOf
<1>2. F # {}
  OBVIOUS
<1>3. IsWellFoundedOn(StrictSubsetOrdering(Nat), FiniteSubsetsOf(Nat))
  BY FS_StrictSubsetOrderingWellFounded
<1> HIDE DEF F
<1>4. PICK x \in F : \A y \in F : <<y, x>> \notin StrictSubsetOrdering(Nat)
  BY <1>1, <1>2, <1>3, WFMin
<1>5. PICK m \in T : x = 0 .. m
  BY DEF F
<1>6. ASSUME NEW k \in T, k < m PROVE FALSE
  <2>1. 0 .. k \in F /\ 0 .. k \subseteq 0 .. m /\ m \notin 0 .. k /\ m \in 0 .. m
    BY <1>6 DEF F
  <2>2. <<0 .. k, x>> \in StrictSubsetOrdering(Nat)
    BY <1>5, <2>1 DEF StrictSubsetOrdering
  <2> QED
    BY <1>4, <2>1, <2>2
<1> QED
  BY <1>6

(* Induction.                                                                *)
LEMMA NatSet ==
    ASSUME NEW T \in SUBSET Nat, 0 \in T, \A n \in T : n + 1 \in T
    PROVE  T = Nat
<1>1. SUFFICES ASSUME Nat \ T # {} PROVE FALSE
  OBVIOUS
<1>2. PICK m \in Nat \ T : \A k \in Nat \ T : m <= k
  BY <1>1, LeastNat
<1>3. m # 0 /\ m - 1 \in Nat
  BY <1>2
<1>4. m - 1 \in T
  BY <1>2, <1>3
<1> QED
  BY <1>2, <1>4

(* The first n steps of a recursion over the naturals.                       *)
Steps(a, G, n, g) == g[0] = a /\ \A i \in 1 .. n : g[i] = G[i][g[i - 1]]

LEMMA StepsExist ==
    ASSUME NEW D, NEW a \in D, NEW G \in [Nat -> [D -> D]], NEW n \in Nat
    PROVE  \E g \in [0 .. n -> D] : Steps(a, G, n, g)
<1> DEFINE T == {k \in Nat : \E g \in [0 .. k -> D] : Steps(a, G, k, g)}
<1>1. 0 \in T
  <2> DEFINE g == [i \in 0 .. 0 |-> a]
  <2>1. g \in [0 .. 0 -> D]
    OBVIOUS
  <2>2. g[0] = a
    OBVIOUS
  <2> HIDE DEF g
  <2>3. Steps(a, G, 0, g)
    BY <2>2 DEF Steps
  <2> QED
    BY <2>1, <2>3
<1>2. ASSUME NEW k \in T PROVE k + 1 \in T
  <2>1. k \in Nat /\ \E g \in [0 .. k -> D] : Steps(a, G, k, g)
    OBVIOUS
  <2>2. PICK g \in [0 .. k -> D] : Steps(a, G, k, g)
    BY <2>1
  <2> DEFINE h == [i \in 0 .. k + 1 |-> IF i = k + 1 THEN G[k + 1][g[k]] ELSE g[i]]
  <2>3. h \in [0 .. k + 1 -> D]
    BY <2>1
  <2>4. /\ \A i \in 0 .. k : h[i] = g[i]
        /\ h[k + 1] = G[k + 1][g[k]]
    BY <2>1
  <2> HIDE DEF h
  <2>5. h[0] = a
    BY <2>1, <2>2, <2>4 DEF Steps
  <2>6. ASSUME NEW i \in 1 .. k + 1 PROVE h[i] = G[i][h[i - 1]]
    <3>1. CASE i = k + 1
      BY <2>1, <2>4, <3>1
    <3>2. CASE i # k + 1
      <4>1. i \in 1 .. k /\ i \in 0 .. k /\ i - 1 \in 0 .. k
        BY <2>1, <3>2
      <4> QED
        BY <2>2, <2>4, <4>1 DEF Steps
    <3> QED
      BY <3>1, <3>2
  <2>7. Steps(a, G, k + 1, h)
    BY <2>5, <2>6 DEF Steps
  <2> QED
    BY <2>1, <2>3, <2>7
<1>3. T \in SUBSET Nat
  OBVIOUS
<1> HIDE DEF T
<1>4. T = Nat
  BY <1>1, <1>2, <1>3, NatSet
<1> QED
  BY <1>4 DEF T

-----------------------------------------------------------------------------
(* Sequences                                                                 *)

(* The elements of a sequence are finitely many, as many as it is long if    *)
(* none is twice in it.                                                      *)
LEMMA Elements ==
  ASSUME NEW S, NEW s \in Seq(S)
  PROVE  /\ ToSet(s) \subseteq S /\ IsFiniteSet(ToSet(s))
         /\ Cardinality(ToSet(s)) \in Nat /\ Len(s) \in Nat
         /\ IsInjective(s) => Len(s) = Cardinality(ToSet(s))
<1>1. Len(s) \in Nat /\ s \in [1 .. Len(s) -> S] /\ DOMAIN s = 1 .. Len(s)
  OBVIOUS
<1>2. IsFiniteSet(1 .. Len(s)) /\ Cardinality(1 .. Len(s)) = Len(s)
  BY <1>1, FS_Interval
<1>3. s \in Surjection(1 .. Len(s), ToSet(s))
  BY <1>1 DEF Surjection, ToSet
<1>4. /\ IsFiniteSet(ToSet(s))
      /\ Cardinality(ToSet(s)) = Cardinality(1 .. Len(s)) <=> s \in Injection(1 .. Len(s), ToSet(s))
  BY <1>2, <1>3, FS_Surjection
<1>5. ASSUME IsInjective(s) PROVE s \in Injection(1 .. Len(s), ToSet(s))
  BY <1>1, <1>5 DEF Injection, IsInjective, ToSet
<1>6. ToSet(s) \subseteq S
  BY <1>1 DEF ToSet
<1> QED
  BY <1>1, <1>2, <1>4, <1>5, <1>6, FS_CardinalityType

LEMMA Joined ==
  ASSUME NEW S, NEW s \in Seq(S), NEW t \in Seq(S)
  PROVE  /\ s \o t \in Seq(S)
         /\ ToSet(s \o t) = ToSet(s) \cup ToSet(t)
         /\ IsInjective(s \o t) <=>
                IsInjective(s) /\ IsInjective(t) /\ ToSet(s) \cap ToSet(t) = {}
<1> DEFINE u == s \o t
<1>1. u \in Seq(S) /\ Len(u) = Len(s) + Len(t)
  OBVIOUS
<1>2. \A k \in 1 .. Len(s) + Len(t) : u[k] = IF k <= Len(s) THEN s[k] ELSE t[k - Len(s)]
  OBVIOUS
<1>3. /\ DOMAIN u = 1 .. Len(s) + Len(t) /\ DOMAIN s = 1 .. Len(s) /\ DOMAIN t = 1 .. Len(t)
      /\ Len(s) \in Nat /\ Len(t) \in Nat
  BY <1>1
<1> HIDE DEF u
<1>4. \A k \in 1 .. Len(s) : k \in 1 .. Len(s) + Len(t) /\ u[k] = s[k]
  BY <1>2, <1>3
<1>5. \A k \in 1 .. Len(t) : Len(s) + k \in 1 .. Len(s) + Len(t) /\ u[Len(s) + k] = t[k]
  <2>1. ASSUME NEW k \in 1 .. Len(t)
        PROVE  Len(s) + k \in 1 .. Len(s) + Len(t) /\ ~(Len(s) + k <= Len(s)) /\ Len(s) + k - Len(s) = k
    BY <1>3
  <2> QED
    BY <1>2, <2>1, SMTT(20)
<1>6. \A k \in 1 .. Len(s) + Len(t) :
          \/ k \in 1 .. Len(s)
          \/ k - Len(s) \in 1 .. Len(t) /\ k = Len(s) + (k - Len(s))
  BY <1>3
<1>7. ToSet(u) = ToSet(s) \cup ToSet(t)
  <2>1. ASSUME NEW y \in ToSet(u) PROVE y \in ToSet(s) \cup ToSet(t)
    <3>1. PICK k \in 1 .. Len(s) + Len(t) : y = u[k]
      BY <1>3 DEF ToSet
    <3>2. CASE k \in 1 .. Len(s)
      BY <1>3, <1>4, <3>1, <3>2 DEF ToSet
    <3>3. CASE k - Len(s) \in 1 .. Len(t) /\ k = Len(s) + (k - Len(s))
      <4>1. y = t[k - Len(s)]
        BY <1>5, <3>1, <3>3
      <4> QED
        BY <1>3, <3>3, <4>1 DEF ToSet
    <3> QED
      BY <1>6, <3>2, <3>3
  <2>2. ASSUME NEW y \in ToSet(s) PROVE y \in ToSet(u)
    BY <1>3, <1>4 DEF ToSet
  <2>3. ASSUME NEW y \in ToSet(t) PROVE y \in ToSet(u)
    <3>1. PICK k \in 1 .. Len(t) : y = t[k]
      BY <1>3 DEF ToSet
    <3> QED
      BY <1>3, <1>5, <3>1 DEF ToSet
  <2> QED
    BY <2>1, <2>2, <2>3
<1>8. ASSUME IsInjective(u)
      PROVE  IsInjective(s) /\ IsInjective(t) /\ ToSet(s) \cap ToSet(t) = {}
  <2>1. IsInjective(s)
    BY <1>3, <1>4, <1>8 DEF IsInjective
  <2>2. IsInjective(t)
    <3>1. ASSUME NEW a \in 1 .. Len(t), NEW b \in 1 .. Len(t), t[a] = t[b] PROVE a = b
      <4>1. u[Len(s) + a] = u[Len(s) + b]
        BY <1>5, <3>1
      <4>2. Len(s) + a = Len(s) + b
        BY <1>3, <1>5, <1>8, <4>1 DEF IsInjective
      <4> QED
        BY <1>3, <4>2
    <3> QED
      BY <1>3, <3>1 DEF IsInjective
  <2>3. ASSUME NEW y, y \in ToSet(s), y \in ToSet(t) PROVE FALSE
    <3>1. PICK a \in 1 .. Len(s), b \in 1 .. Len(t) : y = s[a] /\ y = t[b]
      BY <1>3, <2>3 DEF ToSet
    <3>2. u[a] = u[Len(s) + b]
      BY <1>4, <1>5, <3>1
    <3>3. a = Len(s) + b
      BY <1>3, <1>4, <1>5, <1>8, <3>2 DEF IsInjective
    <3> QED
      BY <1>3, <3>3
  <2> QED
    BY <2>1, <2>2, <2>3
<1>9. ASSUME IsInjective(s), IsInjective(t), ToSet(s) \cap ToSet(t) = {}
      PROVE  IsInjective(u)
  <2>1. SUFFICES ASSUME NEW a \in 1 .. Len(s) + Len(t), NEW b \in 1 .. Len(s) + Len(t), u[a] = u[b]
                 PROVE  a = b
    BY <1>3 DEF IsInjective
  <2>2. CASE a \in 1 .. Len(s) /\ b \in 1 .. Len(s)
    BY <1>3, <1>4, <1>9, <2>1, <2>2 DEF IsInjective
  <2>3. CASE a \notin 1 .. Len(s) /\ b \notin 1 .. Len(s)
    <3>1. a - Len(s) \in 1 .. Len(t) /\ b - Len(s) \in 1 .. Len(t)
      BY <1>6, <2>3
    <3>2. t[a - Len(s)] = t[b - Len(s)]
      BY <1>5, <1>6, <2>1, <2>3, <3>1
    <3>3. a - Len(s) = b - Len(s)
      BY <1>3, <1>9, <3>1, <3>2 DEF IsInjective
    <3> QED
      BY <1>3, <3>3
  <2>4. \A x \in 1 .. Len(s), y \in 1 .. Len(s) + Len(t) : y \notin 1 .. Len(s) => u[x] # u[y]
    <3>1. ASSUME NEW x \in 1 .. Len(s), NEW y \in 1 .. Len(s) + Len(t), y \notin 1 .. Len(s)
          PROVE  u[x] # u[y]
      <4>1. y - Len(s) \in 1 .. Len(t) /\ u[y] = t[y - Len(s)]
        BY <1>5, <1>6, <3>1
      <4>2. u[x] \in ToSet(s) /\ u[y] \in ToSet(t)
        BY <1>3, <1>4, <4>1 DEF ToSet
      <4> QED
        BY <1>9, <4>2
    <3> QED
      BY <3>1
  <2> QED
    BY <2>1, <2>2, <2>3, <2>4
<1> QED
  BY <1>1, <1>7, <1>8, <1>9 DEF u

LEMMA Added ==
  ASSUME NEW S, NEW s \in Seq(S), NEW x \in S
  PROVE  /\ Append(s, x) \in Seq(S) /\ Cons(x, s) \in Seq(S)
         /\ Len(Append(s, x)) = Len(s) + 1 /\ Len(Cons(x, s)) = Len(s) + 1
         /\ ToSet(Append(s, x)) = ToSet(s) \cup {x}
         /\ ToSet(Cons(x, s)) = ToSet(s) \cup {x}
         /\ IsInjective(s) /\ x \notin ToSet(s) =>
                IsInjective(Append(s, x)) /\ IsInjective(Cons(x, s))
<1> DEFINE one == <<x>>
<1>1. one \in Seq(S) /\ Len(one) = 1 /\ DOMAIN one = 1 .. 1 /\ one[1] = x
  OBVIOUS
<1>2. Append(s, x) = s \o one
  BY AppendIsConcat
<1>3. Cons(x, s) = one \o s
  BY DEF Cons
<1> HIDE DEF one
<1>4. ToSet(one) = {x} /\ IsInjective(one)
  BY <1>1 DEF ToSet, IsInjective
<1>5. /\ s \o one \in Seq(S) /\ ToSet(s \o one) = ToSet(s) \cup ToSet(one)
      /\ IsInjective(s \o one) <=>
             IsInjective(s) /\ IsInjective(one) /\ ToSet(s) \cap ToSet(one) = {}
  BY <1>1, Joined
<1>6. /\ one \o s \in Seq(S) /\ ToSet(one \o s) = ToSet(one) \cup ToSet(s)
      /\ IsInjective(one \o s) <=>
             IsInjective(one) /\ IsInjective(s) /\ ToSet(one) \cap ToSet(s) = {}
  BY <1>1, Joined
<1>7. Len(s \o one) = Len(s) + 1 /\ Len(one \o s) = Len(s) + 1
  <2>1. Len(s) \in Nat /\ Len(s \o one) = Len(s) + Len(one) /\ Len(one \o s) = Len(one) + Len(s)
    BY <1>1, ConcatProperties, LenProperties
  <2> QED
    BY <1>1, <2>1
<1> QED
  BY <1>2, <1>3, <1>4, <1>5, <1>6, <1>7

(* What Among asks of the function that walks through the sequence.          *)
Choosing(s, S, f) ==
    f = [n \in 0 .. Len(s) |->
            IF n = 0 THEN <<>>
            ELSE IF s[n] \in S THEN Append(f[n - 1], s[n]) ELSE f[n - 1]]

LEMMA ChoosingExists ==
  ASSUME NEW T, NEW s \in Seq(T), NEW S
  PROVE  \E f : Choosing(s, S, f)
<1> DEFINE G == [n \in Nat |-> [a \in Seq(T) |->
                     IF n \in 1 .. Len(s) /\ s[n] \in S THEN Append(a, s[n]) ELSE a]]
<1>1. \A n \in Nat, a \in Seq(T) :
          (IF n \in 1 .. Len(s) /\ s[n] \in S THEN Append(a, s[n]) ELSE a) \in Seq(T)
  OBVIOUS
<1>2. G \in [Nat -> [Seq(T) -> Seq(T)]]
  BY <1>1
<1>3. \A n \in 1 .. Len(s), a \in Seq(T) :
          G[n][a] = IF s[n] \in S THEN Append(a, s[n]) ELSE a
  OBVIOUS
<1> HIDE DEF G
<1>4. <<>> \in Seq(T) /\ Len(s) \in Nat
  OBVIOUS
<1>5. PICK f \in [0 .. Len(s) -> Seq(T)] : Steps(<<>>, G, Len(s), f)
  BY <1>2, <1>4, StepsExist
<1>6. \A n \in 0 .. Len(s) :
          f[n] = IF n = 0 THEN <<>>
                 ELSE IF s[n] \in S THEN Append(f[n - 1], s[n]) ELSE f[n - 1]
  <2>1. ASSUME NEW n \in 1 .. Len(s)
        PROVE  f[n] = IF s[n] \in S THEN Append(f[n - 1], s[n]) ELSE f[n - 1]
    <3>1. n - 1 \in 0 .. Len(s)
      BY <1>4
    <3> QED
      BY <1>3, <1>5, <3>1 DEF Steps
  <2>2. f[0] = <<>>
    BY <1>5 DEF Steps
  <2>3. \A n \in 0 .. Len(s) : n = 0 \/ n \in 1 .. Len(s)
    BY <1>4
  <2>4. \A n \in 1 .. Len(s) : n # 0
    OBVIOUS
  <2> QED
    BY <2>1, <2>2, <2>3, <2>4, Zenon
<1>7. f = [n \in 0 .. Len(s) |-> f[n]]
  OBVIOUS
<1>8. f = [n \in 0 .. Len(s) |->
              IF n = 0 THEN <<>>
              ELSE IF s[n] \in S THEN Append(f[n - 1], s[n]) ELSE f[n - 1]]
  BY <1>6, <1>7, Zenon
<1> QED
  BY <1>8, Zenon DEF Choosing

(* The items that are chosen are those of the set, none of them twice.       *)
LEMMA AmongFacts ==
  ASSUME NEW T, NEW s \in Seq(T), IsInjective(s), NEW S
  PROVE  /\ Among(s, S) \in Seq(T)
         /\ ToSet(Among(s, S)) = ToSet(s) \cap S
         /\ IsInjective(Among(s, S))
<1> DEFINE f == CHOOSE g : Choosing(s, S, g)
<1>1. Choosing(s, S, f)
  BY ChoosingExists, Zenon
<1>2. Among(s, S) = f[Len(s)]
  BY Zenon DEF Among, Choosing
<1> HIDE DEF f
<1>3. \A n \in 0 .. Len(s) :
          f[n] = IF n = 0 THEN <<>>
                 ELSE IF s[n] \in S THEN Append(f[n - 1], s[n]) ELSE f[n - 1]
  BY <1>1 DEF Choosing
<1>4. Len(s) \in Nat /\ DOMAIN s = 1 .. Len(s)
  OBVIOUS
<1> DEFINE First(n) == {s[k] : k \in 1 .. n}
           Good(n) == f[n] \in Seq(T) /\ ToSet(f[n]) = First(n) \cap S /\ IsInjective(f[n])
           N == {n \in Nat : n <= Len(s) => Good(n)}
<1>5. 0 \in N
  <2>1. f[0] = <<>>
    BY <1>3, <1>4
  <2>2. ToSet(<<>>) = {} /\ IsInjective(<<>>) /\ First(0) = {} /\ <<>> \in Seq(T)
    BY DEF ToSet, IsInjective
  <2> HIDE DEF First
  <2>3. Good(0)
    BY <2>1, <2>2
  <2> QED
    BY <2>3
<1>6. ASSUME NEW n \in N PROVE n + 1 \in N
  <2>1. n \in Nat /\ (n <= Len(s) => Good(n))
    OBVIOUS
  <2>2. ASSUME n + 1 <= Len(s) PROVE Good(n + 1)
    <3>1. n + 1 \in 0 .. Len(s) /\ n + 1 # 0 /\ (n + 1) - 1 = n /\ n <= Len(s) /\ n + 1 \in 1 .. Len(s)
      BY <1>4, <2>1, <2>2
    <3>2. f[n + 1] = IF s[n + 1] \in S THEN Append(f[n], s[n + 1]) ELSE f[n]
      BY <1>3, <3>1
    <3>3. First(n + 1) = First(n) \cup {s[n + 1]}
      <4>1. 1 .. n + 1 = 1 .. n \cup {n + 1}
        BY <2>1
      <4> QED
        BY <4>1
    <3>4. s[n + 1] \notin First(n)
      <4>1. ASSUME NEW k \in 1 .. n PROVE s[k] # s[n + 1]
        <5>1. k \in DOMAIN s /\ n + 1 \in DOMAIN s /\ k # n + 1
          BY <1>4, <2>1, <3>1
        <5> QED
          BY <5>1 DEF IsInjective
      <4> QED
        BY <4>1
    <3>5. s[n + 1] \in T
      BY <3>1
    <3>6. Good(n)
      BY <2>1, <3>1
    <3> HIDE DEF First
    <3>7. CASE s[n + 1] \in S
      <4>1. f[n + 1] = Append(f[n], s[n + 1])
        BY <3>2, <3>7
      <4>2. s[n + 1] \notin ToSet(f[n])
        BY <3>4, <3>6
      <4>3. /\ Append(f[n], s[n + 1]) \in Seq(T)
            /\ ToSet(Append(f[n], s[n + 1])) = ToSet(f[n]) \cup {s[n + 1]}
            /\ IsInjective(Append(f[n], s[n + 1]))
        <5>1. PICK a \in Seq(T) : a = f[n]
          BY <3>6
        <5>2. PICK x \in T : x = s[n + 1]
          BY <3>5
        <5>3. IsInjective(a) /\ x \notin ToSet(a)
          BY <3>6, <4>2, <5>1, <5>2
        <5>4. /\ Append(a, x) \in Seq(T) /\ ToSet(Append(a, x)) = ToSet(a) \cup {x}
              /\ IsInjective(Append(a, x))
          BY <5>3, Added
        <5> QED
          BY <5>1, <5>2, <5>4
      <4> QED
        BY <3>3, <3>6, <3>7, <4>1, <4>3
    <3>8. CASE s[n + 1] \notin S
      BY <3>2, <3>3, <3>6, <3>8
    <3> QED
      BY <3>7, <3>8
  <2> QED
    BY <2>1, <2>2
<1>7. N \in SUBSET Nat
  OBVIOUS
<1> HIDE DEF N
<1>8. N = Nat
  BY <1>5, <1>6, <1>7, NatSet
<1>9. Good(Len(s))
  <2>1. Len(s) \in N
    BY <1>4, <1>8
  <2> HIDE DEF Good
  <2> QED
    BY <1>4, <2>1 DEF N
<1>10. First(Len(s)) = ToSet(s)
  BY <1>4 DEF ToSet
<1> QED
  BY <1>2, <1>9, <1>10

-----------------------------------------------------------------------------
(* The pool                                                                  *)

Pools == [queue : Seq(Items), owned : [Sponsors -> 0 .. MaxSponsorSize]]

Counted(p) == \A x \in Sponsors : p.owned[x] = Cardinality(OfSponsor(x, ToSet(p.queue)))

(* A pool whose counts are right, that has nothing twice and keeps its limits. *)
Sound(p) == p \in Pools /\ Len(p.queue) <= MaxSize /\ IsInjective(p.queue) /\ Counted(p)

(* There is a place for each item of S and of the queue.                     *)
Room(p, S) ==
    /\ Cardinality(ToSet(p.queue) \cup S) <= MaxSize
    /\ \A x \in Sponsors :
           Cardinality(OfSponsor(x, ToSet(p.queue) \cup S)) <= MaxSponsorSize

LEMMA SponsorOf == \A i \in Items : Sponsor[i] \in Sponsors
  BY DEF Sponsors

LEMMA SponsorCount ==
  ASSUME NEW S, IsFiniteSet(S), NEW x
  PROVE  IsFiniteSet(OfSponsor(x, S)) /\ Cardinality(OfSponsor(x, S)) \in Nat
<1>1. OfSponsor(x, S) \in SUBSET S
  BY DEF OfSponsor
<1> QED
  BY <1>1, FS_Subset, FS_CardinalityType

LEMMA SponsorGets ==
  ASSUME NEW S, IsFiniteSet(S), NEW i, i \notin S
  PROVE  \A x : Cardinality(OfSponsor(x, S \cup {i})) =
                    IF x = Sponsor[i] THEN Cardinality(OfSponsor(x, S)) + 1
                    ELSE Cardinality(OfSponsor(x, S))
<1> TAKE x
<1>1. CASE x = Sponsor[i]
  <2>1. OfSponsor(x, S \cup {i}) = OfSponsor(x, S) \cup {i} /\ i \notin OfSponsor(x, S)
    BY <1>1 DEF OfSponsor
  <2> QED
    BY <1>1, <2>1, SponsorCount, FS_AddElement
<1>2. CASE x # Sponsor[i]
  <2>1. OfSponsor(x, S \cup {i}) = OfSponsor(x, S)
    BY <1>2 DEF OfSponsor
  <2> QED
    BY <1>2, <2>1
<1> QED
  BY <1>1, <1>2

(* One more item: in its place, or the pool is as it was.                    *)
LEMMA AddOneFacts ==
  ASSUME NEW p, Sound(p), NEW i \in Items, NEW front \in BOOLEAN
  PROVE  /\ Sound(AddOne(p, i, front))
         /\ ToSet(p.queue) \subseteq ToSet(AddOne(p, i, front).queue)
         /\ ToSet(AddOne(p, i, front).queue) \subseteq ToSet(p.queue) \cup {i}
         /\ Room(p, {i}) => i \in ToSet(AddOne(p, i, front).queue)
<1> DEFINE q == AddOne(p, i, front)
           put == IF front THEN Cons(i, p.queue) ELSE Append(p.queue, i)
           x == Sponsor[i]
<1>1. /\ p \in Pools /\ p.queue \in Seq(Items) /\ Len(p.queue) <= MaxSize
      /\ IsInjective(p.queue) /\ Counted(p)
  BY DEF Sound, Pools
<1>2. /\ IsFiniteSet(ToSet(p.queue)) /\ Cardinality(ToSet(p.queue)) \in Nat
      /\ Len(p.queue) = Cardinality(ToSet(p.queue))
  BY <1>1, Elements
<1>3. x \in Sponsors
  BY SponsorOf
<1>4. p.owned[x] = Cardinality(OfSponsor(x, ToSet(p.queue))) /\ p.owned[x] \in 0 .. MaxSponsorSize
  BY <1>1, <1>3 DEF Counted, Pools
<1>5. CASE Has(p, i) \/ ~Fits(p, i)
  <2>1. q = p
    BY <1>5 DEF AddOne
  <2>2. ASSUME Room(p, {i}), ~Has(p, i) PROVE FALSE
    <3>1. i \notin ToSet(p.queue)
      BY <2>2 DEF Has
    <3>2. Cardinality(ToSet(p.queue) \cup {i}) = Cardinality(ToSet(p.queue)) + 1
      BY <1>2, <3>1, FS_AddElement
    <3>3. Cardinality(OfSponsor(x, ToSet(p.queue) \cup {i})) = Cardinality(OfSponsor(x, ToSet(p.queue))) + 1
      BY <1>2, <3>1, SponsorGets
    <3>4. /\ Cardinality(ToSet(p.queue)) + 1 <= MaxSize
          /\ Cardinality(OfSponsor(x, ToSet(p.queue))) + 1 <= MaxSponsorSize
      BY <1>3, <2>2, <3>2, <3>3 DEF Room
    <3>5. p.owned[x] # MaxSponsorSize /\ Len(p.queue) # MaxSize
      BY <1>2, <1>4, <3>4, SizeAssumption
    <3> QED
      BY <1>5, <2>2, <3>5 DEF Fits
  <2>3. Room(p, {i}) => i \in ToSet(p.queue)
    BY <2>2 DEF Has
  <2> QED
    BY <2>1, <2>3
<1>6. CASE ~Has(p, i) /\ Fits(p, i)
  <2>1. q = [queue |-> put, owned |-> [p.owned EXCEPT ![x] = @ + 1]]
    BY <1>6 DEF AddOne
  <2>2. i \notin ToSet(p.queue) /\ p.owned[x] # MaxSponsorSize /\ Len(p.queue) # MaxSize
    BY <1>6 DEF Has, Fits
  <2>3. /\ put \in Seq(Items) /\ Len(put) = Len(p.queue) + 1 /\ IsInjective(put)
        /\ ToSet(put) = ToSet(p.queue) \cup {i}
    <3>1. /\ Append(p.queue, i) \in Seq(Items) /\ Cons(i, p.queue) \in Seq(Items)
          /\ Len(Append(p.queue, i)) = Len(p.queue) + 1 /\ Len(Cons(i, p.queue)) = Len(p.queue) + 1
          /\ ToSet(Append(p.queue, i)) = ToSet(p.queue) \cup {i}
          /\ ToSet(Cons(i, p.queue)) = ToSet(p.queue) \cup {i}
          /\ IsInjective(Append(p.queue, i)) /\ IsInjective(Cons(i, p.queue))
      <4>1. PICK s \in Seq(Items) : s = p.queue
        BY <1>1
      <4>2. IsInjective(s) /\ i \notin ToSet(s)
        BY <1>1, <2>2, <4>1
      <4>3. /\ Append(s, i) \in Seq(Items) /\ Cons(i, s) \in Seq(Items)
            /\ Len(Append(s, i)) = Len(s) + 1 /\ Len(Cons(i, s)) = Len(s) + 1
            /\ ToSet(Append(s, i)) = ToSet(s) \cup {i} /\ ToSet(Cons(i, s)) = ToSet(s) \cup {i}
            /\ IsInjective(Append(s, i)) /\ IsInjective(Cons(i, s))
        <5>1. /\ Append(s, i) \in Seq(Items) /\ Cons(i, s) \in Seq(Items)
              /\ Len(Append(s, i)) = Len(s) + 1 /\ Len(Cons(i, s)) = Len(s) + 1
              /\ ToSet(Append(s, i)) = ToSet(s) \cup {i} /\ ToSet(Cons(i, s)) = ToSet(s) \cup {i}
          <6>1. Append(s, i) \in Seq(Items) /\ Cons(i, s) \in Seq(Items)
            BY Added
          <6>2. Len(Append(s, i)) = Len(s) + 1 /\ Len(Cons(i, s)) = Len(s) + 1
            BY Added
          <6>3. ToSet(Append(s, i)) = ToSet(s) \cup {i}
            BY Added
          <6>4. ToSet(Cons(i, s)) = ToSet(s) \cup {i}
            BY Added
          <6> QED
            BY <6>1, <6>2, <6>3, <6>4
        <5>2. IsInjective(s) /\ i \notin ToSet(s) =>
                  IsInjective(Append(s, i)) /\ IsInjective(Cons(i, s))
          BY Added
        <5> QED
          BY <4>2, <5>1, <5>2
      <4> QED
        BY <4>1, <4>3
    <3> QED
      BY <3>1
  <2> HIDE DEF put, x
  <2>4. q.queue = put /\ q.owned = [p.owned EXCEPT ![x] = @ + 1]
    BY <2>1
  <2>5. p.owned \in [Sponsors -> 0 .. MaxSponsorSize]
    BY <1>1 DEF Pools
  <2>6. p.owned[x] + 1 \in 0 .. MaxSponsorSize
    BY <1>4, <2>2, SizeAssumption
  <2>7. [p.owned EXCEPT ![x] = @ + 1] \in [Sponsors -> 0 .. MaxSponsorSize]
    BY <1>3, <2>5, <2>6
  <2>8. q \in Pools
    BY <2>1, <2>3, <2>7 DEF Pools
  <2>9. Len(q.queue) <= MaxSize
    BY <1>1, <1>2, <2>2, <2>3, <2>4, SizeAssumption
  <2>10. Counted(q)
    <3>1. SUFFICES ASSUME NEW y \in Sponsors
                   PROVE  q.owned[y] = Cardinality(OfSponsor(y, ToSet(p.queue) \cup {i}))
      BY <2>3, <2>4 DEF Counted
    <3>2. p.owned[y] = Cardinality(OfSponsor(y, ToSet(p.queue)))
      BY <1>1 DEF Counted
    <3>3. Cardinality(OfSponsor(y, ToSet(p.queue) \cup {i})) =
              IF y = x THEN Cardinality(OfSponsor(y, ToSet(p.queue))) + 1
              ELSE Cardinality(OfSponsor(y, ToSet(p.queue)))
      BY <1>2, <2>2, SponsorGets DEF x
    <3>4. q.owned[y] = IF y = x THEN p.owned[y] + 1 ELSE p.owned[y]
      BY <2>4, <2>5
    <3> QED
      BY <3>2, <3>3, <3>4
  <2>11. Sound(q)
    BY <2>3, <2>4, <2>8, <2>9, <2>10 DEF Sound
  <2> QED
    BY <2>3, <2>4, <2>11
<1> QED
  BY <1>5, <1>6

(* What Restore asks of the function that adds item after item.              *)
PuttingBack(p, s, f) ==
    f = [n \in 0 .. Len(s) |-> IF n = 0 THEN p ELSE AddOne(f[n - 1], s[n], TRUE)]

LEMMA PuttingBackExists ==
  ASSUME NEW p, Sound(p), NEW s \in Seq(Items)
  PROVE  \E f : PuttingBack(p, s, f)
<1> DEFINE D == {q \in Pools : Sound(q)}
           G == [n \in Nat |-> [q \in D |->
                     IF n \in 1 .. Len(s) THEN AddOne(q, s[n], TRUE) ELSE q]]
<1>1. ASSUME NEW n \in Nat, NEW q \in D
      PROVE  (IF n \in 1 .. Len(s) THEN AddOne(q, s[n], TRUE) ELSE q) \in D
  <2>1. ASSUME n \in 1 .. Len(s) PROVE AddOne(q, s[n], TRUE) \in D
    <3>1. s[n] \in Items /\ Sound(q)
      BY <2>1
    <3>2. PICK i \in Items : i = s[n]
      BY <3>1
    <3>3. Sound(AddOne(q, i, TRUE))
      BY <3>1, AddOneFacts
    <3> QED
      BY <3>2, <3>3 DEF Sound
  <2> QED
    BY <2>1
<1>2. G \in [Nat -> [D -> D]]
  <2> HIDE DEF D
  <2> QED
    BY <1>1
<1>3. \A n \in 1 .. Len(s), q \in D : G[n][q] = AddOne(q, s[n], TRUE)
  <2> HIDE DEF D
  <2>1. \A n \in 1 .. Len(s) : n \in Nat
    OBVIOUS
  <2>2. \A n \in Nat, q \in D :
            G[n][q] = IF n \in 1 .. Len(s) THEN AddOne(q, s[n], TRUE) ELSE q
    BY Zenon
  <2> QED
    BY <2>1, <2>2, Zenon
<1>4. p \in D /\ Len(s) \in Nat
  BY DEF Sound
<1> HIDE DEF D, G
<1>5. PICK f \in [0 .. Len(s) -> D] : Steps(p, G, Len(s), f)
  BY <1>2, <1>4, StepsExist
<1>6. \A n \in 0 .. Len(s) : f[n] = IF n = 0 THEN p ELSE AddOne(f[n - 1], s[n], TRUE)
  <2>1. ASSUME NEW n \in 1 .. Len(s) PROVE f[n] = AddOne(f[n - 1], s[n], TRUE)
    <3>1. n - 1 \in 0 .. Len(s)
      BY <1>4
    <3> QED
      BY <1>3, <1>5, <3>1 DEF Steps
  <2>2. f[0] = p
    BY <1>5 DEF Steps
  <2>3. \A n \in 0 .. Len(s) : n = 0 \/ n \in 1 .. Len(s)
    BY <1>4
  <2>4. \A n \in 1 .. Len(s) : n # 0
    OBVIOUS
  <2> QED
    BY <2>1, <2>2, <2>3, <2>4, Zenon
<1>7. f = [n \in 0 .. Len(s) |-> f[n]]
  OBVIOUS
<1>8. f = [n \in 0 .. Len(s) |-> IF n = 0 THEN p ELSE AddOne(f[n - 1], s[n], TRUE)]
  BY <1>6, <1>7, Zenon
<1> QED
  BY <1>8, Zenon DEF PuttingBack

LEMMA RoomShrinks ==
  ASSUME NEW p, NEW q, NEW S, NEW T, IsFiniteSet(ToSet(p.queue) \cup S), Room(p, S),
         ToSet(q.queue) \cup T \subseteq ToSet(p.queue) \cup S
  PROVE  Room(q, T)
<1> DEFINE A == ToSet(p.queue) \cup S
           B == ToSet(q.queue) \cup T
<1>1. B \in SUBSET A /\ IsFiniteSet(A)
  OBVIOUS
<1>2. Cardinality(B) <= Cardinality(A) /\ IsFiniteSet(B)
  BY <1>1, FS_Subset
<1>3. \A x : OfSponsor(x, B) \in SUBSET OfSponsor(x, A)
  BY <1>1 DEF OfSponsor
<1>4. \A x : Cardinality(OfSponsor(x, B)) <= Cardinality(OfSponsor(x, A))
  BY <1>1, <1>3, SponsorCount, FS_Subset
<1>5. Cardinality(A) <= MaxSize /\ \A x \in Sponsors : Cardinality(OfSponsor(x, A)) <= MaxSponsorSize
  BY DEF Room
<1>6. /\ Cardinality(A) \in Nat /\ Cardinality(B) \in Nat
      /\ \A x : Cardinality(OfSponsor(x, A)) \in Nat /\ Cardinality(OfSponsor(x, B)) \in Nat
  BY <1>1, <1>2, SponsorCount, FS_CardinalityType
<1> HIDE DEF A, B
<1>7. Cardinality(B) <= MaxSize
  BY <1>2, <1>5, <1>6, SizeAssumption
<1>8. \A x \in Sponsors : Cardinality(OfSponsor(x, B)) <= MaxSponsorSize
  BY <1>4, <1>5, <1>6, SizeAssumption
<1> QED
  BY <1>7, <1>8 DEF Room, B

(* What is restored is in the pool again, all of it if there is room.        *)
LEMMA RestoreFacts ==
  ASSUME NEW p, Sound(p), NEW s \in Seq(Items)
  PROVE  /\ Sound(Restore(p, s))
         /\ ToSet(p.queue) \subseteq ToSet(Restore(p, s).queue)
         /\ ToSet(Restore(p, s).queue) \subseteq ToSet(p.queue) \cup ToSet(s)
         /\ Room(p, ToSet(s)) => ToSet(s) \subseteq ToSet(Restore(p, s).queue)
<1> DEFINE f == CHOOSE g : PuttingBack(p, s, g)
<1>1. PuttingBack(p, s, f)
  BY PuttingBackExists, Zenon
<1>2. Restore(p, s) = f[Len(s)]
  BY Zenon DEF Restore, PuttingBack
<1> HIDE DEF f
<1>3. \A n \in 0 .. Len(s) : f[n] = IF n = 0 THEN p ELSE AddOne(f[n - 1], s[n], TRUE)
  BY <1>1 DEF PuttingBack
<1>4. Len(s) \in Nat /\ DOMAIN s = 1 .. Len(s)
  OBVIOUS
<1>5. IsFiniteSet(ToSet(p.queue)) /\ IsFiniteSet(ToSet(s))
  <2>1. p.queue \in Seq(Items)
    BY DEF Sound, Pools
  <2> QED
    BY <2>1, Elements
<1>6. IsFiniteSet(ToSet(p.queue) \cup ToSet(s))
  BY <1>5, FS_Union
<1> DEFINE First(n) == {s[k] : k \in 1 .. n}
           Good(n) == /\ Sound(f[n])
                      /\ ToSet(p.queue) \subseteq ToSet(f[n].queue)
                      /\ ToSet(f[n].queue) \subseteq ToSet(p.queue) \cup First(n)
                      /\ Room(p, ToSet(s)) => First(n) \subseteq ToSet(f[n].queue)
           N == {n \in Nat : n <= Len(s) => Good(n)}
<1>7. 0 \in N
  <2>1. f[0] = p
    <3>1. 0 \in 0 .. Len(s)
      BY <1>4
    <3> QED
      BY <1>3, <3>1, Zenon
  <2>2. First(0) = {}
    OBVIOUS
  <2> HIDE DEF First
  <2>3. Good(0)
    BY <2>1, <2>2
  <2> QED
    BY <2>3
<1>8. ASSUME NEW n \in N PROVE n + 1 \in N
  <2>1. n \in Nat /\ (n <= Len(s) => Good(n))
    OBVIOUS
  <2>2. ASSUME n + 1 <= Len(s) PROVE Good(n + 1)
    <3>1. /\ n + 1 \in 0 .. Len(s) /\ n + 1 # 0 /\ (n + 1) - 1 = n /\ n <= Len(s)
          /\ n + 1 \in 1 .. Len(s)
      BY <1>4, <2>1, <2>2
    <3>2. f[n + 1] = AddOne(f[n], s[n + 1], TRUE)
      BY <1>3, <3>1
    <3>3. First(n + 1) = First(n) \cup {s[n + 1]}
      <4>1. 1 .. n + 1 = 1 .. n \cup {n + 1}
        BY <2>1
      <4> QED
        BY <4>1
    <3>4. First(n) \subseteq ToSet(s)
      BY <1>4, <2>1, <3>1 DEF ToSet
    <3>5. s[n + 1] \in Items /\ s[n + 1] \in ToSet(s)
      BY <1>4, <3>1 DEF ToSet
    <3>6. Good(n)
      BY <2>1, <3>1
    <3> HIDE DEF First
    <3>7. PICK i \in Items : i = s[n + 1]
      BY <3>5
    <3>8. PICK q : q = f[n]
      OBVIOUS
    <3>9. /\ Sound(AddOne(q, i, TRUE))
          /\ ToSet(q.queue) \subseteq ToSet(AddOne(q, i, TRUE).queue)
          /\ ToSet(AddOne(q, i, TRUE).queue) \subseteq ToSet(q.queue) \cup {i}
          /\ Room(q, {i}) => i \in ToSet(AddOne(q, i, TRUE).queue)
      BY <3>6, <3>8, AddOneFacts
    <3>10. ToSet(q.queue) \cup {i} \subseteq ToSet(p.queue) \cup ToSet(s)
      BY <3>4, <3>5, <3>6, <3>7, <3>8
    <3>11. Room(p, ToSet(s)) => Room(q, {i})
      BY <1>6, <3>10, RoomShrinks
    <3> HIDE DEF f
    <3> QED
      BY <3>2, <3>3, <3>6, <3>7, <3>8, <3>9, <3>11
  <2> QED
    BY <2>1, <2>2
<1>9. N \in SUBSET Nat
  OBVIOUS
<1> HIDE DEF N
<1>10. N = Nat
  BY <1>7, <1>8, <1>9, NatSet
<1>11. Good(Len(s))
  <2>1. Len(s) \in N
    BY <1>4, <1>10
  <2> HIDE DEF Good
  <2> QED
    BY <1>4, <2>1 DEF N
<1>12. First(Len(s)) = ToSet(s)
  BY <1>4 DEF ToSet
<1> QED
  BY <1>2, <1>11, <1>12

(* Items that leave the queue give their places back, and the others stay.   *)
LEMMA TakeOutFacts ==
  ASSUME NEW p, Sound(p), NEW S, S \subseteq ToSet(p.queue)
  PROVE  Sound(TakeOut(p, S)) /\ ToSet(TakeOut(p, S).queue) = ToSet(p.queue) \ S
<1> DEFINE q == TakeOut(p, S)
<1>1. /\ p \in Pools /\ p.queue \in Seq(Items) /\ Len(p.queue) <= MaxSize
      /\ IsInjective(p.queue) /\ Counted(p)
  BY DEF Sound, Pools
<1>2. /\ IsFiniteSet(ToSet(p.queue)) /\ Len(p.queue) = Cardinality(ToSet(p.queue))
      /\ Len(p.queue) \in Nat
  BY <1>1, Elements
<1> DEFINE left == Among(p.queue, ToSet(p.queue) \ S)
<1>3. left \in Seq(Items) /\ ToSet(left) = ToSet(p.queue) \ S /\ IsInjective(left)
  <2>1. PICK s \in Seq(Items) : s = p.queue
    BY <1>1
  <2>2. /\ Among(s, ToSet(s) \ S) \in Seq(Items)
        /\ ToSet(Among(s, ToSet(s) \ S)) = ToSet(s) \cap (ToSet(s) \ S)
        /\ IsInjective(Among(s, ToSet(s) \ S))
    BY <1>1, <2>1, AmongFacts
  <2> QED
    BY <2>1, <2>2
<1>4. Len(left) <= Len(p.queue)
  <2>1. Len(left) = Cardinality(ToSet(left)) /\ Len(left) \in Nat
    BY <1>3, Elements
  <2>2. ToSet(left) \in SUBSET ToSet(p.queue)
    BY <1>3
  <2> HIDE DEF left
  <2> QED
    BY <1>2, <2>1, <2>2, FS_Subset
<1> HIDE DEF left
<1>5. q.queue = left /\ q = [queue |-> left, owned |-> q.owned]
      /\ q.owned = [x \in Sponsors |-> Minus(p.owned[x], Cardinality(OfSponsor(x, S)))]
  BY DEF TakeOut, left
<1>6. ASSUME NEW x \in Sponsors
      PROVE  /\ q.owned[x] = Cardinality(OfSponsor(x, ToSet(p.queue) \ S))
             /\ q.owned[x] \in 0 .. MaxSponsorSize
  <2> DEFINE A == OfSponsor(x, ToSet(p.queue))
             B == OfSponsor(x, S)
  <2>1. OfSponsor(x, ToSet(p.queue) \ S) = A \ B /\ A \cap B = B /\ B \in SUBSET A
    BY DEF OfSponsor
  <2>2. IsFiniteSet(A) /\ Cardinality(A) \in Nat
    BY <1>2, SponsorCount
  <2> HIDE DEF A, B
  <2>3. Cardinality(B) <= Cardinality(A) /\ Cardinality(B) \in Nat
    BY <2>1, <2>2, FS_Subset, FS_CardinalityType
  <2>4. Cardinality(A \ B) = Cardinality(A) - Cardinality(B)
    BY <2>1, <2>2, FS_Difference
  <2>5. p.owned[x] = Cardinality(A) /\ p.owned[x] \in 0 .. MaxSponsorSize
    BY <1>1 DEF Counted, Pools, A
  <2>6. q.owned[x] = Minus(p.owned[x], Cardinality(B))
    BY <1>5 DEF B
  <2>7. Minus(p.owned[x], Cardinality(B)) = Cardinality(A) - Cardinality(B)
    BY <2>2, <2>3, <2>5 DEF Minus
  <2> QED
    BY <2>1, <2>2, <2>3, <2>4, <2>5, <2>6, <2>7, SizeAssumption
<1> HIDE DEF q
<1>7. q.owned \in [Sponsors -> 0 .. MaxSponsorSize]
  BY <1>5, <1>6
<1>8. q \in Pools
  BY <1>3, <1>5, <1>7 DEF Pools
<1>9. Counted(q)
  BY <1>3, <1>5, <1>6 DEF Counted
<1>10. Len(q.queue) <= MaxSize
  BY <1>1, <1>2, <1>3, <1>4, <1>5, SizeAssumption
<1> QED
  BY <1>3, <1>5, <1>8, <1>9, <1>10 DEF Sound, q

(* The first items of the queue.                                             *)
LEMMA FirstFacts ==
  ASSUME Sound(pool), NEW n \in Nat
  PROVE  /\ FirstItems(n) \in Seq(Items) /\ IsInjective(FirstItems(n))
         /\ ToSet(FirstItems(n)) \subseteq ToSet(pool.queue)
<1> DEFINE m == IF n < Len(pool.queue) THEN n ELSE Len(pool.queue)
           s == SubSeq(pool.queue, 1, m)
<1>1. pool.queue \in Seq(Items) /\ IsInjective(pool.queue)
  BY DEF Sound, Pools
<1>2. /\ Len(pool.queue) \in Nat /\ DOMAIN pool.queue = 1 .. Len(pool.queue)
      /\ m \in 0 .. Len(pool.queue) /\ m \in Nat
  BY <1>1
<1>3. FirstItems(n) = s
  BY DEF FirstItems
<1> HIDE DEF m
<1>4. s \in Seq(Items) /\ Len(s) = m /\ DOMAIN s = 1 .. m /\ \A k \in 1 .. m : s[k] = pool.queue[k]
  BY <1>1, <1>2
<1>5. 1 .. m \subseteq 1 .. Len(pool.queue)
  BY <1>2
<1> HIDE DEF s
<1>6. IsInjective(s)
  BY <1>1, <1>2, <1>4, <1>5 DEF IsInjective
<1>7. ToSet(s) \subseteq ToSet(pool.queue)
  BY <1>2, <1>4, <1>5 DEF ToSet
<1> QED
  BY <1>3, <1>4, <1>6, <1>7

-----------------------------------------------------------------------------
(* What the pool and the builder hold                                        *)

Apart(q, a, b, c, d) ==
    /\ IsInjective(q) /\ IsInjective(a) /\ IsInjective(b) /\ IsInjective(c) /\ IsInjective(d)
    /\ ToSet(q) \cap ToSet(a) = {} /\ ToSet(q) \cap ToSet(b) = {}
    /\ ToSet(q) \cap ToSet(c) = {} /\ ToSet(q) \cap ToSet(d) = {}
    /\ ToSet(a) \cap ToSet(b) = {} /\ ToSet(a) \cap ToSet(c) = {} /\ ToSet(a) \cap ToSet(d) = {}
    /\ ToSet(b) \cap ToSet(c) = {} /\ ToSet(b) \cap ToSet(d) = {} /\ ToSet(c) \cap ToSet(d) = {}

LEMMA FiveJoined ==
  ASSUME NEW S, NEW q \in Seq(S), NEW a \in Seq(S), NEW b \in Seq(S), NEW c \in Seq(S),
         NEW d \in Seq(S)
  PROVE  /\ ToSet(a \o b \o c \o d) = ToSet(a) \cup ToSet(b) \cup ToSet(c) \cup ToSet(d)
         /\ ToSet(q \o (a \o b \o c \o d)) =
                ToSet(q) \cup ToSet(a) \cup ToSet(b) \cup ToSet(c) \cup ToSet(d)
         /\ IsInjective(q \o (a \o b \o c \o d)) <=> Apart(q, a, b, c, d)
<1>1. /\ a \o b \in Seq(S) /\ ToSet(a \o b) = ToSet(a) \cup ToSet(b)
      /\ IsInjective(a \o b) <=>
             IsInjective(a) /\ IsInjective(b) /\ ToSet(a) \cap ToSet(b) = {}
  BY Joined
<1> DEFINE ab == a \o b
<1> HIDE DEF ab
<1>2. ab \in Seq(S)
  BY <1>1 DEF ab
<1>3. /\ ab \o c \in Seq(S) /\ ToSet(ab \o c) = ToSet(ab) \cup ToSet(c)
      /\ IsInjective(ab \o c) <=>
             IsInjective(ab) /\ IsInjective(c) /\ ToSet(ab) \cap ToSet(c) = {}
  BY <1>2, Joined
<1> DEFINE abc == ab \o c
<1> HIDE DEF abc
<1>4. abc \in Seq(S)
  BY <1>3 DEF abc
<1>5. /\ abc \o d \in Seq(S) /\ ToSet(abc \o d) = ToSet(abc) \cup ToSet(d)
      /\ IsInjective(abc \o d) <=>
             IsInjective(abc) /\ IsInjective(d) /\ ToSet(abc) \cap ToSet(d) = {}
  BY <1>4, Joined
<1> DEFINE abcd == abc \o d
<1> HIDE DEF abcd
<1>6. abcd \in Seq(S)
  BY <1>5 DEF abcd
<1>7. /\ ToSet(q \o abcd) = ToSet(q) \cup ToSet(abcd)
      /\ IsInjective(q \o abcd) <=>
             IsInjective(q) /\ IsInjective(abcd) /\ ToSet(q) \cap ToSet(abcd) = {}
  BY <1>6, Joined
<1>8. a \o b \o c \o d = abcd
  BY DEF ab, abc, abcd
<1>9. /\ ToSet(ab) = ToSet(a) \cup ToSet(b) /\ ToSet(abc) = ToSet(ab) \cup ToSet(c)
      /\ ToSet(abcd) = ToSet(abc) \cup ToSet(d)
      /\ IsInjective(ab) <=> IsInjective(a) /\ IsInjective(b) /\ ToSet(a) \cap ToSet(b) = {}
      /\ IsInjective(abc) <=> IsInjective(ab) /\ IsInjective(c) /\ ToSet(ab) \cap ToSet(c) = {}
      /\ IsInjective(abcd) <=> IsInjective(abc) /\ IsInjective(d) /\ ToSet(abc) \cap ToSet(d) = {}
  BY <1>1, <1>3, <1>5 DEF ab, abc, abcd
<1>10. ToSet(abcd) = ToSet(a) \cup ToSet(b) \cup ToSet(c) \cup ToSet(d)
  BY <1>9
<1>11. IsInjective(q \o abcd) <=> Apart(q, a, b, c, d)
  BY <1>7, <1>9 DEF Apart
<1> QED
  BY <1>7, <1>8, <1>10, <1>11

InHand == ToSet(batch) \cup ToSet(restorable) \cup ToSet(block) \cup ToSet(next)

HandTypes ==
    /\ batch \in Seq(Items) /\ restorable \in Seq(Items) /\ block \in Seq(Items)
    /\ next \in Seq(Items)
    /\ streamed \subseteq Items
    /\ streaming \in BOOLEAN /\ nextFetched \in BOOLEAN /\ streamLock \in BOOLEAN
    /\ prep \in BOOLEAN /\ finish \in BOOLEAN
    /\ buildPc \in {"idle", "starting", "stream", "batch", "prefetching", "ending", "failing"}
    /\ fate \in [Items -> Fates]

Fated == \A i \in Items : (fate[i] = "in") <=> i \in ToSet(pool.queue) \cup InHand

Stages ==
    /\ streaming = streamLock
    /\ ~streaming => /\ buildPc \in {"idle", "starting"} /\ ~prep /\ ~nextFetched
                     /\ restorable = <<>> /\ streamed = {}
    /\ finish = (streaming /\ buildPc \in {"idle", "starting"})
    /\ ~nextFetched => next = <<>>
    /\ prep => ~nextFetched
    /\ buildPc = "batch" => ~prep /\ ~nextFetched
    /\ buildPc \notin {"batch", "prefetching"} => batch = <<>>
    /\ buildPc \in {"idle", "starting"} => block = <<>>

Tracked == InHand \subseteq streamed /\ ToSet(pool.queue) \cap streamed = {}

AllApart == Apart(pool.queue, batch, restorable, block, next)

Held == HandTypes /\ Sound(pool) /\ AllApart /\ Fated /\ Stages /\ Tracked

(* The invariant of the model, with the hands of the builder one by one.     *)
LEMMA HeldIsInv == Held <=> MempoolInv
<1>1. SUFFICES ASSUME batch \in Seq(Items), restorable \in Seq(Items), block \in Seq(Items),
                      next \in Seq(Items), pool \in Pools
               PROVE  Held <=> MempoolInv
  BY DEF Held, HandTypes, MempoolInv, MempoolTypeOK, Sound, Pools
<1>2. pool.queue \in Seq(Items)
  BY <1>1 DEF Pools
<1>3. /\ ToSet(InStream) = InHand /\ ToSet(pool.queue \o InStream) = ToSet(pool.queue) \cup InHand
      /\ NeverTwice <=> AllApart
  <2>1. PICK q \in Seq(Items) : q = pool.queue
    BY <1>2
  <2>2. /\ ToSet(InStream) = ToSet(batch) \cup ToSet(restorable) \cup ToSet(block) \cup ToSet(next)
        /\ ToSet(q \o InStream) =
               ToSet(q) \cup ToSet(batch) \cup ToSet(restorable) \cup ToSet(block) \cup ToSet(next)
        /\ IsInjective(q \o InStream) <=> Apart(q, batch, restorable, block, next)
    BY <1>1, FiveJoined DEF InStream
  <2> QED
    BY <2>1, <2>2 DEF NeverTwice, AllApart, InHand
<1>4. Fated <=> NothingForgotten
  BY <1>3 DEF Fated, NothingForgotten
<1>5. StreamInv <=> Stages /\ Tracked
  BY <1>3 DEF StreamInv, Stages, Tracked
<1>6. Sound(pool) <=> /\ Len(pool.queue) <= MaxSize /\ IsInjective(pool.queue) /\ OwnedIsExact
  BY <1>1 DEF Sound, Counted, OwnedIsExact
<1>7. AllApart => IsInjective(pool.queue)
  BY DEF AllApart, Apart
<1>8. MempoolTypeOK <=> HandTypes /\ Len(pool.queue) <= MaxSize
  BY <1>1 DEF MempoolTypeOK, HandTypes, Pools
<1> QED
  BY <1>3, <1>4, <1>5, <1>6, <1>7, <1>8 DEF Held, MempoolInv

LEMMA BecomesFacts ==
  ASSUME fate \in [Items -> Fates], NEW S, NEW what \in Fates, Becomes(S, what)
  PROVE  /\ fate' \in [Items -> Fates]
         /\ \A i \in Items : fate'[i] = IF i \in S THEN what ELSE fate[i]
<1>1. fate' = [i \in Items |-> IF i \in S THEN what ELSE fate[i]]
  BY DEF Becomes
<1> QED
  BY <1>1

LEMMA EmptyHand == ToSet(<<>>) = {} /\ IsInjective(<<>>) /\ \A S : <<>> \in Seq(S)
  BY DEF ToSet, IsInjective

LEMMA InitHeld == MempoolInit => Held
<1> SUFFICES ASSUME MempoolInit PROVE Held
  OBVIOUS
<1>1. /\ pool = [queue |-> <<>>, owned |-> [s \in Sponsors |-> 0]]
      /\ streaming = FALSE /\ streamed = {} /\ next = <<>> /\ nextFetched = FALSE
      /\ streamLock = FALSE /\ buildPc = "idle" /\ batch = <<>> /\ restorable = <<>>
      /\ block = <<>> /\ prep = FALSE /\ finish = FALSE /\ fate = [i \in Items |-> "none"]
  BY DEF MempoolInit
<1>2. pool.queue = <<>> /\ pool.owned = [s \in Sponsors |-> 0]
  BY <1>1
<1>3. HandTypes
  BY <1>1, EmptyHand DEF HandTypes, Fates
<1>4. Sound(pool)
  <2>1. pool \in Pools
    BY <1>1, EmptyHand, SizeAssumption DEF Pools
  <2>2. \A x : Cardinality(OfSponsor(x, ToSet(pool.queue))) = 0
    <3>1. \A x : OfSponsor(x, ToSet(pool.queue)) = {}
      BY <1>2, EmptyHand DEF OfSponsor
    <3> QED
      BY <3>1, FS_EmptySet
  <2>3. Len(pool.queue) = 0
    BY <1>2
  <2>4. Counted(pool)
    BY <1>2, <2>2 DEF Counted
  <2> QED
    BY <1>2, <2>1, <2>3, <2>4, EmptyHand, SizeAssumption DEF Sound
<1>5. ToSet(pool.queue) = {} /\ InHand = {}
  BY <1>1, <1>2, EmptyHand DEF InHand
<1>6. AllApart
  BY <1>1, <1>2, EmptyHand DEF AllApart, Apart
<1>7. Fated
  BY <1>1, <1>5 DEF Fated
<1>8. Stages /\ Tracked
  BY <1>1, <1>5 DEF Stages, Tracked
<1> QED
  BY <1>3, <1>4, <1>6, <1>7, <1>8 DEF Held

-----------------------------------------------------------------------------
(* Calls that leave the stream alone                                         *)

(* It is enough that the pool stays sound, that nothing streamed gets into   *)
(* it, and that what entered or left it has the fate that says so.           *)
LEMMA PoolStep ==
  ASSUME Held, UNCHANGED <<stream, build>>, Sound(pool'),
         ToSet(pool'.queue) \cap streamed = {}, fate' \in [Items -> Fates],
         \A i \in Items : (fate'[i] = "in") <=> i \in ToSet(pool'.queue) \cup InHand
  PROVE  Held'
<1>1. /\ batch' = batch /\ restorable' = restorable /\ block' = block /\ next' = next
      /\ streamed' = streamed /\ streaming' = streaming /\ nextFetched' = nextFetched
      /\ streamLock' = streamLock /\ prep' = prep /\ finish' = finish /\ buildPc' = buildPc
  BY DEF stream, build
<1>2. HandTypes /\ AllApart /\ Stages /\ Tracked
  BY DEF Held
<1>3. HandTypes'
  BY <1>1, <1>2 DEF HandTypes
<1>4. InHand' = InHand
  BY <1>1 DEF InHand
<1>5. AllApart'
  <2>1. ToSet(pool'.queue) \cap InHand = {} /\ IsInjective(pool'.queue)
    BY <1>2 DEF Tracked, Sound
  <2> QED
    BY <1>1, <1>2, <2>1 DEF AllApart, Apart, InHand
<1>6. Fated'
  BY <1>4 DEF Fated
<1>7. Stages'
  BY <1>1, <1>2 DEF Stages
<1>8. Tracked'
  BY <1>1, <1>2, <1>4 DEF Tracked
<1> QED
  BY <1>3, <1>5, <1>6, <1>7, <1>8 DEF Held

LEMMA HeldFacts ==
  ASSUME Held
  PROVE  /\ Sound(pool) /\ fate \in [Items -> Fates] /\ pool.queue \in Seq(Items)
         /\ ToSet(pool.queue) \subseteq Items
         /\ ToSet(pool.queue) \cap streamed = {} /\ InHand \subseteq streamed
         /\ InHand \subseteq Items
         /\ \A i \in Items : (fate[i] = "in") <=> i \in ToSet(pool.queue) \cup InHand
<1>1. HandTypes /\ Sound(pool) /\ Fated /\ Tracked
  BY DEF Held
<1>2. pool.queue \in Seq(Items)
  BY <1>1 DEF Sound, Pools
<1>3. ToSet(pool.queue) \subseteq Items
  BY <1>2, Elements
<1>4. InHand \subseteq Items
  BY <1>1 DEF Tracked, HandTypes
<1> QED
  BY <1>1, <1>2, <1>3, <1>4 DEF HandTypes, Fated, Tracked

LEMMA AddItemHeld ==
  ASSUME Held, NEW i \in Items, AddItem(i)
  PROVE  Held'
<1>1. /\ ~(streaming /\ i \in streamed) /\ pool' = AddOne(pool, i, FALSE)
      /\ Becomes({i} \cap ToSet(pool'.queue), "in") /\ UNCHANGED <<stream, build>>
  BY DEF AddItem
<1>2. /\ Sound(pool) /\ fate \in [Items -> Fates] /\ ToSet(pool.queue) \cap streamed = {}
      /\ InHand \subseteq streamed
      /\ \A j \in Items : (fate[j] = "in") <=> j \in ToSet(pool.queue) \cup InHand
  BY HeldFacts
<1>3. i \notin streamed
  BY <1>1 DEF Held, Stages
<1>4. /\ Sound(pool') /\ ToSet(pool.queue) \subseteq ToSet(pool'.queue)
      /\ ToSet(pool'.queue) \subseteq ToSet(pool.queue) \cup {i}
  BY <1>1, <1>2, AddOneFacts
<1>5. "in" \in Fates
  BY DEF Fates
<1>6. /\ fate' \in [Items -> Fates]
      /\ \A j \in Items : fate'[j] = IF j \in {i} \cap ToSet(pool'.queue) THEN "in" ELSE fate[j]
  <2>1. PICK S : S = {i} \cap ToSet(pool'.queue)
    OBVIOUS
  <2>2. /\ fate' \in [Items -> Fates]
        /\ \A j \in Items : fate'[j] = IF j \in S THEN "in" ELSE fate[j]
    <3>1. Becomes(S, "in")
      BY <1>1, <2>1
    <3> QED
      BY <1>2, <1>5, <3>1, BecomesFacts
  <2> QED
    BY <2>1, <2>2
<1>7. ToSet(pool'.queue) \cap streamed = {}
  BY <1>2, <1>3, <1>4
<1>8. ASSUME NEW j \in Items
      PROVE  (fate'[j] = "in") <=> j \in ToSet(pool'.queue) \cup InHand
  <2>1. CASE j = i
    BY <1>2, <1>3, <1>4, <1>6, <2>1
  <2>2. CASE j # i
    BY <1>2, <1>4, <1>6, <2>2
  <2> QED
    BY <2>1, <2>2
<1> QED
  BY <1>1, <1>4, <1>6, <1>7, <1>8, PoolStep

(* Items leave for good.                                                     *)
LEMMA GoneHeld ==
  ASSUME Held, NEW S, S \subseteq ToSet(pool.queue), Sound(pool'),
         ToSet(pool'.queue) = ToSet(pool.queue) \ S, Becomes(S, "gone"),
         UNCHANGED <<stream, build>>
  PROVE  Held'
<1>1. /\ fate \in [Items -> Fates] /\ ToSet(pool.queue) \cap streamed = {}
      /\ InHand \subseteq streamed
      /\ \A j \in Items : (fate[j] = "in") <=> j \in ToSet(pool.queue) \cup InHand
  BY HeldFacts
<1>2. "gone" \in Fates
  BY DEF Fates
<1>3. /\ fate' \in [Items -> Fates]
      /\ \A j \in Items : fate'[j] = IF j \in S THEN "gone" ELSE fate[j]
  BY <1>1, <1>2, BecomesFacts
<1>4. ToSet(pool'.queue) \cap streamed = {}
  BY <1>1
<1>5. ASSUME NEW j \in Items
      PROVE  (fate'[j] = "in") <=> j \in ToSet(pool'.queue) \cup InHand
  <2>1. CASE j \in S
    BY <1>1, <1>3, <2>1
  <2>2. CASE j \notin S
    BY <1>1, <1>3, <2>2
  <2> QED
    BY <2>1, <2>2
<1> QED
  BY <1>3, <1>4, <1>5, PoolStep

LEMMA RemoveItemHeld ==
  ASSUME Held, NEW i \in Items, RemoveItem(i)
  PROVE  Held'
<1>1. /\ pool' = TakeOut(pool, {i}) /\ Becomes({i}, "gone") /\ UNCHANGED <<stream, build>>
      /\ {i} \subseteq ToSet(pool.queue)
  BY DEF RemoveItem, Has
<1>2. Sound(pool)
  BY HeldFacts
<1>3. Sound(pool') /\ ToSet(pool'.queue) = ToSet(pool.queue) \ {i}
  BY <1>1, <1>2, TakeOutFacts
<1> QED
  BY <1>1, <1>3, GoneHeld

LEMMA SetMinTimestampHeld ==
  ASSUME Held, NEW t, SetMinTimestamp(t)
  PROVE  Held'
<1>1. PICK S : S = {i \in ToSet(pool.queue) : Expiry[i] < t}
  OBVIOUS
<1>2. /\ pool' = TakeOut(pool, S) /\ Becomes(S, "gone") /\ UNCHANGED <<stream, build>>
      /\ S \subseteq ToSet(pool.queue)
  BY <1>1 DEF SetMinTimestamp
<1>3. Sound(pool)
  BY HeldFacts
<1>4. Sound(pool') /\ ToSet(pool'.queue) = ToSet(pool.queue) \ S
  BY <1>2, <1>3, TakeOutFacts
<1> QED
  BY <1>2, <1>4, GoneHeld

LEMMA OwnRoom == ASSUME NEW p, Sound(p) PROVE Room(p, {})
<1>1. /\ p \in Pools /\ p.queue \in Seq(Items) /\ Len(p.queue) <= MaxSize
      /\ IsInjective(p.queue) /\ Counted(p)
  BY DEF Sound, Pools
<1>2. Len(p.queue) = Cardinality(ToSet(p.queue))
  BY <1>1, Elements
<1>3. ASSUME NEW x \in Sponsors
      PROVE  Cardinality(OfSponsor(x, ToSet(p.queue))) <= MaxSponsorSize
  <2>1. p.owned[x] \in 0 .. MaxSponsorSize /\ p.owned[x] = Cardinality(OfSponsor(x, ToSet(p.queue)))
    BY <1>1 DEF Pools, Counted
  <2> QED
    BY <2>1, SizeAssumption
<1>4. ToSet(p.queue) \cup {} = ToSet(p.queue)
  OBVIOUS
<1> QED
  BY <1>1, <1>2, <1>3, <1>4 DEF Room

(* Top puts back all that it does not drop: there was a place for it.        *)
LEMMA TopHeld ==
  ASSUME Held, NEW n \in Nat, NEW drop \in SUBSET ToSet(FirstItems(n)), Top(n, drop)
  PROVE  Held'
<1>1. Sound(pool)
  BY HeldFacts
<1>2. PICK seen \in Seq(Items) : seen = FirstItems(n) /\ IsInjective(seen)
                                 /\ ToSet(seen) \subseteq ToSet(pool.queue)
  BY <1>1, FirstFacts
<1>3. PICK p : p = TakeOut(pool, ToSet(seen))
  OBVIOUS
<1>4. Sound(p) /\ ToSet(p.queue) = ToSet(pool.queue) \ ToSet(seen)
  BY <1>1, <1>2, <1>3, TakeOutFacts
<1>5. PICK s \in Seq(Items) : s = Among(seen, ToSet(seen) \ drop)
                              /\ ToSet(s) = ToSet(seen) \cap (ToSet(seen) \ drop)
  BY <1>2, AmongFacts
<1>6. pool' = Restore(p, s) /\ Becomes(drop, "gone") /\ UNCHANGED <<stream, build>>
  BY <1>2, <1>3, <1>5 DEF Top
<1>7. IsFiniteSet(ToSet(pool.queue) \cup {})
  <2>1. pool.queue \in Seq(Items)
    BY HeldFacts
  <2> QED
    BY <2>1, Elements
<1>8. Room(p, ToSet(s))
  <2>1. Room(pool, {})
    BY <1>1, OwnRoom
  <2>2. ToSet(p.queue) \cup ToSet(s) \subseteq ToSet(pool.queue) \cup {}
    BY <1>2, <1>4, <1>5
  <2> QED
    BY <1>7, <2>1, <2>2, RoomShrinks
<1>9. /\ Sound(pool') /\ ToSet(p.queue) \subseteq ToSet(pool'.queue)
      /\ ToSet(pool'.queue) \subseteq ToSet(p.queue) \cup ToSet(s)
      /\ ToSet(s) \subseteq ToSet(pool'.queue)
  BY <1>4, <1>6, <1>8, RestoreFacts
<1>10. drop \subseteq ToSet(pool.queue) /\ ToSet(pool'.queue) = ToSet(pool.queue) \ drop
  BY <1>2, <1>4, <1>5, <1>9
<1> QED
  BY <1>6, <1>9, <1>10, GoneHeld

-----------------------------------------------------------------------------
(* The builder                                                               *)

LEMMA HandFacts ==
  ASSUME Held
  PROVE  HandTypes /\ Sound(pool) /\ AllApart /\ Fated /\ Stages /\ Tracked
  BY DEF Held

LEMMA StartBuildHeld == ASSUME Held, StartBuild PROVE Held'
<1>1. /\ buildPc = "idle" /\ buildPc' = "starting"
      /\ pool' = pool /\ batch' = batch /\ restorable' = restorable /\ block' = block
      /\ next' = next /\ streamed' = streamed /\ streaming' = streaming
      /\ nextFetched' = nextFetched /\ streamLock' = streamLock /\ prep' = prep
      /\ finish' = finish /\ fate' = fate
  BY DEF StartBuild, stream
<1>2. InHand' = InHand
  BY <1>1 DEF InHand
<1>3. HandTypes'
  BY <1>1, HandFacts DEF HandTypes
<1>4. Sound(pool')
  BY <1>1, HandFacts
<1>5. AllApart'
  BY <1>1, HandFacts DEF AllApart
<1>6. Fated'
  BY <1>1, <1>2, HandFacts DEF Fated
<1>7. Stages'
  BY <1>1, HandFacts DEF Stages
<1>8. Tracked'
  BY <1>1, <1>2, HandFacts DEF Tracked
<1> QED
  BY <1>3, <1>4, <1>5, <1>6, <1>7, <1>8 DEF Held

(* The lock is free, so the last stream has been finished.                   *)
LEMMA StartStreamingHeld == ASSUME Held, StartStreaming PROVE Held'
<1>1. /\ buildPc = "starting" /\ ~streamLock /\ streamLock' = TRUE /\ streaming' = TRUE
      /\ streamed' = {} /\ buildPc' = "stream" /\ restorable' = <<>> /\ block' = <<>>
      /\ pool' = pool /\ next' = next /\ nextFetched' = nextFetched /\ batch' = batch
      /\ prep' = prep /\ finish' = finish /\ fate' = fate
  BY DEF StartStreaming
<1>2. /\ restorable = <<>> /\ block = <<>> /\ next = <<>> /\ batch = <<>> /\ ~nextFetched
      /\ ~prep /\ ~finish
  <2>1. ~streaming
    BY <1>1, HandFacts DEF Stages
  <2> QED
    BY <1>1, <2>1, HandFacts DEF Stages
<1>3. InHand' = InHand /\ InHand' = {}
  BY <1>1, <1>2, EmptyHand DEF InHand
<1>4. HandTypes'
  BY <1>1, <1>2, HandFacts, EmptyHand DEF HandTypes
<1>5. Sound(pool')
  BY <1>1, HandFacts
<1>6. AllApart'
  BY <1>1, <1>2, HandFacts DEF AllApart
<1>7. Fated'
  BY <1>1, <1>3, HandFacts DEF Fated
<1>8. Stages'
  BY <1>1, <1>2, HandFacts DEF Stages
<1>9. Tracked'
  BY <1>1, <1>3, HandFacts DEF Tracked
<1> QED
  BY <1>4, <1>5, <1>6, <1>7, <1>8, <1>9 DEF Held

(* The items that a stream takes from the pool.                              *)
LEMMA StreamTakes ==
  ASSUME Held, NEW txs, txs = FirstItems(StreamBatch), pool' = TakeOut(pool, ToSet(txs)),
         streamed' = streamed \cup ToSet(txs)
  PROVE  /\ txs \in Seq(Items) /\ IsInjective(txs) /\ Sound(pool')
         /\ ToSet(txs) \cup ToSet(pool'.queue) = ToSet(pool.queue)
         /\ ToSet(txs) \cap ToSet(pool'.queue) = {} /\ ToSet(txs) \cap InHand = {}
         /\ ToSet(pool'.queue) \cap InHand = {}
         /\ ToSet(pool'.queue) \cap streamed' = {} /\ streamed' \subseteq Items
         /\ InHand \cup ToSet(txs) \subseteq streamed'
<1>1. Sound(pool) /\ StreamBatch \in Nat
  BY HandFacts, SizeAssumption
<1>2. txs \in Seq(Items) /\ IsInjective(txs) /\ ToSet(txs) \subseteq ToSet(pool.queue)
  BY <1>1, FirstFacts
<1>3. Sound(pool') /\ ToSet(pool'.queue) = ToSet(pool.queue) \ ToSet(txs)
  BY <1>1, <1>2, TakeOutFacts
<1>4. /\ ToSet(pool.queue) \cap streamed = {} /\ InHand \subseteq streamed
      /\ ToSet(pool.queue) \subseteq Items /\ streamed \subseteq Items
  BY HeldFacts, HandFacts DEF HandTypes
<1> QED
  BY <1>2, <1>3, <1>4

LEMMA StreamHeld == ASSUME Held, Stream PROVE Held'
<1> DEFINE txs == IF nextFetched THEN next ELSE FirstItems(StreamBatch)
<1>1. /\ buildPc = "stream" /\ ~prep /\ batch' = txs /\ buildPc' = "batch"
      /\ streaming' = streaming /\ streamLock' = streamLock /\ restorable' = restorable
      /\ block' = block /\ prep' = prep /\ finish' = finish /\ fate' = fate
      /\ IF nextFetched
         THEN next' = <<>> /\ nextFetched' = FALSE /\ UNCHANGED <<pool, streamed>>
         ELSE /\ pool' = TakeOut(pool, ToSet(txs)) /\ streamed' = streamed \cup ToSet(txs)
              /\ UNCHANGED <<next, nextFetched>>
  BY DEF Stream
<1>2. batch = <<>> /\ ToSet(batch) = {}
  BY <1>1, HandFacts, EmptyHand DEF Stages
<1>3. CASE nextFetched
  <2>1. batch' = next /\ next' = <<>> /\ nextFetched' = FALSE /\ pool' = pool /\ streamed' = streamed
    BY <1>1, <1>3
  <2>2. ToSet(next') = {} /\ IsInjective(next') /\ next' \in Seq(Items)
    BY <2>1, EmptyHand
  <2>3. InHand' = InHand
    BY <1>1, <1>2, <2>1, <2>2 DEF InHand
  <2>4. HandTypes'
    BY <1>1, <2>1, <2>2, HandFacts DEF HandTypes
  <2>5. Sound(pool')
    BY <2>1, HandFacts
  <2>6. AllApart'
    BY <1>1, <2>1, <2>2, HandFacts DEF AllApart, Apart
  <2>7. Fated'
    BY <1>1, <2>1, <2>3, HandFacts DEF Fated
  <2>8. Stages'
    BY <1>1, <2>1, HandFacts DEF Stages
  <2>9. Tracked'
    BY <2>1, <2>3, HandFacts DEF Tracked
  <2> QED
    BY <2>4, <2>5, <2>6, <2>7, <2>8, <2>9 DEF Held
<1>4. CASE ~nextFetched
  <2>1. /\ batch' = FirstItems(StreamBatch) /\ pool' = TakeOut(pool, ToSet(batch'))
        /\ streamed' = streamed \cup ToSet(batch') /\ next' = next /\ nextFetched' = nextFetched
    BY <1>1, <1>4
  <2>2. PICK b : b = batch'
    OBVIOUS
  <2>3. /\ b \in Seq(Items) /\ IsInjective(b) /\ Sound(pool')
        /\ ToSet(b) \cup ToSet(pool'.queue) = ToSet(pool.queue)
        /\ ToSet(b) \cap ToSet(pool'.queue) = {} /\ ToSet(b) \cap InHand = {}
        /\ ToSet(pool'.queue) \cap InHand = {}
        /\ ToSet(pool'.queue) \cap streamed' = {} /\ streamed' \subseteq Items
        /\ InHand \cup ToSet(b) \subseteq streamed'
    BY <2>1, <2>2, StreamTakes
  <2>4. InHand' = InHand \cup ToSet(b)
    BY <1>1, <1>2, <2>1, <2>2 DEF InHand
  <2>5. HandTypes'
    BY <1>1, <2>1, <2>2, <2>3, HandFacts DEF HandTypes
  <2>6. AllApart'
    <3>1. IsInjective(pool'.queue)
      BY <2>3 DEF Sound
    <3>2. /\ IsInjective(restorable) /\ IsInjective(block) /\ IsInjective(next)
          /\ ToSet(restorable) \cap ToSet(block) = {} /\ ToSet(restorable) \cap ToSet(next) = {}
          /\ ToSet(block) \cap ToSet(next) = {}
      BY HandFacts DEF AllApart, Apart
    <3> QED
      BY <1>1, <2>1, <2>2, <2>3, <3>1, <3>2 DEF AllApart, Apart, InHand
  <2>7. Fated'
    BY <1>1, <2>3, <2>4, HandFacts DEF Fated
  <2>8. Stages'
    BY <1>1, <1>4, <2>1, HandFacts DEF Stages
  <2>9. Tracked'
    BY <2>3, <2>4 DEF Tracked
  <2> QED
    BY <2>3, <2>5, <2>6, <2>7, <2>8, <2>9 DEF Held
<1> QED
  BY <1>3, <1>4

LEMMA StreamEmptyHeld == ASSUME Held, StreamEmpty PROVE Held'
<1>1. /\ buildPc = "stream" /\ ~prep /\ (nextFetched => next = <<>>)
      /\ next' = <<>> /\ nextFetched' = FALSE /\ buildPc' = "ending"
      /\ pool' = pool /\ streaming' = streaming /\ streamed' = streamed
      /\ streamLock' = streamLock /\ batch' = batch /\ restorable' = restorable
      /\ block' = block /\ prep' = prep /\ finish' = finish /\ fate' = fate
  BY DEF StreamEmpty
<1>2. next' = next
  BY <1>1, HandFacts DEF Stages
<1>3. InHand' = InHand
  BY <1>1, <1>2 DEF InHand
<1>4. HandTypes'
  BY <1>1, <1>2, HandFacts DEF HandTypes
<1>5. Sound(pool')
  BY <1>1, HandFacts
<1>6. AllApart'
  BY <1>1, <1>2, HandFacts DEF AllApart
<1>7. Fated'
  BY <1>1, <1>3, HandFacts DEF Fated
<1>8. Stages'
  BY <1>1, HandFacts DEF Stages
<1>9. Tracked'
  BY <1>1, <1>3, HandFacts DEF Tracked
<1> QED
  BY <1>4, <1>5, <1>6, <1>7, <1>8, <1>9 DEF Held

LEMMA StartPrepareHeld == ASSUME Held, StartPrepare PROVE Held'
<1>1. /\ buildPc = "batch" /\ buildPc' = "prefetching" /\ prep' = TRUE
      /\ pool' = pool /\ batch' = batch /\ restorable' = restorable /\ block' = block
      /\ next' = next /\ streamed' = streamed /\ streaming' = streaming
      /\ nextFetched' = nextFetched /\ streamLock' = streamLock
      /\ finish' = finish /\ fate' = fate
  BY DEF StartPrepare, stream
<1>2. InHand' = InHand
  BY <1>1 DEF InHand
<1>3. HandTypes'
  BY <1>1, HandFacts DEF HandTypes
<1>4. Sound(pool')
  BY <1>1, HandFacts
<1>5. AllApart'
  BY <1>1, HandFacts DEF AllApart
<1>6. Fated'
  BY <1>1, <1>2, HandFacts DEF Fated
<1>7. Stages'
  BY <1>1, HandFacts DEF Stages
<1>8. Tracked'
  BY <1>1, <1>2, HandFacts DEF Tracked
<1> QED
  BY <1>3, <1>4, <1>5, <1>6, <1>7, <1>8 DEF Held

(* A build goes on as long as a prefetch is to run, so nothing waits in next *)
LEMMA PrepareStreamHeld == ASSUME Held, PrepareStream PROVE Held'
<1>1. /\ prep /\ prep' = FALSE /\ next' = FirstItems(StreamBatch) /\ nextFetched' = TRUE
      /\ pool' = TakeOut(pool, ToSet(next')) /\ streamed' = streamed \cup ToSet(next')
      /\ streaming' = streaming /\ streamLock' = streamLock /\ buildPc' = buildPc
      /\ batch' = batch /\ restorable' = restorable /\ block' = block
      /\ finish' = finish /\ fate' = fate
  BY DEF PrepareStream
<1>2. streaming /\ ~nextFetched /\ next = <<>> /\ ToSet(next) = {} /\ buildPc # "batch"
  <2>1. streaming /\ ~nextFetched /\ buildPc # "batch"
    BY <1>1, HandFacts DEF Stages
  <2> QED
    BY <2>1, HandFacts, EmptyHand DEF Stages
<1>3. PICK b : b = next'
  OBVIOUS
<1>4. /\ b \in Seq(Items) /\ IsInjective(b) /\ Sound(pool')
      /\ ToSet(b) \cup ToSet(pool'.queue) = ToSet(pool.queue)
      /\ ToSet(b) \cap ToSet(pool'.queue) = {} /\ ToSet(b) \cap InHand = {}
      /\ ToSet(pool'.queue) \cap InHand = {}
      /\ ToSet(pool'.queue) \cap streamed' = {} /\ streamed' \subseteq Items
      /\ InHand \cup ToSet(b) \subseteq streamed'
  BY <1>1, <1>3, StreamTakes
<1>5. InHand' = InHand \cup ToSet(b)
  BY <1>1, <1>2, <1>3 DEF InHand
<1>6. HandTypes'
  BY <1>1, <1>3, <1>4, HandFacts DEF HandTypes
<1>7. AllApart'
  <2>1. IsInjective(pool'.queue)
    BY <1>4 DEF Sound
  <2>2. /\ IsInjective(batch) /\ IsInjective(restorable) /\ IsInjective(block)
        /\ ToSet(batch) \cap ToSet(restorable) = {} /\ ToSet(batch) \cap ToSet(block) = {}
        /\ ToSet(restorable) \cap ToSet(block) = {}
    BY HandFacts DEF AllApart, Apart
  <2> QED
    BY <1>1, <1>3, <1>4, <2>1, <2>2 DEF AllApart, Apart, InHand
<1>8. Fated'
  BY <1>1, <1>4, <1>5, HandFacts DEF Fated
<1>9. Stages'
  BY <1>1, <1>2, HandFacts DEF Stages
<1>10. Tracked'
  BY <1>4, <1>5 DEF Tracked
<1> QED
  BY <1>4, <1>6, <1>7, <1>8, <1>9, <1>10 DEF Held

(* Each item of the batch gets into the block, is restorable, or has a fate. *)
LEMMA ExecutesHeld ==
  ASSUME Held, NEW inc \in SUBSET ToSet(batch), NEW res \in SUBSET ToSet(batch), NEW kept,
         Executing, Executes(inc, res, kept), finish' = finish,
         buildPc' \in {"stream", "ending", "failing"}
  PROVE  Held'
<1>1. /\ inc \cap res = {} /\ kept \subseteq res
      /\ block' = block \o Among(batch, inc) /\ restorable' = restorable \o Among(batch, kept)
      /\ batch' = <<>> /\ pool' = pool /\ streaming' = streaming /\ streamed' = streamed
      /\ next' = next /\ nextFetched' = nextFetched /\ streamLock' = streamLock /\ prep' = prep
  BY DEF Executes, stream
<1>2. fate' = [i \in Items |->
                 CASE i \in res \ kept -> "lost"
                   [] i \in ToSet(batch) \ (inc \cup res) -> "gone"
                   [] OTHER -> fate[i]]
  BY DEF Executes
<1>3. /\ fate' \in [Items -> Fates]
      /\ \A i \in Items :
             (fate'[i] = "in") <=> (fate[i] = "in" /\ i \notin res \ kept
                                    /\ i \notin ToSet(batch) \ (inc \cup res))
  BY <1>2, HandFacts DEF HandTypes, Fates
<1>4. PICK b \in Seq(Items), r \in Seq(Items), k \in Seq(Items) :
          b = batch /\ r = restorable /\ k = block
  BY HandFacts DEF HandTypes
<1>5. IsInjective(b) /\ inc \subseteq ToSet(b) /\ kept \subseteq ToSet(b)
  BY <1>1, <1>4, HandFacts DEF AllApart, Apart
<1>6. PICK i1 : i1 = Among(b, inc)
  OBVIOUS
<1>7. PICK k1 : k1 = Among(b, kept)
  OBVIOUS
<1>8. i1 \in Seq(Items) /\ ToSet(i1) = inc /\ IsInjective(i1)
  <2>1. ToSet(b) \cap inc = inc
    BY <1>5
  <2> QED
    BY <1>5, <1>6, <2>1, AmongFacts
<1>9. k1 \in Seq(Items) /\ ToSet(k1) = kept /\ IsInjective(k1)
  <2>1. ToSet(b) \cap kept = kept
    BY <1>5
  <2> QED
    BY <1>5, <1>7, <2>1, AmongFacts
<1>10. /\ k \o i1 \in Seq(Items) /\ ToSet(k \o i1) = ToSet(k) \cup ToSet(i1)
       /\ IsInjective(k \o i1) <=>
              IsInjective(k) /\ IsInjective(i1) /\ ToSet(k) \cap ToSet(i1) = {}
  BY <1>8, Joined
<1>11. /\ r \o k1 \in Seq(Items) /\ ToSet(r \o k1) = ToSet(r) \cup ToSet(k1)
       /\ IsInjective(r \o k1) <=>
              IsInjective(r) /\ IsInjective(k1) /\ ToSet(r) \cap ToSet(k1) = {}
  BY <1>9, Joined
<1>12. /\ block' \in Seq(Items) /\ restorable' \in Seq(Items)
       /\ ToSet(block') = ToSet(block) \cup inc /\ ToSet(restorable') = ToSet(restorable) \cup kept
  BY <1>1, <1>4, <1>6, <1>7, <1>8, <1>9, <1>10, <1>11
<1>13. /\ IsInjective(pool.queue) /\ IsInjective(next) /\ IsInjective(block)
       /\ IsInjective(restorable)
       /\ ToSet(pool.queue) \cap ToSet(batch) = {} /\ ToSet(pool.queue) \cap ToSet(restorable) = {}
       /\ ToSet(pool.queue) \cap ToSet(block) = {} /\ ToSet(pool.queue) \cap ToSet(next) = {}
       /\ ToSet(batch) \cap ToSet(restorable) = {} /\ ToSet(batch) \cap ToSet(block) = {}
       /\ ToSet(batch) \cap ToSet(next) = {} /\ ToSet(restorable) \cap ToSet(block) = {}
       /\ ToSet(restorable) \cap ToSet(next) = {} /\ ToSet(block) \cap ToSet(next) = {}
  BY HandFacts DEF AllApart, Apart
<1>14. IsInjective(block') /\ IsInjective(restorable')
  <2>1. ToSet(k) \cap ToSet(i1) = {} /\ ToSet(r) \cap ToSet(k1) = {}
    BY <1>4, <1>5, <1>8, <1>9, <1>13
  <2> QED
    BY <1>1, <1>4, <1>6, <1>7, <1>8, <1>9, <1>10, <1>11, <1>13, <2>1
<1>15. ToSet(batch') = {} /\ IsInjective(batch') /\ batch' \in Seq(Items)
  BY <1>1, EmptyHand
<1>16. inc \subseteq ToSet(batch) /\ kept \subseteq ToSet(batch) /\ inc \cap kept = {}
  BY <1>1
<1>17. AllApart'
  BY <1>1, <1>12, <1>13, <1>14, <1>15, <1>16 DEF AllApart, Apart
<1>18. HandTypes'
  BY <1>1, <1>3, <1>12, <1>15, HandFacts DEF HandTypes
<1>19. InHand' = (InHand \ ToSet(batch)) \cup inc \cup kept
  BY <1>1, <1>12, <1>13, <1>15 DEF InHand
<1>20. Fated'
  <2>1. SUFFICES ASSUME NEW i \in Items
                 PROVE  (fate'[i] = "in") <=> i \in ToSet(pool.queue) \cup InHand'
    BY <1>1 DEF Fated
  <2>2. (fate[i] = "in") <=> i \in ToSet(pool.queue) \cup InHand
    BY HandFacts DEF Fated
  <2>3. ToSet(batch) \subseteq InHand
    BY DEF InHand
  <2>4. CASE i \in ToSet(batch)
    BY <1>1, <1>3, <1>13, <1>16, <1>19, <2>2, <2>3, <2>4
  <2>5. CASE i \notin ToSet(batch)
    BY <1>3, <1>16, <1>19, <2>2, <2>5
  <2> QED
    BY <2>4, <2>5
<1>21. Stages'
  <2>1. buildPc \notin {"idle", "starting"}
    BY DEF Executing
  <2>2. buildPc' \notin {"idle", "starting", "batch", "prefetching"}
    OBVIOUS
  <2>3. streaming /\ ~finish
    BY <2>1, HandFacts DEF Stages
  <2> QED
    BY <1>1, <2>2, <2>3, HandFacts DEF Stages
<1>22. Tracked'
  <2>1. ToSet(batch) \subseteq InHand
    BY DEF InHand
  <2> QED
    BY <1>1, <1>16, <1>19, <2>1, HandFacts DEF Tracked
<1>23. Sound(pool')
  BY <1>1, HandFacts
<1> QED
  BY <1>17, <1>18, <1>20, <1>21, <1>22, <1>23 DEF Held

(* The transactions of the block are restorable, too.                        *)
LEMMA BuildFailsHeld == ASSUME Held, BuildFails PROVE Held'
<1>1. /\ buildPc = "failing" /\ restorable' = block \o restorable /\ block' = <<>>
      /\ finish' = TRUE /\ buildPc' = "idle" /\ pool' = pool /\ batch' = batch
      /\ next' = next /\ streamed' = streamed /\ streaming' = streaming
      /\ nextFetched' = nextFetched /\ streamLock' = streamLock /\ prep' = prep
      /\ fate' = fate
  BY DEF BuildFails, stream
<1>2. streaming /\ batch = <<>>
  BY <1>1, HandFacts DEF Stages
<1>3. PICK r \in Seq(Items), k \in Seq(Items) : r = restorable /\ k = block
  BY HandFacts DEF HandTypes
<1>4. /\ k \o r \in Seq(Items) /\ ToSet(k \o r) = ToSet(k) \cup ToSet(r)
      /\ IsInjective(k \o r) <=>
             IsInjective(k) /\ IsInjective(r) /\ ToSet(k) \cap ToSet(r) = {}
  BY Joined
<1>5. /\ restorable' \in Seq(Items) /\ ToSet(restorable') = ToSet(block) \cup ToSet(restorable)
      /\ IsInjective(restorable')
  BY <1>1, <1>3, <1>4, HandFacts DEF AllApart, Apart
<1>6. ToSet(block') = {} /\ IsInjective(block') /\ block' \in Seq(Items)
  BY <1>1, EmptyHand
<1>7. InHand' = InHand
  BY <1>1, <1>5, <1>6 DEF InHand
<1>8. HandTypes'
  BY <1>1, <1>5, <1>6, HandFacts DEF HandTypes
<1>9. Sound(pool')
  BY <1>1, HandFacts
<1>10. AllApart'
  BY <1>1, <1>5, <1>6, HandFacts DEF AllApart, Apart
<1>11. Fated'
  BY <1>1, <1>7, HandFacts DEF Fated
<1>12. Stages'
  BY <1>1, <1>2, HandFacts DEF Stages
<1>13. Tracked'
  BY <1>1, <1>7, HandFacts DEF Tracked
<1> QED
  BY <1>8, <1>9, <1>10, <1>11, <1>12, <1>13 DEF Held

LEMMA EndBuildHeld == ASSUME Held, NEW built \in BOOLEAN, EndBuild(built) PROVE Held'
<1>1. PICK what : what = IF built THEN "gone" ELSE "lost"
  OBVIOUS
<1>2. /\ buildPc = "ending" /\ finish' = TRUE /\ buildPc' = "idle" /\ block' = <<>>
      /\ pool' = pool /\ batch' = batch /\ restorable' = restorable
      /\ next' = next /\ streamed' = streamed /\ streaming' = streaming
      /\ nextFetched' = nextFetched /\ streamLock' = streamLock /\ prep' = prep
      /\ Becomes(ToSet(block), what)
  BY <1>1 DEF EndBuild, stream
<1>3. what \in Fates /\ what # "in"
  BY <1>1 DEF Fates
<1>4. /\ fate' \in [Items -> Fates]
      /\ \A i \in Items : fate'[i] = IF i \in ToSet(block) THEN what ELSE fate[i]
  BY <1>2, <1>3, BecomesFacts, HandFacts DEF HandTypes
<1>5. streaming /\ batch = <<>>
  BY <1>2, HandFacts DEF Stages
<1>6. ToSet(block') = {} /\ IsInjective(block') /\ block' \in Seq(Items)
  BY <1>2, EmptyHand
<1>7. InHand' = InHand \ ToSet(block)
  BY <1>2, <1>6, HandFacts DEF InHand, AllApart, Apart
<1>8. HandTypes'
  BY <1>2, <1>4, <1>6, HandFacts DEF HandTypes
<1>9. Sound(pool')
  BY <1>2, HandFacts
<1>10. AllApart'
  BY <1>2, <1>6, HandFacts DEF AllApart, Apart
<1>11. Fated'
  <2>1. ToSet(pool.queue) \cap ToSet(block) = {}
    BY HandFacts DEF AllApart, Apart
  <2> QED
    BY <1>2, <1>3, <1>4, <1>7, <2>1, HandFacts DEF Fated
<1>12. Stages'
  BY <1>2, <1>5, HandFacts DEF Stages
<1>13. Tracked'
  BY <1>2, <1>7, HandFacts DEF Tracked
<1> QED
  BY <1>8, <1>9, <1>10, <1>11, <1>12, <1>13 DEF Held

(* What finds no place again is dropped, and nothing is left in hand.        *)
LEMMA FinishStreamingHeld == ASSUME Held, FinishStreaming PROVE Held'
<1>1. PICK back : back = restorable \o next
  OBVIOUS
<1>2. /\ finish /\ ~prep /\ buildPc # "starting"
      /\ pool' = Restore(pool, back)
      /\ streaming' = FALSE /\ streamed' = {} /\ streamLock' = FALSE
      /\ next' = <<>> /\ nextFetched' = FALSE
      /\ Becomes({i \in ToSet(back) : ~Has(pool', i)}, "dropped")
      /\ finish' = FALSE /\ restorable' = <<>>
      /\ buildPc' = buildPc /\ batch' = batch /\ block' = block /\ prep' = prep
  BY <1>1 DEF FinishStreaming, FinishWith, MuFree
<1>3. buildPc = "idle" /\ batch = <<>> /\ block = <<>>
  <2>1. buildPc = "idle"
    BY <1>2, HandFacts DEF Stages
  <2> QED
    BY <2>1, HandFacts DEF Stages
<1>4. back \in Seq(Items) /\ ToSet(back) = ToSet(restorable) \cup ToSet(next)
  BY <1>1, Joined, HandFacts DEF HandTypes
<1>5. InHand = ToSet(back)
  BY <1>3, <1>4, EmptyHand DEF InHand
<1>6. /\ Sound(pool') /\ ToSet(pool.queue) \subseteq ToSet(pool'.queue)
      /\ ToSet(pool'.queue) \subseteq ToSet(pool.queue) \cup ToSet(back)
  BY <1>2, <1>4, HandFacts, RestoreFacts
<1>7. "dropped" \in Fates
  BY DEF Fates
<1>8. /\ fate' \in [Items -> Fates]
      /\ \A j \in Items : fate'[j] = IF j \in ToSet(back) \ ToSet(pool'.queue) THEN "dropped"
                                     ELSE fate[j]
  <2>1. PICK S : S = {i \in ToSet(back) : ~Has(pool', i)}
    OBVIOUS
  <2>2. Becomes(S, "dropped") /\ S = ToSet(back) \ ToSet(pool'.queue)
    BY <1>2, <2>1 DEF Has
  <2>3. /\ fate' \in [Items -> Fates]
        /\ \A j \in Items : fate'[j] = IF j \in S THEN "dropped" ELSE fate[j]
    BY <1>7, <2>2, BecomesFacts, HandFacts DEF HandTypes
  <2> QED
    BY <2>2, <2>3
<1>9. /\ ToSet(batch') = {} /\ ToSet(restorable') = {} /\ ToSet(block') = {} /\ ToSet(next') = {}
      /\ IsInjective(batch') /\ IsInjective(restorable') /\ IsInjective(block')
      /\ IsInjective(next')
      /\ batch' \in Seq(Items) /\ restorable' \in Seq(Items) /\ block' \in Seq(Items)
      /\ next' \in Seq(Items)
  BY <1>2, <1>3, EmptyHand
<1>10. InHand' = {}
  BY <1>9 DEF InHand
<1>11. HandTypes'
  BY <1>2, <1>8, <1>9, HandFacts DEF HandTypes
<1>12. AllApart'
  BY <1>6, <1>9 DEF AllApart, Apart, Sound
<1>13. Fated'
  <2>1. SUFFICES ASSUME NEW j \in Items
                 PROVE  (fate'[j] = "in") <=> j \in ToSet(pool'.queue)
    BY <1>10 DEF Fated
  <2>2. (fate[j] = "in") <=> j \in ToSet(pool.queue) \cup ToSet(back)
    BY <1>5, HandFacts DEF Fated
  <2> QED
    BY <1>6, <1>8, <2>2
<1>14. Stages'
  BY <1>2, <1>3 DEF Stages
<1>15. Tracked'
  BY <1>2, <1>10 DEF Tracked
<1> QED
  BY <1>6, <1>11, <1>12, <1>13, <1>14, <1>15 DEF Held

-----------------------------------------------------------------------------
(* Every step                                                                *)

LEMMA NothingHeld == ASSUME Held, UNCHANGED mempoolVars PROVE Held'
<1>1. /\ pool' = pool /\ batch' = batch /\ restorable' = restorable /\ block' = block
      /\ next' = next /\ streamed' = streamed /\ streaming' = streaming
      /\ nextFetched' = nextFetched /\ streamLock' = streamLock /\ prep' = prep
      /\ finish' = finish /\ buildPc' = buildPc /\ fate' = fate
  BY DEF mempoolVars, stream, build
<1>2. InHand' = InHand
  BY <1>1 DEF InHand
<1>3. HandTypes' /\ Stages'
  BY <1>1, HandFacts DEF HandTypes, Stages
<1>4. Sound(pool') /\ AllApart'
  BY <1>1, HandFacts DEF AllApart
<1>5. Fated' /\ Tracked'
  BY <1>1, <1>2, HandFacts DEF Fated, Tracked
<1> QED
  BY <1>3, <1>4, <1>5 DEF Held

LEMMA BatchHeld ==
  ASSUME Held, NEW inc \in SUBSET ToSet(batch), NEW res \in SUBSET ToSet(batch), NEW kept
  PROVE  /\ ExecuteBatch(inc, res, kept) => Held'
         /\ TaskFails(inc, res, kept) => Held'
<1>1. ASSUME ExecuteBatch(inc, res, kept) PROVE Held'
  BY <1>1, ExecutesHeld DEF ExecuteBatch
<1>2. ASSUME TaskFails(inc, res, kept) PROVE Held'
  BY <1>2, ExecutesHeld DEF TaskFails
<1> QED
  BY <1>1, <1>2

LEMMA RepeatFailsHeld == ASSUME Held, RepeatFails PROVE Held'
<1>1. PICK inc \in SUBSET ToSet(batch), res \in SUBSET ToSet(batch) :
          inc = {} /\ res = ToSet(batch)
  OBVIOUS
<1>2. /\ Executing /\ Executes(inc, res, res) /\ finish' = finish
      /\ buildPc' \in {"stream", "ending", "failing"}
  BY <1>1 DEF RepeatFails, Executing
<1> QED
  BY <1>2, ExecutesHeld

LEMMA FirstNumber == ASSUME Held, NEW n \in 1 .. Len(pool.queue) PROVE n \in Nat
<1>1. Len(pool.queue) \in Nat
  BY HeldFacts
<1> QED
  BY <1>1

LEMMA HeldStep == ASSUME Held, [MempoolNext]_mempoolVars PROVE Held'
<1>1. ASSUME NEW i \in Items, AddItem(i) \/ RemoveItem(i) PROVE Held'
  BY <1>1, AddItemHeld, RemoveItemHeld
<1>2. ASSUME NEW t \in 1 .. MaxTime, SetMinTimestamp(t) PROVE Held'
  BY <1>2, SetMinTimestampHeld
<1>3. ASSUME NEW n \in 1 .. Len(pool.queue), NEW drop \in SUBSET ToSet(FirstItems(n)),
             Top(n, drop)
      PROVE  Held'
  BY <1>3, FirstNumber, TopHeld
<1>4. ASSUME Builder PROVE Held'
  <2>1. CASE StartStreaming
    BY <2>1, StartStreamingHeld
  <2>2. CASE Stream
    BY <2>2, StreamHeld
  <2>3. CASE StreamEmpty
    BY <2>3, StreamEmptyHeld
  <2>4. CASE StartPrepare
    BY <2>4, StartPrepareHeld
  <2>5. CASE PrepareStream
    BY <2>5, PrepareStreamHeld
  <2>6. ASSUME NEW inc \in SUBSET ToSet(batch), NEW res \in SUBSET ToSet(batch),
               NEW kept \in SUBSET ToSet(batch),
               ExecuteBatch(inc, res, kept) \/ TaskFails(inc, res, kept)
        PROVE  Held'
    BY <2>6, BatchHeld
  <2>7. CASE RepeatFails
    BY <2>7, RepeatFailsHeld
  <2>8. CASE BuildFails
    BY <2>8, BuildFailsHeld
  <2>9. CASE FinishStreaming
    BY <2>9, FinishStreamingHeld
  <2>10. ASSUME NEW built \in BOOLEAN, EndBuild(built) PROVE Held'
    BY <2>10, EndBuildHeld
  <2> QED
    BY <1>4, <2>1, <2>2, <2>3, <2>4, <2>5, <2>6, <2>7, <2>8, <2>9, <2>10 DEF Builder
<1>5. CASE UNCHANGED mempoolVars
  BY <1>5, NothingHeld
<1> QED
  BY <1>1, <1>2, <1>3, <1>4, <1>5, StartBuildHeld DEF MempoolNext

(* A node does to its mempool what the mempool allows.                       *)
LEMMA NodeIsMempool ==
  ASSUME [NodeNext]_nodeVars
  PROVE  [MempoolNext]_mempoolVars
<1>1. CASE ForceManual
  <2>1. ASSUME NEW n \in 1 .. Len(pool.queue), NEW now \in 0 .. MaxTime,
               Top(n, {i \in ToSet(FirstItems(n)) : Expiry[i] < now})
        PROVE  MempoolNext
    BY <2>1 DEF MempoolNext
  <2> QED
    BY <1>1, <2>1 DEF ForceManual
<1>2. CASE checkActivity \/ ForceBuild \/ ClearBuild \/ EngineDeclines
  BY <1>2 DEF checkActivity, ForceBuild, ClearBuild, EngineDeclines
<1>3. CASE EngineBuilds
  BY <1>3 DEF EngineBuilds, MempoolNext
<1>4. CASE BuildThread
  BY <1>4 DEF BuildThread, BuildStep, BuildBlock, MempoolNext, Builder
<1>5. CASE Restoring
  BY <1>5 DEF Restoring, MempoolNext, Builder
<1>6. ASSUME NEW i \in Known PROVE i \in Items
  BY GossipAssumption DEF Known
<1>7. CASE Blocks
  <2>1. ASSUME NEW i \in Known, RemoveItem(i) \/ AddItem(i) PROVE MempoolNext
    BY <1>6, <2>1 DEF MempoolNext
  <2>2. ASSUME NEW t \in 1 .. MaxTime, SetMinTimestamp(t) PROVE MempoolNext
    BY <2>2 DEF MempoolNext
  <2> QED
    BY <1>7, <2>1, <2>2 DEF Blocks
<1>8. CASE notify \/ ClearGossip \/ Requeue \/ sendTxs
  BY <1>8 DEF notify, ClearGossip, Requeue, sendTxs
<1>9. ASSUME NEW n \in 1 .. Len(pool.queue), NEW now \in 0 .. MaxTime, ForceGossip(n, now)
      PROVE  MempoolNext
  BY <1>9 DEF ForceGossip, MempoolNext
<1>10. ASSUME NEW i \in Known, Submit(i) PROVE [MempoolNext]_mempoolVars
  BY <1>6, <1>10 DEF Submit, MempoolNext
<1>11. ASSUME NEW i \in Known, HandleAppGossip(i) PROVE [MempoolNext]_mempoolVars
  BY <1>10, <1>11 DEF HandleAppGossip
<1>12. CASE UNCHANGED nodeVars
  BY <1>12 DEF nodeVars
<1> QED
  BY <1>1, <1>2, <1>3, <1>4, <1>5, <1>7, <1>8, <1>9, <1>10, <1>11, <1>12 DEF NodeNext

(* The mempool of a node never has or owes more than its limits, counts each *)
(* sponsor's places exactly, has nothing twice and forgets nothing, with any *)
(* number of items, batches and sponsors, in every interleaving of the       *)
(* network, the gossiper, the builder and the goroutines it starts.          *)
THEOREM MempoolInvariant == MempoolSpec => []MempoolInv
<1>1. MempoolInit => Held
  BY InitHeld
<1>2. Held /\ [MempoolNext]_mempoolVars => Held'
  BY HeldStep
<1>3. Held => MempoolInv
  BY HeldIsInv
<1> QED
  BY <1>1, <1>2, <1>3, PTL DEF MempoolSpec

(* A node is a mempool, whatever its gossiper and its builder's timer do.    *)
THEOREM NodeHasMempool == NodeSpec => MempoolSpec
<1>1. NodeInit => MempoolInit
  BY DEF NodeInit
<1>2. [NodeNext]_nodeVars => [MempoolNext]_mempoolVars
  BY NodeIsMempool
<1> QED
  BY <1>1, <1>2, PTL DEF NodeSpec, MempoolSpec

-----------------------------------------------------------------------------
(* The gossiper                                                              *)

LEMMA GossipKept == ASSUME GossipInv, UNCHANGED gossip PROVE GossipInv'
  BY DEF gossip, GossipInv

LEMMA GossipStep == ASSUME GossipInv, [NodeNext]_nodeVars PROVE GossipInv'
<1>1. CASE ForceManual
  BY <1>1, GossipKept DEF ForceManual
<1>2. CASE checkActivity
  BY <1>2 DEF checkActivity, QueueGossip, GossipInv
<1>3. CASE ForceBuild \/ ClearBuild \/ EngineBuilds \/ EngineDeclines
  BY <1>3, GossipKept DEF ForceBuild, ClearBuild, EngineBuilds, EngineDeclines
<1>4. CASE BuildThread
  BY <1>4, GossipKept DEF BuildThread, BuildBlock
<1>5. CASE Restoring \/ Blocks
  BY <1>5, GossipKept DEF Restoring, Blocks
<1>6. CASE notify
  BY <1>6 DEF notify, GossipInv
<1>7. CASE ClearGossip
  BY <1>7 DEF ClearGossip, GossipInv
<1>8. CASE Requeue
  <2>1. gossipQueue' # "free" \/ gossipQueue # "free"
    BY <1>8 DEF Requeue, QueueGossip
  <2> QED
    BY <1>8, <2>1 DEF Requeue, QueueGossip, GossipInv
<1>9. CASE sendTxs
  BY <1>9 DEF sendTxs, GossipInv
<1>10. ASSUME NEW n \in 1 .. Len(pool.queue), NEW now \in 0 .. MaxTime, ForceGossip(n, now)
       PROVE  GossipInv'
  <2>1. /\ gossipLoop = "check" /\ cache' = cache \cup outbox'
        /\ gossipLoop' = (IF outbox' = {} THEN "wait" ELSE "send")
        /\ gossipQueue' = gossipQueue /\ handed' = handed
    BY <1>10 DEF ForceGossip
  <2> QED
    BY <2>1 DEF GossipInv
<1>11. ASSUME NEW i, Submit(i), UNCHANGED <<cache, handed>> PROVE GossipInv'
  BY <1>11 DEF Submit, GossipInv
<1>12. ASSUME NEW i, HandleAppGossip(i) PROVE GossipInv'
  BY <1>12 DEF HandleAppGossip, Submit, GossipInv
<1>13. CASE UNCHANGED nodeVars
  BY <1>13, GossipKept DEF nodeVars
<1> QED
  BY <1>1, <1>2, <1>3, <1>4, <1>5, <1>6, <1>7, <1>8, <1>9, <1>10, <1>11, <1>12, <1>13
     DEF NodeNext

(* What the gossiper has seen it has sent, sends now, or was sent, with any  *)
(* items and any limit of a message.                                         *)
THEOREM GossipInvariant == NodeSpec => []GossipInv
<1>1. NodeInit => GossipInv
  BY DEF NodeInit, GossipInv
<1>2. GossipInv /\ [NodeNext]_nodeVars => GossipInv'
  BY GossipStep
<1> QED
  BY <1>1, <1>2, PTL DEF NodeSpec

=============================================================================
