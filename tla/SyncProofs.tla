------------------------------ MODULE SyncProofs ------------------------------
(***************************************************************************)
(* State sync, as the snow VM and as its client see it.                    *)
(*                                                                         *)
(* The transition out of dynamic state sync, for every tree of blocks and  *)
(* every set of invalid blocks: OutputInv is inductive, and with it the    *)
(* transition leaves no executable block without Output and gives none to  *)
(* any other.                                                              *)
(*                                                                         *)
(* The client, for chains of any length, any number of crashes and any     *)
(* limit for the skipped summaries: SyncClientInv is inductive, so a disk  *)
(* without a mark can always be booted, and a ready VM has the whole state. *)
(* Each step moves the state sync from one place to the next, and the      *)
(* invariant says what disk, target and engine are at each place.          *)
(***************************************************************************)
EXTENDS DynamicStateSync, StateSyncClient, FiniteSetTheorems, WellFoundedInduction, TLAPS

-----------------------------------------------------------------------------
(* The tree of blocks.                                                       *)

(* A set of heights has a lowest one: the intervals below them are ordered   *)
(* by inclusion, which is well founded on finite sets.                       *)
LEMMA LeastNat ==
    ASSUME NEW T \in SUBSET Nat, T # {}
    PROVE  \E m \in T : \A k \in T : m <= k
<1> DEFINE F == {0 .. m : m \in T}
<1>1. F \subseteq FiniteSubsetsOf(Nat)
  <2>1. \A m \in T : IsFiniteSet(0 .. m) /\ 0 .. m \subseteq Nat
    BY FS_Interval
  <2> QED
    BY <2>1 DEF FiniteSubsetsOf
<1>2. F # {}
  OBVIOUS
<1>3. IsWellFoundedOn(StrictSubsetOrdering(Nat), FiniteSubsetsOf(Nat))
  BY FS_StrictSubsetOrderingWellFounded
<1> HIDE DEF F
<1>4. PICK x \in F : \A y \in F : <<y, x>> \notin StrictSubsetOrdering(Nat)
  BY <1>1, <1>2, <1>3, WFMin
<1>5. PICK m \in T : x = 0 .. m
  BY DEF F
<1>6. ASSUME NEW k \in T, k < m PROVE FALSE
  <2>1. 0 .. k \in F /\ 0 .. k \subseteq 0 .. m /\ m \notin 0 .. k /\ m \in 0 .. m
    BY <1>6 DEF F
  <2>2. <<0 .. k, x>> \in StrictSubsetOrdering(Nat)
    BY <1>5, <2>1 DEF StrictSubsetOrdering
  <2> QED
    BY <2>1, <2>2, <1>4
<1> QED
  BY <1>6

LEMMA HeightStep ==
    /\ \A b \in Blocks : Height[b] \in Nat
    /\ \A b \in Blocks \ {Root} : Parent[b] \in Blocks /\ Height[b] = Height[Parent[b]] + 1
  BY TreeAssumption

(* What holds of Root, and of every block whose parent it holds of, holds of *)
(* all blocks: there is no lowest block it fails for.                        *)
LEMMA TreeInduction ==
    ASSUME NEW S \in SUBSET Blocks, Root \in S,
           \A b \in Blocks \ {Root} : Parent[b] \in S => b \in S
    PROVE  S = Blocks
<1> SUFFICES ASSUME Blocks \ S # {} PROVE FALSE
  OBVIOUS
<1> DEFINE T == {Height[b] : b \in Blocks \ S}
<1>1. T \in SUBSET Nat /\ T # {}
  BY HeightStep
<1> HIDE DEF T
<1>2. PICK m \in T : \A k \in T : m <= k
  BY <1>1, LeastNat
<1>3. PICK b \in Blocks \ S : m = Height[b]
  BY DEF T
<1>4. Parent[b] \in Blocks \ S /\ Height[b] = Height[Parent[b]] + 1
  BY HeightStep
<1>5. Height[Parent[b]] \in T
  BY <1>4 DEF T
<1> QED
  BY <1>2, <1>3, <1>4, <1>5, HeightStep

(* Ancestors are below, and an ancestor's parent is an ancestor.             *)
LEMMA AncestorHeight ==
    \A b \in Blocks : \A a \in Ancestors[b] : Height[a] <= Height[b]
<1> DEFINE S == {b \in Blocks : \A a \in Ancestors[b] : Height[a] <= Height[b]}
<1>1. Root \in S
  BY TreeAssumption
<1>2. ASSUME NEW b \in Blocks \ {Root}, Parent[b] \in S PROVE b \in S
  <2>1. Ancestors[b] = {b} \cup Ancestors[Parent[b]]
    BY TreeAssumption
  <2> QED
    BY <1>2, <2>1, HeightStep, TreeAssumption
<1>3. S \in SUBSET Blocks
  OBVIOUS
<1> HIDE DEF S
<1>4. S = Blocks
  BY <1>1, <1>2, <1>3, TreeInduction
<1> QED
  BY <1>4 DEF S

LEMMA AncestorParent ==
    \A b \in Blocks : \A a \in Ancestors[b] \ {Root} : Parent[a] \in Ancestors[b]
<1> DEFINE S == {b \in Blocks : \A a \in Ancestors[b] \ {Root} : Parent[a] \in Ancestors[b]}
<1>1. Root \in S
  BY TreeAssumption
<1>2. ASSUME NEW b \in Blocks \ {Root}, Parent[b] \in S PROVE b \in S
  <2>1. Ancestors[b] = {b} \cup Ancestors[Parent[b]] /\ Parent[b] \in Ancestors[Parent[b]]
    BY TreeAssumption
  <2> QED
    BY <1>2, <2>1
<1>3. S \in SUBSET Blocks
  OBVIOUS
<1> HIDE DEF S
<1>4. S = Blocks
  BY <1>1, <1>2, <1>3, TreeInduction
<1> QED
  BY <1>4 DEF S

(* A block executes exactly if it is not invalid and its parent executes.    *)
LEMMA SoundStep ==
    ASSUME NEW b \in Blocks \ {Root}
    PROVE  b \in Sound <=> b \notin Invalid /\ Parent[b] \in Sound
<1>1. Ancestors[b] = {b} \cup Ancestors[Parent[b]] /\ Parent[b] \in Blocks
  BY TreeAssumption
<1> QED
  BY <1>1 DEF Sound

LEMMA RootSound == Root \in Sound
  BY TreeAssumption DEF Sound

LEMMA OwnAncestor == \A b \in Blocks : b \in Ancestors[b]
<1>1. Root \in Ancestors[Root]
  BY TreeAssumption
<1>2. ASSUME NEW b \in Blocks \ {Root} PROVE b \in Ancestors[b]
  BY TreeAssumption
<1> QED
  BY <1>1, <1>2

LEMMA InitInv == Init => OutputInv
<1> SUFFICES ASSUME Init PROVE OutputInv
  OBVIOUS
<1> USE TreeAssumption, RootSound DEF Init
<1>1. TypeOK
  <2>1. Root \in Blocks
    OBVIOUS
  <2>2. acceptedQueue \in Seq(Blocks) /\ acceptedLog \in Seq(Blocks)
    OBVIOUS
  <2>3. ready \in BOOLEAN /\ panicked \in BOOLEAN
    BY Zenon
  <2> QED
    BY <2>1, <2>2, <2>3 DEF TypeOK, SyncPcs
<1>2. IndexInv
  BY HeightStep DEF IndexInv
<1>3. TreeInv /\ JudgedInv
  BY DEF TreeInv, JudgedInv, Live, Judged
<1> QED
  BY <1>1, <1>2, <1>3 DEF Reached, OutputInv

LEMMA FunctionIsSeq ==
    ASSUME NEW S, NEW n \in Nat, NEW f \in [1 .. n -> S]
    PROVE  f \in Seq(S)
OBVIOUS

(* Reprocessing finds a block at every height it asks for.                   *)
LEMMA ReprocessedType ==
    ASSUME OutputInv, syncPc = "synced"
    PROVE  Reprocessed \in Seq(Blocks)
<1> USE TreeAssumption, HeightStep DEF OutputInv, Reached, TypeOK, IndexInv, Sound
<1>1. syncTarget \in indexed /\ lastAccepted \in Blocks
  OBVIOUS
<1> DEFINE n == Height[lastAccepted] - Height[syncTarget]
<1>2. n \in Nat
  BY <1>1
<1>3. ASSUME NEW i \in 1 .. n
      PROVE  (CHOOSE b \in indexed : Height[b] = Height[syncTarget] + i) \in Blocks
  <2>1. \E b \in indexed : Height[b] = Height[syncTarget] + i
    <3>1. Height[syncTarget] + i \in Height[Root] .. Height[lastAccepted]
      BY <1>1, <1>2
    <3> QED
      BY <3>1
  <2> QED
    BY <2>1
<1>4. Reprocessed \in [1 .. n -> Blocks]
  BY <1>3 DEF Reprocessed
<1> HIDE DEF n
<1> QED
  BY ONLY <1>2, <1>4, FunctionIsSeq

-----------------------------------------------------------------------------
(* One lemma per group of actions.                                           *)

(* A block enters the processing tree on the last accepted block or on a     *)
(* processing one.                                                           *)
LEMMA VerifyStep ==
    ASSUME OutputInv, NEW b \in Blocks,
           VerifyVacuously(b) \/ VerifyExecute(b) \/ VerifyBuilt(b)
    PROVE  OutputInv'
<1> USE DEF OutputInv, Reached, ChainLockFree, Issuable, EngineIdle, engine, sync, history
<1>1. /\ toReject = {} /\ rejecting = None /\ b \notin verifiedBlocks \cup indexed
      /\ Parent[b] \in verifiedBlocks \cup {lastAccepted}
      /\ verifiedBlocks' = verifiedBlocks \cup {b}
  BY DEF VerifyVacuously, VerifyExecute, VerifyBuilt
<1>2. b # Root
  BY <1>1 DEF IndexInv
<1>3. TypeOK'
  BY DEF TypeOK, VerifyVacuously, VerifyExecute, VerifyBuilt
<1>4. IndexInv'
  BY DEF IndexInv, VerifyVacuously, VerifyExecute, VerifyBuilt
<1>5. TreeInv'
  BY <1>1, TreeAssumption DEF TreeInv, Live, VerifyVacuously, VerifyExecute, VerifyBuilt
<1>6. JudgedInv'
  <2>1. CASE VerifyVacuously(b)
    BY <2>1 DEF JudgedInv, Judged, Live, VerifyVacuously, TypeOK, SyncPcs
  <2>2. CASE VerifyExecute(b)
    <3>1. b \in Sound
      BY <1>2, <2>2, SoundStep DEF VerifyExecute, HasOutput, JudgedInv
    <3> QED
      BY <2>2, <3>1 DEF JudgedInv, Judged, Live, VerifyExecute
  <2>3. CASE VerifyBuilt(b)
    BY <2>3 DEF JudgedInv, Judged, Live, VerifyBuilt
  <2> QED
    BY <2>1, <2>2, <2>3
<1> QED
  BY <1>3, <1>4, <1>5, <1>6 DEF VerifyVacuously, VerifyExecute, VerifyBuilt

(* Only a block whose parent has its Output is built.                        *)
LEMMA BuildStep ==
    ASSUME OutputInv, NEW b \in Blocks,
           BuildBlock(b) \/ BuildOnUnverified(b) \/ ParseBlock(b)
    PROVE  OutputInv'
<1> USE DEF OutputInv, Reached, engine, sync, history
<1>1. CASE BuildBlock(b)
  <2>1. b \in Sound
    BY <1>1, SoundStep DEF BuildBlock, HasOutput, JudgedInv
  <2>2. TypeOK' /\ IndexInv' /\ TreeInv'
    BY <1>1 DEF BuildBlock, TypeOK, IndexInv, TreeInv, Live
  <2>3. JudgedInv'
    BY <1>1, <2>1 DEF BuildBlock, JudgedInv, Judged, Live
  <2> QED
    BY <1>1, <2>2, <2>3 DEF BuildBlock
<1>2. CASE BuildOnUnverified(b)
  BY <1>2 DEF BuildOnUnverified, TypeOK, IndexInv, TreeInv, Live, JudgedInv, Judged
<1>3. CASE ParseBlock(b)
  <2>1. b # lastAccepted /\ b \notin verifiedBlocks
    BY <1>3 DEF ParseBlock, Found, IndexInv
  <2>2. TypeOK' /\ IndexInv' /\ TreeInv'
    BY <1>3 DEF ParseBlock, TypeOK, IndexInv, TreeInv, Live
  <2>3. JudgedInv'
    BY <1>3, <2>1 DEF ParseBlock, JudgedInv, Judged, Live
  <2> QED
    BY <1>3, <2>1, <2>2, <2>3 DEF ParseBlock
<1> QED
  BY <1>1, <1>2, <1>3

(* What stays live after Accept descends from the accepted block.            *)
LEMMA AcceptStep ==
    ASSUME OutputInv, NEW b \in Blocks, Accept(b)
    PROVE  OutputInv'
<1> USE DEF OutputInv, Reached, Accept, Decidable, EngineIdle, ChainLockFree, engine, sync, history
<1>1. b # Root /\ Parent[b] = lastAccepted /\ b \in verifiedBlocks /\ toReject = {}
  BY DEF IndexInv, TreeInv
<1>2. Height[b] = Height[lastAccepted] + 1 /\ Height[lastAccepted] \in Nat
      /\ Height[Root] \in Nat
  BY <1>1, HeightStep, TreeAssumption DEF TypeOK
<1>3. TypeOK'
  BY DEF TypeOK
<1>4. IndexInv'
  <2>1. \A c \in indexed' : Height[c] \in Height[Root] .. Height[lastAccepted]'
    BY <1>2, HeightStep DEF IndexInv, TypeOK
  <2>2. \A h \in Height[Root] .. Height[lastAccepted]' : \E c \in indexed' : Height[c] = h
    BY <1>2 DEF IndexInv
  <2> QED
    BY <2>1, <2>2 DEF IndexInv
<1>5. TreeInv'
  <2>1. toReject' \subseteq verifiedBlocks'
    BY OwnAncestor DEF TypeOK
  <2>2. ASSUME NEW c \in Live' PROVE Parent[c] \in Live' \cup {b}
    <3>1. c \in verifiedBlocks /\ c # b /\ b \in Ancestors[c] /\ c # Root /\ c \in Blocks
      BY DEF Live, TypeOK, TreeInv, IndexInv
    <3>2. b \in Ancestors[Parent[c]] /\ Parent[c] \in Blocks
      BY <3>1, TreeAssumption
    <3>3. Parent[c] # lastAccepted
      BY <3>2, <1>2, TreeAssumption, AncestorHeight
    <3> QED
      BY <3>1, <3>2, <3>3, <1>1 DEF TreeInv, Live
  <2> QED
    BY <2>1, <2>2, TreeAssumption DEF TreeInv, TypeOK
<1>6. JudgedInv'
  BY <1>1 DEF JudgedInv, Judged, Live
<1> QED
  BY <1>3, <1>4, <1>5, <1>6 DEF TypeOK

(* A rejected block is not live: nothing live depends on it.                 *)
LEMMA RejectStep ==
    ASSUME OutputInv, NEW b \in Blocks, RejectRemove(b) \/ RejectNotify
    PROVE  OutputInv'
<1> USE DEF OutputInv, Reached, engine, sync, history
<1>1. CASE RejectRemove(b)
  <2>1. TypeOK' /\ IndexInv'
    BY <1>1 DEF RejectRemove, TypeOK, IndexInv
  <2>2. Live' = Live
    BY <1>1 DEF RejectRemove, Live
  <2>3. TreeInv' /\ JudgedInv'
    BY <1>1, <2>2 DEF RejectRemove, TreeInv, JudgedInv, Judged
  <2> QED
    BY <1>1, <2>1, <2>3 DEF RejectRemove
<1>2. CASE RejectNotify
  <2>1. TypeOK' /\ IndexInv'
    BY <1>2 DEF RejectNotify, TypeOK, IndexInv
  <2>2. TreeInv' /\ JudgedInv'
    BY <1>2, TreeAssumption DEF RejectNotify, TreeInv, JudgedInv, Judged, Live, TypeOK
  <2> QED
    BY <1>2, <2>1, <2>2 DEF RejectNotify
<1> QED
  BY <1>1, <1>2

LEMMA ProcessStep ==
    ASSUME OutputInv, ProcessAccept
    PROVE  OutputInv'
<1> USE DEF OutputInv, Reached, ProcessAccept, engine, sync, history
<1>1. Head(acceptedQueue) \in Blocks /\ Tail(acceptedQueue) \in Seq(Blocks)
  BY DEF TypeOK
<1>2. TypeOK'
  BY <1>1 DEF TypeOK
<1>3. IndexInv' /\ TreeInv' /\ JudgedInv'
  BY DEF IndexInv, TreeInv, JudgedInv, Judged, Live
<1> QED
  BY <1>2, <1>3

(* FinishStateSync up to the snapshot, and its end.                          *)
LEMMA FinishStep ==
    ASSUME OutputInv, FinishStateSync \/ TakeSnapshot \/ MarkReady
                    \/ \E T \in Blocks : SyncDone(T)
    PROVE  OutputInv'
<1> USE DEF OutputInv, Reached, engine, sync, history
<1>1. CASE FinishStateSync
  <2> USE <1>1 DEF FinishStateSync
  <2>1. Reprocessed \in Seq(Blocks)
    BY ReprocessedType
  <2>2. acceptedLog' \in Seq(Blocks)
    BY <2>1 DEF TypeOK
  <2>3. TypeOK'
    BY <2>2 DEF TypeOK, SyncPcs
  <2>4. IndexInv' /\ TreeInv' /\ JudgedInv'
    BY DEF IndexInv, TreeInv, JudgedInv, Judged, Live
  <2> QED
    BY <2>3, <2>4
<1>2. CASE TakeSnapshot
  BY <1>2 DEF TakeSnapshot, TypeOK, SyncPcs, IndexInv, TreeInv, Live, JudgedInv, Judged
<1>3. CASE MarkReady
  BY <1>3, Zenon DEF MarkReady, TypeOK, SyncPcs, IndexInv, TreeInv, Live, JudgedInv, Judged
<1>4. ASSUME NEW T \in Blocks, SyncDone(T) PROVE OutputInv'
  BY <1>4, TreeAssumption DEF SyncDone, TypeOK, SyncPcs, IndexInv, TreeInv, Live, JudgedInv, Judged
<1> QED
  BY <1>1, <1>2, <1>3, <1>4

(* The lowest block of the snapshot finds its parent already judged.         *)
LEMMA ProcessingStep ==
    ASSUME OutputInv, NEW b \in Blocks, VerifyProcessing(b) \/ ParentNotFound(b)
    PROVE  OutputInv'
<1> USE DEF OutputInv, Reached, Lowest, engine, sync, history
<1>1. CASE VerifyProcessing(b)
  <2> USE <1>1 DEF VerifyProcessing
  <2>1. TypeOK' /\ IndexInv' /\ TreeInv'
    BY DEF TypeOK, IndexInv, TreeInv, Live
  <2>2. Judged' \subseteq Judged \cup {b} /\ Live' = Live
    BY DEF Judged, Live
  <2>3. CASE HasOutput(Parent[b]) /\ b \notin Invalid
    <3>1. b \in Sound
      BY <2>3, SoundStep, RootSound DEF HasOutput, JudgedInv
    <3> QED
      BY <2>1, <2>2, <2>3, <3>1 DEF JudgedInv
  <2>4. CASE ~(HasOutput(Parent[b]) /\ b \notin Invalid)
    <3>1. ASSUME b \in Live, b \in Sound PROVE FALSE
      <4>1. b # Root /\ Parent[b] \in Live \cup {lastAccepted}
        BY <3>1 DEF TreeInv, IndexInv, Live
      <4>2. b \notin Invalid /\ Parent[b] \in Sound /\ Parent[b] \in Blocks
        BY <3>1, <4>1, SoundStep, TreeAssumption
      <4>3. Parent[b] \notin verified
        BY <2>4, <4>2 DEF HasOutput
      <4>4. Parent[b] \in Live
        BY <4>1, <4>3
      <4>5. Parent[b] \notin snapshot
        BY <4>1, <4>2, HeightStep
      <4> QED
        BY <4>2, <4>3, <4>4, <4>5 DEF JudgedInv, Judged, Live
    <3> QED
      BY <2>1, <2>2, <2>4, <3>1 DEF JudgedInv
  <2> QED
    BY <2>3, <2>4
<1>2. CASE ParentNotFound(b)
  BY <1>2 DEF ParentNotFound, TypeOK, SyncPcs, IndexInv, TreeInv, Live, JudgedInv, Judged
<1> QED
  BY <1>1, <1>2

LEMMA NextInv == OutputInv /\ [Next]_vars => OutputInv'
<1> SUFFICES ASSUME OutputInv, [Next]_vars PROVE OutputInv'
  OBVIOUS
<1>1. CASE UNCHANGED vars
  BY <1>1 DEF vars, engine, sync, history, OutputInv, Reached, TypeOK, IndexInv, TreeInv,
              JudgedInv, Judged, Live
<1>2. ASSUME NEW b \in Blocks,
             VerifyVacuously(b) \/ VerifyExecute(b) \/ VerifyBuilt(b) \/ BuildBlock(b)
             \/ BuildOnUnverified(b) \/ ParseBlock(b) \/ Accept(b)
             \/ RejectRemove(b)
      PROVE  OutputInv'
  BY <1>2, VerifyStep, BuildStep, AcceptStep, RejectStep
<1>3. CASE RejectNotify
  BY <1>3, RejectStep, TreeAssumption
<1>4. CASE ProcessAccept
  BY <1>4, ProcessStep
<1>5. CASE \E T \in Blocks : SyncDone(T)
  BY <1>5, FinishStep
<1>6. CASE FinishStateSync \/ TakeSnapshot \/ MarkReady
  BY <1>6, FinishStep
<1>7. ASSUME NEW b \in Blocks, VerifyProcessing(b) \/ ParentNotFound(b) PROVE OutputInv'
  BY <1>7, ProcessingStep
<1> QED
  BY <1>1, <1>2, <1>3, <1>4, <1>5, <1>6, <1>7 DEF Next, Engine, Reject, Finish

-----------------------------------------------------------------------------
LEMMA Outputs == Spec => []OutputInv
<1>1. Init => OutputInv
  BY InitInv
<1>2. OutputInv /\ [Next]_vars => OutputInv'
  BY NextInv
<1> QED
  BY <1>1, <1>2, PTL DEF Spec

(* Every variable keeps its type, and the sync target is set from SyncDone   *)
(* on.                                                                       *)
THEOREM TypeCorrect == Spec => []TypeOK
<1>1. OutputInv => TypeOK
  BY DEF OutputInv
<1> QED
  BY <1>1, Outputs, PTL

(* Every executable block the engine still considers has its Output once the *)
(* VM is ready: Accept does not meet errParentFailedVerification.            *)
THEOREM OutputsReady == Spec => []ReadyHasOutputs
<1>1. OutputInv => ReadyHasOutputs
  BY DEF OutputInv, JudgedInv, Judged, Live, ReadyHasOutputs
<1> QED
  BY <1>1, Outputs, PTL

(* No block that fails, or extends one that fails, counts as verified.       *)
THEOREM VerifiedIsSound == Spec => []OnlySoundVerified
<1>1. OutputInv => OnlySoundVerified
  BY DEF OutputInv, JudgedInv, OnlySoundVerified
<1> QED
  BY <1>1, Outputs, PTL

(* The health check knows of every unverified block a ready VM processes.    *)
THEOREM UnresolvedIsCovered == Spec => []UnresolvedCovered
<1>1. OutputInv => UnresolvedCovered
  BY DEF OutputInv, JudgedInv, Judged, UnresolvedCovered
<1> QED
  BY <1>1, Outputs, PTL

(* The consensus index of a ready VM has both ends of its frontier.          *)
THEOREM FrontierIsPopulated == Spec => []FrontierPopulated
<1>1. OutputInv => FrontierPopulated
  BY DEF OutputInv, Reached, IndexInv, FrontierPopulated, HasOutput, Found
<1> QED
  BY <1>1, Outputs, PTL

(* Whatever block the engine prefers, a healthy node has its Output to build *)
(* on and to read.                                                           *)
THEOREM HealthyHasPreference == Spec => []HealthyPreference
<1>1. OutputInv => HealthyPreference
  BY TreeAssumption DEF OutputInv, Reached, TypeOK, IndexInv, TreeInv, JudgedInv, Judged,
     HealthyPreference, Healthy, GetPreferredBlock, HasOutput, Found
<1> QED
  BY <1>1, Outputs, PTL

-----------------------------------------------------------------------------
(* The accepted chain.                                                       *)

(* Only Accept extends it, with a child of its last block.                   *)
LEMMA ChainStep == SyncInv /\ [Next]_vars => ChainInv'
<1> SUFFICES ASSUME SyncInv, [Next]_vars PROVE ChainInv'
  OBVIOUS
<1>1. ASSUME NEW b \in Blocks, Accept(b) PROVE ChainInv'
  <2>1. /\ indexed' = indexed \cup {b} /\ lastAccepted' = b
        /\ Parent[b] = lastAccepted /\ lastAccepted \in indexed /\ b # Root
    BY <1>1 DEF Accept, Decidable, SyncInv, OutputInv, IndexInv, TreeInv
  <2>2. \A c \in indexed : Height[c] <= Height[lastAccepted] /\ c \in Blocks
    BY DEF SyncInv, OutputInv, IndexInv, TypeOK
  <2>3. Height[b] = Height[lastAccepted] + 1 /\ \A c \in indexed : Height[c] \in Nat
    BY <2>1, <2>2, HeightStep
  <2>4. \A c, d \in indexed' : Height[c] = Height[d] => c = d
    BY <2>1, <2>2, <2>3 DEF SyncInv, ChainInv
  <2>5. \A c \in indexed' \ {Root} : Parent[c] \in indexed'
    BY <2>1 DEF SyncInv, ChainInv
  <2>6. indexed' \subseteq Ancestors[b]
    BY <2>1, TreeAssumption DEF SyncInv, ChainInv
  <2> QED
    BY <2>1, <2>4, <2>5, <2>6 DEF ChainInv
<1>2. ASSUME UNCHANGED <<indexed, lastAccepted>> PROVE ChainInv'
  BY <1>2 DEF SyncInv, ChainInv
<1>3. CASE ~\E b \in Blocks : Accept(b)
  BY <1>2, <1>3
     DEF Next, vars, Engine, VerifyVacuously, VerifyExecute, VerifyBuilt, BuildBlock,
         BuildOnUnverified, ParseBlock, Reject, RejectRemove, RejectNotify,
         ProcessAccept, SyncDone, Finish, FinishStateSync, TakeSnapshot,
         VerifyProcessing, ParentNotFound, MarkReady
<1> QED
  BY <1>1, <1>3

(* There is one accepted block at every height, and it is an ancestor of the *)
(* last one.                                                                 *)
LEMMA IndexLookup ==
    ASSUME SyncInv, NEW h \in Height[Root] .. Height[lastAccepted]
    PROVE  LET b == CHOOSE b \in indexed : Height[b] = h
           IN  b \in indexed /\ Height[b] = h /\ b \in Ancestors[lastAccepted]
  BY DEF SyncInv, OutputInv, IndexInv, ChainInv

-----------------------------------------------------------------------------
(* What acceptedSubs were told.                                              *)

(* A sequence that follows h goes on with the next accepted block.           *)
LEMMA AppendFollows ==
    ASSUME NEW s \in Seq(Blocks), NEW h \in Nat, Follows(s, h),
           NEW b \in indexed \cap Blocks, Height[b] = h + Len(s) + 1
    PROVE  Follows(Append(s, b), h)
<1>1. ASSUME NEW i \in 1 .. Len(s) + 1
      PROVE  Append(s, b)[i] \in indexed /\ Height[Append(s, b)[i]] = h + i
  BY DEF Follows
<1> QED
  BY <1>1 DEF Follows

(* Reprocessing notifies the accepted blocks after the target.               *)
LEMMA ReprocessedFollows ==
    ASSUME SyncInv, syncPc = "synced"
    PROVE  /\ Height[syncTarget] + Len(Reprocessed) = Height[lastAccepted]
           /\ Follows(Reprocessed, Height[syncTarget])
<1>1. /\ syncTarget \in indexed /\ lastAccepted \in indexed /\ indexed \subseteq Blocks
      /\ Root \in indexed
      /\ Height[syncTarget] \in Height[Root] .. Height[lastAccepted]
  BY TreeAssumption DEF SyncInv, OutputInv, TypeOK, IndexInv
<1>2. /\ Height[syncTarget] \in Nat /\ Height[lastAccepted] \in Nat
      /\ Height[Root] \in Nat
  BY <1>1, HeightStep
<1> DEFINE n == Height[lastAccepted] - Height[syncTarget]
<1>3. n \in Nat
  BY <1>1, <1>2
<1>4. Len(Reprocessed) = n /\ DOMAIN Reprocessed = 1 .. n
  BY <1>3 DEF Reprocessed
<1>5. ASSUME NEW i \in 1 .. n
      PROVE  Reprocessed[i] \in indexed /\ Height[Reprocessed[i]] = Height[syncTarget] + i
  <2>1. Height[syncTarget] + i \in Height[Root] .. Height[lastAccepted]
    BY <1>1, <1>2
  <2>2. Reprocessed[i] = CHOOSE b \in indexed : Height[b] = Height[syncTarget] + i
    BY DEF Reprocessed
  <2> QED
    BY <2>1, <2>2, IndexLookup
<1> QED
  BY <1>2, <1>4, <1>5 DEF Follows

LEMMA StreamStep == SyncInv /\ [Next]_vars => StreamInv'
<1> SUFFICES ASSUME SyncInv, [Next]_vars PROVE StreamInv'
  OBVIOUS
<1> USE DEF SyncInv, OutputInv
<1>1. ASSUME NEW b \in Blocks, Accept(b) PROVE StreamInv'
  <2>1. /\ indexed' = indexed \cup {b} /\ lastAccepted' = b
        /\ UNCHANGED <<ready, lastProcessed, acceptedLog, syncPc, syncTarget>>
        /\ acceptedQueue' = IF ready THEN Append(acceptedQueue, b) ELSE acceptedQueue
        /\ Parent[b] = lastAccepted /\ b # Root /\ syncPc \notin {"snapshot", "verifying"}
    BY <1>1 DEF Accept, Decidable, ChainLockFree, IndexInv, TreeInv, sync, history
  <2>2. \A s, h : Follows(s, h) => Follows(s, h)'
    BY <2>1 DEF Follows
  <2>3. CASE Reached
    <3>1. ready /\ acceptedQueue' = Append(acceptedQueue, b) /\ acceptedQueue \in Seq(Blocks)
      BY <2>1, <2>3 DEF Reached, TypeOK
    <3>2. /\ Height[lastProcessed] \in Nat /\ Height[b] = Height[lastAccepted] + 1
          /\ Height[lastAccepted] \in Nat
      BY <2>1, <2>3, HeightStep DEF StreamInv, TypeOK
    <3>3. /\ Height[lastProcessed] + Len(acceptedQueue) = Height[lastAccepted]
          /\ Follows(acceptedQueue, Height[lastProcessed])
      BY <2>3 DEF StreamInv
    <3>4. Height[lastProcessed] + Len(acceptedQueue') = Height[b]
      BY <3>1, <3>2, <3>3, SMTT(20)
    <3>5. Follows(acceptedQueue, Height[lastProcessed])'
      <4>1. ASSUME NEW i \in 1 .. Len(acceptedQueue) + 1
            PROVE  /\ acceptedQueue'[i] \in indexed'
                   /\ Height[acceptedQueue'[i]] = Height[lastProcessed] + i
        <5>1. CASE i = Len(acceptedQueue) + 1
          BY <2>1, <3>1, <3>2, <3>3, <5>1
        <5>2. CASE i \in 1 .. Len(acceptedQueue)
          <6>1. acceptedQueue'[i] = acceptedQueue[i]
            BY <3>1, <5>2
          <6> QED
            BY <2>1, <3>1, <3>3, <5>2, <6>1 DEF Follows
        <5> QED
          BY <3>1, <5>1, <5>2
      <4>2. DOMAIN acceptedQueue' = 1 .. Len(acceptedQueue) + 1
        BY <3>1
      <4> QED
        BY <2>1, <4>1, <4>2 DEF Follows
    <3> QED
      BY <2>1, <2>2, <2>3, <3>1, <3>4, <3>5 DEF StreamInv, Reached
  <2>4. CASE ~Reached
    BY <2>1, <2>4 DEF StreamInv, Reached
  <2> QED
    BY <2>3, <2>4
<1>2. CASE ProcessAccept
  <2>1. /\ acceptedQueue \in Seq(Blocks) /\ acceptedQueue # <<>>
        /\ acceptedLog \in Seq(Blocks)
        /\ acceptedLog' = Append(acceptedLog, acceptedQueue[1])
        /\ lastProcessed' = acceptedQueue[1]
        /\ acceptedQueue' = Tail(acceptedQueue)
        /\ UNCHANGED <<ready, indexed, lastAccepted, syncPc, syncTarget>>
    BY <1>2 DEF ProcessAccept, TypeOK, sync
  <2>2. ready /\ Reached
    BY <2>1 DEF StreamInv, Reached
  <2>3. /\ Height[syncTarget] \in Nat /\ Height[lastProcessed] \in Nat
        /\ Height[lastAccepted] \in Nat
    BY <2>2, HeightStep DEF StreamInv, TypeOK, Reached
  <2>4. /\ acceptedQueue[1] \in indexed
        /\ Height[acceptedQueue[1]] = Height[lastProcessed] + 1
    BY <2>1, <2>2 DEF StreamInv, Follows
  <2>5. Follows(acceptedLog', Height[syncTarget])
    BY <2>1, <2>2, <2>3, <2>4, AppendFollows DEF StreamInv, TypeOK
  <2>6. ASSUME NEW i \in 1 .. Len(acceptedQueue) - 1
        PROVE  /\ acceptedQueue'[i] \in indexed
               /\ Height[acceptedQueue'[i]] = Height[lastProcessed'] + i
    <3>1. acceptedQueue'[i] = acceptedQueue[i + 1] /\ i + 1 \in DOMAIN acceptedQueue
      BY <2>1
    <3>2. /\ acceptedQueue[i + 1] \in indexed
          /\ Height[acceptedQueue[i + 1]] = Height[lastProcessed] + (i + 1)
      BY <2>2, <3>1 DEF StreamInv, Follows
    <3>3. i \in Int
      OBVIOUS
    <3>4. Height[lastProcessed'] = Height[lastProcessed] + 1 /\ Height[lastProcessed] \in Nat
      BY ONLY <2>1, <2>3, <2>4
    <3> QED
      BY ONLY <3>1, <3>2, <3>3, <3>4
  <2>7. DOMAIN acceptedQueue' = 1 .. Len(acceptedQueue) - 1
        /\ Len(acceptedQueue') = Len(acceptedQueue) - 1
        /\ Len(acceptedLog') = Len(acceptedLog) + 1
    BY <2>1
  <2>8. Follows(acceptedQueue', Height[lastProcessed'])
    BY <2>6, <2>7 DEF Follows
  <2>9. /\ Height[syncTarget] + Len(acceptedLog') = Height[lastProcessed']
        /\ Height[lastProcessed'] + Len(acceptedQueue') = Height[lastAccepted]
    <3>1. /\ Height[syncTarget] + Len(acceptedLog) = Height[lastProcessed]
          /\ Height[lastProcessed] + Len(acceptedQueue) = Height[lastAccepted]
      BY <2>2 DEF StreamInv
    <3>2. Len(acceptedLog) \in Nat /\ Len(acceptedQueue) \in Nat
      BY <2>1
    <3>3. Height[lastProcessed'] = Height[lastProcessed] + 1
      BY ONLY <2>1, <2>4
    <3>4. Len(acceptedQueue') = Len(acceptedQueue) - 1
          /\ Len(acceptedLog') = Len(acceptedLog) + 1
      BY ONLY <2>7
    <3>5. \A t, l, p, q, n \in Nat : t + l = p /\ p + q = n
                => t + (l + 1) = p + 1 /\ (p + 1) + (q - 1) = n
      OBVIOUS
    <3>6. /\ Height[syncTarget] + (Len(acceptedLog) + 1) = Height[lastProcessed] + 1
          /\ (Height[lastProcessed] + 1) + (Len(acceptedQueue) - 1) = Height[lastAccepted]
      BY ONLY <2>3, <3>1, <3>2, <3>5, SMTT(20)
    <3> QED
      BY ONLY <3>3, <3>4, <3>6, Zenon
  <2> QED
    <3>1. Follows(acceptedLog, Height[syncTarget])'
      BY ONLY <2>1, <2>5 DEF Follows
    <3>2. Follows(acceptedQueue, Height[lastProcessed])'
      BY ONLY <2>1, <2>8 DEF Follows
    <3>3. lastProcessed' \in indexed' /\ ready'
          /\ syncPc' \notin {"syncing", "synced"}
      BY <2>1, <2>2, <2>4 DEF Reached
    <3> QED
      BY ONLY <2>1, <2>9, <3>1, <3>2, <3>3 DEF StreamInv
<1>3. CASE FinishStateSync
  <2>1. /\ syncPc = "synced" /\ syncPc' = "snapshot" /\ ~ready'
        /\ acceptedLog' = <<>> \o Reprocessed /\ lastProcessed' = lastAccepted
        /\ acceptedQueue' = <<>>
        /\ UNCHANGED <<indexed, lastAccepted, syncTarget>>
    BY <1>3 DEF FinishStateSync, StreamInv, sync
  <2>2. acceptedLog' = Reprocessed
    <3>1. Reprocessed \in Seq(Blocks)
      BY <2>1, ReprocessedType
    <3> QED
      BY <2>1, <3>1
  <2>3. Follows(<<>>, Height[lastAccepted])' /\ Len(acceptedQueue') = 0
    BY <2>1 DEF Follows
  <2>4. Height[lastAccepted] \in Nat /\ lastAccepted \in indexed
    BY HeightStep DEF TypeOK, IndexInv
  <2>5. Follows(acceptedLog, Height[syncTarget])'
    BY <2>1, <2>2, ReprocessedFollows DEF Follows
  <2> QED
    BY <2>1, <2>2, <2>3, <2>4, <2>5, ReprocessedFollows DEF StreamInv, Reached
<1>4. CASE \/ \E T \in Blocks : SyncDone(T) \/ ParentNotFound(T)
           \/ TakeSnapshot \/ MarkReady
  <2>1. UNCHANGED <<indexed, lastAccepted, lastProcessed, acceptedQueue, acceptedLog>>
        /\ (Reached' => Reached /\ syncTarget' = syncTarget)
        /\ (ready => ready')
        /\ (syncPc' \in {"syncing", "synced"} => syncPc \in {"syncing", "synced"})
    BY <1>4 DEF SyncDone, ParentNotFound, TakeSnapshot, MarkReady, Reached, history
  <2> QED
    BY <2>1 DEF StreamInv, Follows
<1>5. ASSUME UNCHANGED <<ready, indexed, lastAccepted, lastProcessed, acceptedQueue,
                         acceptedLog, syncPc, syncTarget>>
      PROVE  StreamInv'
  BY <1>5 DEF StreamInv, Follows, Reached
<1>6. CASE \/ UNCHANGED vars \/ RejectNotify
           \/ \E b \in Blocks : \/ VerifyVacuously(b) \/ VerifyExecute(b)
                                \/ VerifyBuilt(b) \/ BuildBlock(b)
                                \/ BuildOnUnverified(b) \/ ParseBlock(b)
                                \/ RejectRemove(b) \/ VerifyProcessing(b)
  BY <1>5, <1>6
     DEF vars, VerifyVacuously, VerifyExecute, VerifyBuilt, BuildBlock,
         BuildOnUnverified, ParseBlock, RejectRemove, RejectNotify,
         VerifyProcessing, sync, history
<1> QED
  BY <1>1, <1>2, <1>3, <1>4, <1>6 DEF Next, Engine, Reject, Finish

-----------------------------------------------------------------------------
(* What was rejected.                                                        *)

LEMMA DecisionStep == SyncInv /\ [Next]_vars => DecisionInv'
<1> SUFFICES ASSUME SyncInv, [Next]_vars PROVE DecisionInv'
  OBVIOUS
<1> USE DEF SyncInv, OutputInv
<1>1. ASSUME NEW b \in Blocks, VerifyVacuously(b) \/ VerifyExecute(b) \/ VerifyBuilt(b)
      PROVE  DecisionInv'
  <2>1. /\ toReject = {} /\ rejecting = None /\ b \notin verifiedBlocks \cup indexed
        /\ Parent[b] \in verifiedBlocks \cup {lastAccepted}
        /\ verifiedBlocks' = verifiedBlocks \cup {b}
        /\ UNCHANGED <<indexed, lastAccepted, toReject, rejecting, rejectedLog,
                       preRejectedLog>>
    BY <1>1 DEF VerifyVacuously, VerifyExecute, VerifyBuilt, Issuable, EngineIdle,
                engine, history
  <2>2. b # Root /\ Parent[b] \in Blocks
    BY <2>1, TreeAssumption DEF IndexInv
  <2>3. lastAccepted \in Ancestors[Parent[b]]
    BY <2>1, OwnAncestor DEF DecisionInv, Live, TypeOK
  <2>4. lastAccepted \in Ancestors[b]
    BY <2>2, <2>3, TreeAssumption
  <2>5. b \notin Gone
    BY <2>4 DEF DecisionInv
  <2> QED
    BY <2>1, <2>4, <2>5 DEF DecisionInv, Live, Gone
<1>2. ASSUME NEW b \in Blocks, Accept(b) PROVE DecisionInv'
  <2>1. /\ toReject = {} /\ rejecting = None
        /\ b \in verifiedBlocks /\ Parent[b] = lastAccepted
        /\ indexed' = indexed \cup {b} /\ lastAccepted' = b
        /\ verifiedBlocks' = verifiedBlocks \ {b}
        /\ toReject' = {c \in verifiedBlocks : b \notin Ancestors[c]}
        /\ UNCHANGED <<rejecting, rejectedLog, preRejectedLog>>
    BY <1>2 DEF Accept, Decidable, EngineIdle, history
  <2>2. b # Root /\ None \notin Blocks
    BY <2>1, TreeAssumption DEF IndexInv, TreeInv
  <2>3. ASSUME NEW c \in Gone \cap Blocks PROVE b \notin Ancestors[c]
    <3>1. lastAccepted \notin Ancestors[c]
      BY DEF DecisionInv
    <3> QED
      BY <2>1, <2>2, <3>1, AncestorParent
  <2> QED
    BY <2>1, <2>2, <2>3 DEF DecisionInv, Live, Gone
<1>3. ASSUME NEW b \in Blocks, RejectRemove(b) PROVE DecisionInv'
  <2>1. /\ b \in toReject /\ rejecting = None
        /\ verifiedBlocks' = verifiedBlocks \ {b} /\ toReject' = toReject \ {b}
        /\ rejecting' = b
        /\ UNCHANGED <<indexed, lastAccepted, rejectedLog, preRejectedLog>>
    BY <1>3 DEF RejectRemove, history
  <2>2. b \notin Gone \cup indexed /\ lastAccepted \notin Ancestors[b] /\ Live' = Live
    BY <2>1 DEF DecisionInv, TreeInv, Live
  <2> QED
    BY <2>1, <2>2 DEF DecisionInv, Gone
<1>4. CASE RejectNotify
  <2>1. /\ rejecting # None /\ rejecting' = None
        /\ \/ rejectedLog' = rejectedLog \cup {rejecting} /\ UNCHANGED preRejectedLog
           \/ preRejectedLog' = preRejectedLog \cup {rejecting} /\ UNCHANGED rejectedLog
        /\ UNCHANGED <<indexed, lastAccepted, verifiedBlocks, toReject>>
    BY <1>4 DEF RejectNotify
  <2>2. rejecting \in Blocks /\ Live' = Live /\ None \notin Blocks
    BY <2>1, TreeAssumption DEF TypeOK, Live
  <2>3. rejecting' \notin Gone' \cup indexed'
    BY <2>1, <2>2 DEF TypeOK, Gone
  <2>4. (Gone \cap (verifiedBlocks \cup indexed))' = {}
        /\ (rejectedLog \cap preRejectedLog)' = {}
    BY <2>1 DEF DecisionInv, TreeInv, Gone
  <2> QED
    BY <2>1, <2>2, <2>3, <2>4 DEF DecisionInv, Gone
<1>5. ASSUME UNCHANGED <<indexed, lastAccepted, verifiedBlocks, toReject, rejecting,
                         rejectedLog, preRejectedLog>>
      PROVE  DecisionInv'
  BY <1>5 DEF DecisionInv, Live, Gone
<1>6. CASE \/ UNCHANGED vars \/ ProcessAccept
           \/ FinishStateSync \/ TakeSnapshot \/ MarkReady
           \/ \E b \in Blocks : \/ BuildBlock(b) \/ BuildOnUnverified(b) \/ ParseBlock(b)
                                \/ VerifyProcessing(b) \/ ParentNotFound(b) \/ SyncDone(b)
  BY <1>5, <1>6
     DEF vars, BuildBlock, BuildOnUnverified, ParseBlock, ProcessAccept, SyncDone,
         FinishStateSync, TakeSnapshot, VerifyProcessing, ParentNotFound, MarkReady,
         engine, history
<1> QED
  BY <1>1, <1>2, <1>3, <1>4, <1>6 DEF Next, Engine, Reject, Finish

-----------------------------------------------------------------------------
(* SyncInv holds in every reachable state.                                   *)
THEOREM SyncInvariant == Spec => []SyncInv
<1>1. Init => SyncInv
  <2> SUFFICES ASSUME Init PROVE SyncInv
    OBVIOUS
  <2>1. OutputInv
    BY InitInv
  <2>2. ChainInv
    BY TreeAssumption DEF Init, ChainInv
  <2>3. StreamInv
    BY DEF Init, StreamInv, Reached
  <2>4. DecisionInv
    BY TreeAssumption DEF Init, DecisionInv, Gone, Live
  <2> QED
    BY <2>1, <2>2, <2>3, <2>4 DEF SyncInv
<1>2. SyncInv /\ [Next]_vars => SyncInv'
  BY NextInv, ChainStep, StreamStep, DecisionStep DEF SyncInv
<1> QED
  BY <1>1, <1>2, PTL DEF Spec

-----------------------------------------------------------------------------
(* What the application sees of the transition: every accepted block above   *)
(* the synced state once and in order, one verdict on every rejected block   *)
(* and none on an accepted one, a chain it can read by height at any time.   *)
THEOREM ApplicationSees == Spec => []ApplicationView
<1>1. SyncInv => AcceptedStreamExact
  <2> SUFFICES ASSUME SyncInv, ready PROVE AcceptedStreamExact
    BY DEF AcceptedStreamExact
  <2>1. Reached /\ syncTarget \in indexed /\ lastProcessed \in indexed
    BY DEF SyncInv, OutputInv, Reached, TypeOK, StreamInv
  <2>2. /\ Height[syncTarget] \in Nat /\ Height[lastProcessed] \in Nat /\ Height[Root] \in Nat
        /\ Height[Root] <= Height[syncTarget]
        /\ acceptedLog \in Seq(Blocks)
    BY <2>1, HeightStep, TreeAssumption DEF SyncInv, OutputInv, TypeOK, IndexInv
  <2>3. Len(acceptedLog) = Height[lastProcessed] - Height[syncTarget]
    BY <2>1, <2>2 DEF SyncInv, StreamInv
  <2>4. ASSUME NEW i \in DOMAIN acceptedLog
        PROVE  Parent[acceptedLog[i]] = IF i = 1 THEN syncTarget ELSE acceptedLog[i - 1]
    <3>1. acceptedLog[i] \in indexed /\ Height[acceptedLog[i]] = Height[syncTarget] + i
      BY <2>1 DEF SyncInv, StreamInv, Follows
    <3>2. i \in Nat /\ i >= 1 /\ acceptedLog[i] \in Blocks
      BY <2>2
    <3>3. acceptedLog[i] # Root
      BY <2>2, <3>1, <3>2
    <3>4. /\ Parent[acceptedLog[i]] \in indexed
          /\ Height[Parent[acceptedLog[i]]] = Height[syncTarget] + i - 1
      <4>1. Parent[acceptedLog[i]] \in indexed
        BY <3>1, <3>3 DEF SyncInv, ChainInv
      <4>2. /\ Height[acceptedLog[i]] = Height[Parent[acceptedLog[i]]] + 1
            /\ Height[Parent[acceptedLog[i]]] \in Nat
        BY <3>2, <3>3, HeightStep
      <4> QED
        BY ONLY <2>2, <3>1, <3>2, <4>1, <4>2, SMTT(20)
    <3>5. CASE i = 1
      BY <2>1, <2>2, <3>4, <3>5 DEF SyncInv, ChainInv
    <3>6. CASE i # 1
      <4>1. i - 1 \in DOMAIN acceptedLog
        BY <2>2, <3>2, <3>6
      <4>2. acceptedLog[i - 1] \in indexed
            /\ Height[acceptedLog[i - 1]] = Height[syncTarget] + (i - 1)
        BY <2>1, <4>1 DEF SyncInv, StreamInv, Follows
      <4> QED
        BY <2>2, <3>2, <3>4, <3>6, <4>2 DEF SyncInv, ChainInv
    <3> QED
      BY <3>5, <3>6
  <2> QED
    BY <2>3, <2>4 DEF AcceptedStreamExact
<1>2. SyncInv => DecidedOnce
  BY DEF SyncInv, DecisionInv, Gone, DecidedOnce
<1>3. SyncInv => ReadsConsistent
  <2> SUFFICES ASSUME SyncInv PROVE ReadsConsistent
    OBVIOUS
  <2>1. ASSUME NEW h \in Height[Root] .. Height[lastAccepted]
        PROVE  /\ Height[GetBlockByHeight(h).id] = h
               /\ GetBlockByHeight(h).id \in Ancestors[lastAccepted]
    BY IndexLookup, OwnAncestor
       DEF GetBlockByHeight, GetBlockIDAtHeight, SyncInv, OutputInv, TypeOK
  <2>2. ready => GetBlockByHeight(Height[lastAccepted]).output
    BY DEF GetBlockByHeight, GetBlockIDAtHeight, HasOutput, Found, SyncInv, OutputInv,
           IndexInv, Reached
  <2>3. ready => GetLastAccepted \in Ancestors[lastAccepted]
    BY DEF GetLastAccepted, SyncInv, OutputInv, Reached, StreamInv, ChainInv
  <2> QED
    BY <2>1, <2>2, <2>3 DEF ReadsConsistent
<1> QED
  BY <1>1, <1>2, <1>3, SyncInvariant, HealthyHasPreference, PTL DEF ApplicationView

-----------------------------------------------------------------------------
(* The client of the state sync                                              *)

USE DEF Heights

LEMMA ClientInitInv == ClientInit => SyncClientInv
<1> SUFFICES ASSUME ClientInit PROVE SyncClientInv
  OBVIOUS
<1>1. ClientTypeOK
  <2>1. 0 \in Heights /\ crashes \in 0 .. MaxCrashes /\ normalOps \in 0 .. 2
    BY BoundAssumption DEF ClientInit
  <2>2. {whole, syncing, must, started, vmReady, windowDone, finishErr} \subseteq BOOLEAN
    BY DEF ClientInit
  <2> QED  BY <2>1, <2>2 DEF ClientInit, ClientTypeOK
<1>2. UnmarkedIsBootable /\ PhaseInv /\ EngineInv /\ TargetInv
  BY DEF ClientInit, UnmarkedIsBootable, Bootable, PhaseInv, EngineInv, TargetInv
<1> QED  BY <1>1, <1>2 DEF SyncClientInv

-----------------------------------------------------------------------------
(* A process that runs on an unmarked disk is ready, and its disk can be     *)
(* booted.                                                                   *)
LEMMA UpInv ==
  ASSUME ClientTypeOK', PhaseInv', EngineInv', TargetInv', node' = "up"
  PROVE  SyncClientInv'
<1>1. UnmarkedIsBootable'
  BY DEF ClientTypeOK, PhaseInv, Complete, UnmarkedIsBootable, Bootable
<1> QED  BY <1>1 DEF SyncClientInv

(* The process starts.                                                       *)
LEMMA BootInv ==
  ASSUME SyncClientInv, Boot
  PROVE  SyncClientInv'
<1> USE BoundAssumption DEF SyncClientInv, Boot
<1>1. node' = "up" /\ ClientTypeOK'
  BY DEF ClientTypeOK
<1>2. PhaseInv'
  BY DEF ClientTypeOK, PhaseInv, Complete, UnmarkedIsBootable
<1>3. EngineInv' /\ TargetInv'
  BY DEF ClientTypeOK, PhaseInv, EngineInv, TargetInv
<1> QED  BY <1>1, <1>2, <1>3, UpInv

(* The process ends or does not get through Initialize: the disk stays.      *)
LEMMA DownInv ==
  ASSUME SyncClientInv, BootFails \/ Crash
  PROVE  SyncClientInv'
<1> USE BoundAssumption DEF SyncClientInv, BootFails, Crash, disk
<1>1. ClientTypeOK'
  <2>1. {whole, syncing, must, started, vmReady, windowDone, finishErr}' \subseteq BOOLEAN
    BY DEF ClientTypeOK
  <2>2. 0 \in Heights /\ crashes' \in 0 .. MaxCrashes /\ normalOps' \in 0 .. 2
    BY DEF ClientTypeOK
  <2> QED  BY <2>1, <2>2 DEF ClientTypeOK
<1>2. UnmarkedIsBootable'
  BY DEF UnmarkedIsBootable, Bootable
<1>3. PhaseInv' /\ EngineInv' /\ TargetInv'
  BY DEF ClientTypeOK, PhaseInv, EngineInv, TargetInv
<1> QED  BY <1>1, <1>2, <1>3

(* A summary that is skipped.                                                *)
LEMMA SkipInv ==
  ASSUME SyncClientInv, NEW t \in Heights \ {0}, Skip(t)
  PROVE  SyncClientInv'
<1> USE BoundAssumption DEF SyncClientInv, Skip, disk, client
<1>1. node' = "up" /\ ClientTypeOK'
  BY DEF ClientTypeOK, PhaseInv, EngineInv, TargetInv
<1>2. PhaseInv'
  BY DEF ClientTypeOK, PhaseInv, EngineInv, TargetInv, Complete
<1>3. EngineInv'
  BY DEF ClientTypeOK, PhaseInv, EngineInv, Complete
<1>4. TargetInv'
  BY DEF ClientTypeOK, PhaseInv, EngineInv, TargetInv
<1> QED  BY <1>1, <1>2, <1>3, <1>4, UpInv

(* A summary that is accepted: the disk is marked first.                     *)
LEMMA AcceptInv ==
  ASSUME SyncClientInv, NEW t \in Heights \ {0}, AcceptSummary(t)
  PROVE  SyncClientInv'
<1> USE BoundAssumption DEF SyncClientInv, AcceptSummary
<1>1. node' = "up" /\ ClientTypeOK'
  BY DEF ClientTypeOK, PhaseInv, EngineInv, TargetInv
<1>2. PhaseInv'
  BY DEF ClientTypeOK, PhaseInv, EngineInv, TargetInv, Complete
<1>3. EngineInv'
  BY DEF ClientTypeOK, PhaseInv, EngineInv, Complete
<1>4. TargetInv'
  BY DEF ClientTypeOK, PhaseInv, EngineInv, TargetInv
<1> QED  BY <1>1, <1>2, <1>3, <1>4, UpInv

(* The engine finds no summary.                                              *)
LEMMA NoSummaryInv ==
  ASSUME SyncClientInv, NoSummary
  PROVE  SyncClientInv'
<1> USE BoundAssumption DEF SyncClientInv, NoSummary, disk, client
<1>1. node' = "up" /\ ClientTypeOK'
  BY DEF ClientTypeOK, PhaseInv, EngineInv, TargetInv
<1>2. PhaseInv'
  BY DEF ClientTypeOK, PhaseInv, EngineInv, TargetInv, Complete
<1>3. EngineInv'
  BY DEF ClientTypeOK, PhaseInv, EngineInv, Complete
<1>4. TargetInv'
  BY DEF ClientTypeOK, PhaseInv, EngineInv, TargetInv
<1> QED  BY <1>1, <1>2, <1>3, <1>4, UpInv

(* The index moves to the target, on a marked disk.                          *)
LEMMA StartStateSyncInv ==
  ASSUME SyncClientInv, StartStateSync
  PROVE  SyncClientInv'
<1> USE BoundAssumption DEF SyncClientInv, StartStateSync
<1>1. node' = "up" /\ ClientTypeOK'
  BY DEF ClientTypeOK, PhaseInv, EngineInv, TargetInv
<1>2. PhaseInv'
  BY DEF ClientTypeOK, PhaseInv, EngineInv, TargetInv, Complete
<1>3. EngineInv'
  BY DEF ClientTypeOK, PhaseInv, EngineInv, Complete
<1>4. TargetInv'
  BY DEF ClientTypeOK, PhaseInv, EngineInv, TargetInv
<1> QED  BY <1>1, <1>2, <1>3, <1>4, UpInv

(* The syncers start.                                                        *)
LEMMA StartSyncersInv ==
  ASSUME SyncClientInv, StartSyncers
  PROVE  SyncClientInv'
<1> USE BoundAssumption DEF SyncClientInv, StartSyncers, disk
<1>1. node' = "up" /\ ClientTypeOK'
  BY DEF ClientTypeOK, PhaseInv, EngineInv, TargetInv
<1>2. PhaseInv'
  BY DEF ClientTypeOK, PhaseInv, EngineInv, TargetInv, Complete
<1>3. EngineInv'
  BY DEF ClientTypeOK, PhaseInv, EngineInv, Complete
<1>4. TargetInv'
  BY DEF ClientTypeOK, PhaseInv, EngineInv, TargetInv
<1> QED  BY <1>1, <1>2, <1>3, <1>4, UpInv

(* Consensus goes on while the state is synced.                              *)
LEMMA AcceptBlockSyncingInv ==
  ASSUME SyncClientInv, AcceptBlockSyncing
  PROVE  SyncClientInv'
<1> USE BoundAssumption DEF SyncClientInv, AcceptBlockSyncing, vm
<1>1. node' = "up" /\ ClientTypeOK'
  <2>1. index' \in Heights /\ target' \in Heights
    BY DEF ClientTypeOK
  <2>2. windowDone' \in BOOLEAN
    BY DEF ClientTypeOK
  <2> QED  BY <2>1, <2>2 DEF ClientTypeOK
<1>2. PhaseInv'
  BY DEF ClientTypeOK, PhaseInv, EngineInv, TargetInv, Complete
<1>3. EngineInv'
  BY DEF ClientTypeOK, PhaseInv, EngineInv, Complete
<1>4. TargetInv'
  BY DEF ClientTypeOK, PhaseInv, EngineInv, TargetInv
<1> QED  BY <1>1, <1>2, <1>3, <1>4, UpInv

(* A ready VM accepts a block ...                                            *)
LEMMA AcceptBlockInv ==
  ASSUME SyncClientInv, AcceptBlock
  PROVE  SyncClientInv'
<1> USE BoundAssumption DEF SyncClientInv, AcceptBlock, client, vm
<1>1. node' = "up" /\ ClientTypeOK'
  BY DEF ClientTypeOK, PhaseInv, EngineInv, TargetInv
<1>2. PhaseInv'
  BY DEF ClientTypeOK, PhaseInv, EngineInv, TargetInv, Complete
<1>3. EngineInv'
  BY DEF ClientTypeOK, PhaseInv, EngineInv, Complete
<1>4. TargetInv'
  BY DEF ClientTypeOK, PhaseInv, EngineInv, TargetInv
<1> QED  BY <1>1, <1>2, <1>3, <1>4, UpInv

(* ... and executes it.                                                      *)
LEMMA ProcessInv ==
  ASSUME SyncClientInv, Process
  PROVE  SyncClientInv'
<1> USE BoundAssumption DEF SyncClientInv, Process, client, vm
<1>1. node' = "up" /\ ClientTypeOK'
  BY DEF ClientTypeOK, PhaseInv, EngineInv, TargetInv
<1>2. PhaseInv'
  BY DEF ClientTypeOK, PhaseInv, EngineInv, TargetInv, Complete
<1>3. EngineInv'
  BY DEF ClientTypeOK, PhaseInv, EngineInv, Complete
<1>4. TargetInv'
  BY DEF ClientTypeOK, PhaseInv, EngineInv, TargetInv
<1> QED  BY <1>1, <1>2, <1>3, <1>4, UpInv

(* The engine enters normal operation.                                       *)
LEMMA SetNormalOpInv ==
  ASSUME SyncClientInv, SetNormalOp
  PROVE  SyncClientInv'
<1> USE BoundAssumption DEF SyncClientInv, SetNormalOp, disk, client
<1>1. node' = "up" /\ ClientTypeOK'
  BY DEF ClientTypeOK, PhaseInv, EngineInv, TargetInv
<1>2. PhaseInv'
  BY DEF ClientTypeOK, PhaseInv, EngineInv, TargetInv, Complete
<1>3. EngineInv'
  BY DEF ClientTypeOK, PhaseInv, EngineInv, Complete
<1>4. TargetInv'
  BY DEF ClientTypeOK, PhaseInv, EngineInv, TargetInv
<1> QED  BY <1>1, <1>2, <1>3, <1>4, UpInv

(* A range is written.                                                       *)
LEMMA MerkleRangeInv ==
  ASSUME SyncClientInv, MerkleRange
  PROVE  SyncClientInv'
<1> USE BoundAssumption DEF SyncClientInv, MerkleRange, client, vm
<1>1. node' = "up" /\ ClientTypeOK'
  <2>1. target - 1 \in Heights
    BY DEF ClientTypeOK, TargetInv
  <2>2. height' \in Heights
    BY <2>1 DEF ClientTypeOK
  <2> QED  BY <2>2 DEF ClientTypeOK
<1>2. PhaseInv'
  BY DEF ClientTypeOK, PhaseInv, EngineInv, TargetInv, Complete
<1>3. EngineInv'
  BY DEF ClientTypeOK, PhaseInv, EngineInv, Complete
<1>4. TargetInv'
  BY DEF ClientTypeOK, PhaseInv, EngineInv, TargetInv
<1> QED  BY <1>1, <1>2, <1>3, <1>4, UpInv

(* The state is there.                                                       *)
LEMMA MerkleDoneInv ==
  ASSUME SyncClientInv, MerkleDone
  PROVE  SyncClientInv'
<1> USE BoundAssumption DEF SyncClientInv, MerkleDone, vm
<1>1. node' = "up" /\ ClientTypeOK'
  BY DEF ClientTypeOK, PhaseInv, EngineInv, TargetInv
<1>2. PhaseInv'
  BY DEF ClientTypeOK, PhaseInv, EngineInv, TargetInv, Complete
<1>3. EngineInv'
  BY DEF ClientTypeOK, PhaseInv, EngineInv, Complete
<1>4. TargetInv'
  BY DEF ClientTypeOK, PhaseInv, EngineInv, TargetInv
<1> QED  BY <1>1, <1>2, <1>3, <1>4, UpInv

(* The window is there.                                                      *)
LEMMA WindowDoneInv ==
  ASSUME SyncClientInv, WindowDone
  PROVE  SyncClientInv'
<1> USE BoundAssumption DEF SyncClientInv, WindowDone, disk, vm
<1>1. node' = "up" /\ ClientTypeOK'
  BY DEF ClientTypeOK, PhaseInv, EngineInv, TargetInv
<1>2. PhaseInv'
  BY DEF ClientTypeOK, PhaseInv, EngineInv, TargetInv, Complete
<1>3. EngineInv'
  BY DEF ClientTypeOK, PhaseInv, EngineInv, Complete
<1>4. TargetInv'
  BY DEF ClientTypeOK, PhaseInv, EngineInv, TargetInv
<1> QED  BY <1>1, <1>2, <1>3, <1>4, UpInv

(* The target is executed ...                                                *)
LEMMA PutResultsInv ==
  ASSUME SyncClientInv, PutResults
  PROVE  SyncClientInv'
<1> USE BoundAssumption DEF SyncClientInv, PutResults, Step, vm
<1>1. node' = "up" /\ ClientTypeOK'
  BY DEF ClientTypeOK, PhaseInv, EngineInv, TargetInv
<1>2. PhaseInv'
  BY DEF ClientTypeOK, PhaseInv, EngineInv, TargetInv, Complete
<1>3. EngineInv'
  BY DEF ClientTypeOK, PhaseInv, EngineInv, Complete
<1>4. TargetInv'
  BY DEF ClientTypeOK, PhaseInv, EngineInv, TargetInv
<1> QED  BY <1>1, <1>2, <1>3, <1>4, UpInv

(* ... and its view committed.                                               *)
LEMMA CommitTargetInv ==
  ASSUME SyncClientInv, CommitTarget
  PROVE  SyncClientInv'
<1> USE BoundAssumption DEF SyncClientInv, CommitTarget, Step, vm
<1>1. node' = "up" /\ ClientTypeOK'
  BY DEF ClientTypeOK, PhaseInv, EngineInv, TargetInv
<1>2. PhaseInv'
  BY DEF ClientTypeOK, PhaseInv, EngineInv, TargetInv, Complete
<1>3. EngineInv'
  BY DEF ClientTypeOK, PhaseInv, EngineInv, Complete
<1>4. TargetInv'
  BY DEF ClientTypeOK, PhaseInv, EngineInv, TargetInv
<1> QED  BY <1>1, <1>2, <1>3, <1>4, UpInv

(* A block that was accepted meanwhile is executed.                          *)
LEMMA ReprocessInv ==
  ASSUME SyncClientInv, Reprocess
  PROVE  SyncClientInv'
<1> USE BoundAssumption DEF SyncClientInv, Reprocess, client, vm
<1>1. node' = "up" /\ ClientTypeOK'
  BY DEF ClientTypeOK, PhaseInv, EngineInv, TargetInv
<1>2. PhaseInv'
  BY DEF ClientTypeOK, PhaseInv, EngineInv, TargetInv, Complete
<1>3. EngineInv'
  BY DEF ClientTypeOK, PhaseInv, EngineInv, Complete
<1>4. TargetInv'
  BY DEF ClientTypeOK, PhaseInv, EngineInv, TargetInv
<1> QED  BY <1>1, <1>2, <1>3, <1>4, UpInv

(* The VM becomes ready.                                                     *)
LEMMA FinishStateSyncInv ==
  ASSUME SyncClientInv, FinishSync
  PROVE  SyncClientInv'
<1> USE BoundAssumption DEF SyncClientInv, FinishSync, Step, disk
<1>1. node' = "up" /\ ClientTypeOK'
  BY DEF ClientTypeOK, PhaseInv, EngineInv, TargetInv
<1>2. PhaseInv'
  BY DEF ClientTypeOK, PhaseInv, EngineInv, TargetInv, Complete
<1>3. EngineInv'
  BY DEF ClientTypeOK, PhaseInv, EngineInv, Complete
<1>4. TargetInv'
  BY DEF ClientTypeOK, PhaseInv, EngineInv, TargetInv
<1> QED  BY <1>1, <1>2, <1>3, <1>4, UpInv

(* Normal operation starts.                                                  *)
LEMMA StartNormalOpInv ==
  ASSUME SyncClientInv, StartNormalOp
  PROVE  SyncClientInv'
<1> USE BoundAssumption DEF SyncClientInv, StartNormalOp, Step, disk
<1>1. node' = "up" /\ ClientTypeOK'
  BY DEF ClientTypeOK, PhaseInv, EngineInv, TargetInv
<1>2. PhaseInv'
  BY DEF ClientTypeOK, PhaseInv, EngineInv, TargetInv, Complete
<1>3. EngineInv'
  BY DEF ClientTypeOK, PhaseInv, EngineInv, Complete
<1>4. TargetInv'
  BY DEF ClientTypeOK, PhaseInv, EngineInv, TargetInv
<1> QED  BY <1>1, <1>2, <1>3, <1>4, UpInv

(* The mark is removed.                                                      *)
LEMMA UnmarkInv ==
  ASSUME SyncClientInv, Unmark
  PROVE  SyncClientInv'
<1> USE BoundAssumption DEF SyncClientInv, Unmark, Step, vm
<1>1. node' = "up" /\ ClientTypeOK'
  BY DEF ClientTypeOK, PhaseInv, EngineInv, TargetInv
<1>2. PhaseInv'
  BY DEF ClientTypeOK, PhaseInv, EngineInv, TargetInv, Complete
<1>3. EngineInv'
  BY DEF ClientTypeOK, PhaseInv, EngineInv, Complete
<1>4. TargetInv'
  BY DEF ClientTypeOK, PhaseInv, EngineInv, TargetInv
<1> QED  BY <1>1, <1>2, <1>3, <1>4, UpInv

(* onFinish returns an error.                                                *)
LEMMA FinishFailsInv ==
  ASSUME SyncClientInv, FinishFails
  PROVE  SyncClientInv'
<1> USE BoundAssumption DEF SyncClientInv, FinishFails, disk, vm
<1>1. node' = "up" /\ ClientTypeOK'
  BY DEF ClientTypeOK, PhaseInv, EngineInv, TargetInv
<1>2. PhaseInv'
  BY DEF ClientTypeOK, PhaseInv, EngineInv, TargetInv, Complete
<1>3. EngineInv'
  BY DEF ClientTypeOK, PhaseInv, EngineInv, Complete
<1>4. TargetInv'
  BY DEF ClientTypeOK, PhaseInv, EngineInv, TargetInv
<1> QED  BY <1>1, <1>2, <1>3, <1>4, UpInv

-----------------------------------------------------------------------------
LEMMA Inductive == SyncClientInv /\ [ClientNext]_clientVars => SyncClientInv'
<1> SUFFICES ASSUME SyncClientInv, [ClientNext]_clientVars PROVE SyncClientInv'
  OBVIOUS
<1>1. ASSUME NEW t \in Heights \ {0}, Skip(t) \/ AcceptSummary(t)
      PROVE  SyncClientInv'
  BY <1>1, SkipInv, AcceptInv
<1>2. CASE SyncStep
  BY <1>2, StartStateSyncInv, StartSyncersInv, MerkleDoneInv, WindowDoneInv, PutResultsInv,
     CommitTargetInv, ReprocessInv, FinishStateSyncInv, StartNormalOpInv, UnmarkInv
     DEF SyncStep
<1>3. CASE UNCHANGED clientVars
  BY <1>3 DEF clientVars, disk, client, vm, SyncClientInv, ClientTypeOK, UnmarkedIsBootable, Bootable,
              PhaseInv, Complete, EngineInv, TargetInv
<1> QED  BY <1>1, <1>2, <1>3, BootInv, DownInv, NoSummaryInv, AcceptBlockSyncingInv,
            AcceptBlockInv, ProcessInv, SetNormalOpInv, MerkleRangeInv, FinishFailsInv
         DEF ClientNext

(* The node may crash at any step of a state sync and finds a disk that is   *)
(* marked as syncing or can be booted.                                       *)
THEOREM SyncClientInvariant == FairClientSpec => []SyncClientInv
<1> QED  BY ClientInitInv, Inductive, PTL DEF FairClientSpec, ClientSpec

(* A ready VM has the whole state of the last accepted block or of the one   *)
(* before it, and normal operation starts once, on a ready VM.               *)
THEOREM ReadyComplete == FairClientSpec => []ReadyIsComplete
<1>1. SyncClientInv => ReadyIsComplete
  BY DEF SyncClientInv, PhaseInv, Complete, EngineInv, ReadyIsComplete
<1> QED  BY <1>1, SyncClientInvariant, PTL
=============================================================================
