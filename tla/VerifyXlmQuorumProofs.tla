----------------------- MODULE VerifyXlmQuorumProofs -----------------------
(***************************************************************************)
(* The pipeline and the modules it is composed of: what is proved of the   *)
(* registry, of verify and of the abstract promise, said of the composed   *)
(* system.                                                                 *)
(*                                                                         *)
(* The registry takes its steps inside the pipeline (RegistrySteps), so    *)
(* its theorems hold there; with them, every batch verify_xlm accepts was  *)
(* signed by a quorum of a recent ledger.                                  *)
(***************************************************************************)
EXTENDS VerifyXlmProofs

\* The theorems about the registry and verify, on the pipeline's clock.
QP == INSTANCE QuorumVerificationProofs WITH ledger <- now, MaxLedger <- MaxTime

\* The theorems about the promise.
TP == INSTANCE TriggeredAutomationProofs WITH
    calls <- [i \in DOMAIN feed |-> CalledFor(feed[i].topic)], done <- seen

----------------------------------------------------------------------------
(* The promise.                                                            *)

\* Every rebalance and every harvest the operators ever made has a trigger
\* of its own among the events marked seen.
THEOREM EveryActHasItsTrigger == PipelineSpec => []TP!OneTriggerEach
<1>1. TP!Spec => []TP!OneTriggerEach
  BY TP!ActionsHaveTriggers
<1>2. TP!Spec <=> KeepsPromise
  BY DEF KeepsPromise, Promise!Spec, TP!Spec, Promise!Init, TP!Init, Promise!Next, TP!Next,
         Promise!Occur, TP!Occur, Promise!Act, TP!Act, Promise!Actions, TP!Actions
<1> QED BY <1>1, <1>2, PipelineKeepsPromise, PTL

----------------------------------------------------------------------------
(* The registry within the pipeline.                                       *)

\* Only a closing ledger moves the clock.
LEMMA EntryPointsKeepTime ==
  ASSUME Handler
  PROVE  now' = now
<1>1. CASE Rebalance
  BY <1>1 DEF Rebalance, RebalanceSkips, RebalanceToBlend, RebalanceFromBlend,
              RebalanceHolds, worldVars
<1>2. CASE HarvestYield
  BY <1>2 DEF HarvestYield, HarvestEmissions, HarvestPartially, HarvestRedeems
<1>3. CASE EmergencyUnwind \/ Manual
  BY <1>3 DEF EmergencyUnwind, Manual, ManualToBlend, ManualFromBlend
<1>4. CASE Pause \/ Unpause \/ Setter
  BY <1>4 DEF Pause, Unpause, PauseSet, Setter, Configure, Reroute, worldVars,
              SetMaxRebalanceAmount, SetMinRebalanceAmount, SetMinTotalUsdc,
              SetTargetRatioBps, SetRebalanceBandBps, SetCriticalLiquidFloorBps,
              SetRebalanceCooldownSecs, SetBlndTreasury, SetUsdcReserveTokenId
<1> QED BY <1>1, <1>2, <1>3, <1>4 DEF Handler

\* A step of the pipeline is a step of the registry, or none.
LEMMA RegistrySteps == [PipelineNext]_allVars => [QP!Next]_(QP!vars)
<1> SUFFICES ASSUME [PipelineNext]_allVars PROVE [QP!Next]_(QP!vars)
  OBVIOUS
<1>1. ASSUME now' = now, UNCHANGED registryVars PROVE UNCHANGED QP!vars
  BY <1>1 DEF registryVars, QP!vars
<1>2. ASSUME NEW topic \in PoolTopics, PoolEvent(topic) PROVE UNCHANGED QP!vars
  BY <1>1, <1>2 DEF PoolEvent, Trade
<1>3. CASE Cron
  BY <1>1, <1>3 DEF Cron, vars, worldVars
<1>4. ASSUME NEW i \in DOMAIN feed, NEW k \in 1 .. N, Sign(i, k) PROVE UNCHANGED QP!vars
  BY <1>1, <1>4 DEF Sign, vars, worldVars
<1>5. CASE Submitted
  <2>1. PICK i \in DOMAIN feed, keys \in Q!Batch(1 .. N), r \in 0 .. now + 1 :
          Execute(i, keys, r)
    BY <1>5 DEF Submitted
  <2>2. Handler /\ UNCHANGED registryVars
    BY <2>1 DEF Execute, Dispatch, Handler
  <2> QED BY <1>1, <2>2, EntryPointsKeepTime
<1>6. CASE HandlerAdmin
  <2>1. Handler /\ UNCHANGED registryVars
    BY <1>6 DEF HandlerAdmin, Handler
  <2> QED BY <1>1, <2>1, EntryPointsKeepTime
<1>7. CASE RegistryAdmin
  <2>1. QP!Administer
    BY <1>7 DEF RegistryAdmin, Q!Administer, QP!Administer, Q!AddSigner, QP!AddSigner,
                Q!RemoveSigner, QP!RemoveSigner, Q!SetThreshold, QP!SetThreshold,
                Q!Reweigh, QP!Reweigh, Q!Pushes, QP!Pushes, Q!Pushed, QP!Pushed,
                Q!Kept, QP!Kept, Q!Droppable, QP!Droppable, Q!Latest, QP!Latest,
                Q!LookupAt, QP!LookupAt, Q!Governs, QP!Governs, Q!Inserted, QP!Inserted,
                Q!Removed, QP!Removed, Q!Place, QP!Place, Q!HasAt, QP!HasAt,
                Q!ValidThreshold, QP!ValidThreshold, Q!Signers, QP!Signers
  <2> QED BY <2>1 DEF QP!Next
<1>8. CASE Surroundings
  BY <1>1, <1>8 DEF Surroundings, Accrue, Emit, Stray, WriteDown, SetStatus
<1>9. CASE LedgerCloses
  BY <1>9 DEF LedgerCloses, Q!Close, QP!Close, QP!Next
<1>10. CASE UNCHANGED allVars
  BY <1>1, <1>10 DEF allVars, vars, worldVars
<1> QED
  BY <1>2, <1>3, <1>4, <1>5, <1>6, <1>7, <1>8, <1>9, <1>10 DEF PipelineNext

\* What the registry's theorems assume of the constants.
LEMMA RegistryConstants == QP!RegistryAssumption /\ QP!BatchAssumption
  BY PipelineAssumption, HandlerAssumption DEF QP!RegistryAssumption, QP!BatchAssumption

\* Every behaviour of the pipeline is one of the registry.
THEOREM PipelineRunsRegistry == PipelineSpec => QP!Spec
<1>1. PipelineInit => QP!Init
  BY DEF PipelineInit, Q!Init, QP!Init, Q!NoHistory, QP!NoHistory, Q!Signers, QP!Signers,
         Q!ValidThreshold, QP!ValidThreshold
<1> QED BY <1>1, RegistrySteps, PTL DEF PipelineSpec, QP!Spec

----------------------------------------------------------------------------
(* Quorums.                                                                *)

\* The two names of what verify means are one.
LEMMA SameVerify ==
  /\ \A sigs, keys, r : Q!Verifies(sigs, keys, r) <=> QP!Verifies(sigs, keys, r)
  /\ \A B, r : Q!Quorate(B, r) <=> QP!Quorate(B, r)
  /\ \A S : Q!Batch(S) = QP!Batch(S)
  BY DEF Q!Verifies, QP!Verifies, Q!Batch, QP!Batch, Q!Quorate, QP!Quorate,
         Q!Signers, QP!Signers, Q!Of, QP!Of, Q!SumsTo, QP!SumsTo, Q!Required, QP!Required,
         Q!RequiredWeightAt, QP!RequiredWeightAt, Q!TotalWeightAt, QP!TotalWeightAt,
         Q!LookupAt, QP!LookupAt, Q!Governs, QP!Governs,
         Q!SignerWeightAt, QP!SignerWeightAt, Q!InOrder, QP!InOrder,
         Q!Genuine, QP!Genuine, Q!Counted, QP!Counted

\* An accepted batch stands for a quorum of its signers.
LEMMA ExecuteHasQuorum ==
  ASSUME QP!QuorumInv, QP!AcceptedIsQuorate,
         NEW i \in DOMAIN feed, NEW keys \in Q!Batch(1 .. N), NEW r \in 0 .. now + 1,
         Execute(i, keys, r)
  PROVE  /\ r \in 0 .. now /\ now - r <= MAX_REFERENCE_BLOCK_AGE
         /\ Q!Quorate(feed[i].by, r)
<1>1. /\ Fresh(r) /\ Q!Verifies(Batched(i, keys), keys, r)
  BY DEF Execute
<1>2. now \in Nat
  BY DEF QP!QuorumInv, QP!RegistryInv, QP!TypeOK
<1>3. r \in 0 .. now /\ now - r <= MAX_REFERENCE_BLOCK_AGE
  BY <1>1, <1>2 DEF Fresh
<1>4. PICK n \in 0 .. MaxBatch : keys \in [1 .. n -> 1 .. N]
  BY DEF Q!Batch
<1>5. DOMAIN keys = 1 .. n
  BY <1>4
<1>6. Batched(i, keys) \in [1 .. n -> QP!Signatures]
  BY <1>5 DEF Batched, QP!Signatures
<1>7. Batched(i, keys) \in QP!Batch(QP!Signatures) /\ keys \in QP!Batch(QP!Signers)
  BY <1>4, <1>6 DEF QP!Batch, QP!Signers
<1>8. r \in QP!Ledgers
  BY <1>3 DEF QP!Ledgers
<1>9. QP!Verifies(Batched(i, keys), keys, r)
  BY <1>1, SameVerify
<1>10. /\ \A j \in DOMAIN keys : Batched(i, keys)[j] = "good"
       /\ QP!Quorate({keys[j] : j \in DOMAIN keys}, r)
  BY <1>7, <1>8, <1>9 DEF QP!AcceptedIsQuorate
<1>11. {keys[j] : j \in DOMAIN keys} \subseteq feed[i].by
  <2>1. ASSUME NEW j \in DOMAIN keys PROVE keys[j] \in feed[i].by
    <3>1. Batched(i, keys)[j] = IF keys[j] \in feed[i].by THEN "good" ELSE "bad"
      BY DEF Batched
    <3> QED BY <1>10, <3>1
  <2> QED BY <2>1
<1>12. QP!Quorate(feed[i].by, r)
  <2> DEFINE M == {keys[j] : j \in DOMAIN keys}
  <2>1. M \subseteq feed[i].by /\ QP!Quorate(M, r)
    BY <1>10, <1>11
  <2> HIDE DEF M
  <2> QED BY <1>8, <2>1, QP!MoreIsQuorate, RegistryConstants
<1> QED BY <1>3, <1>12, SameVerify

\* Whenever the operators make the handler act, a quorum of a ledger of the
\* last MAX_REFERENCE_BLOCK_AGE has signed for this very event, whatever the
\* admin of the registry did and whichever batches were submitted.
THEOREM QuorumAlwaysStood == PipelineSpec => QuorumStood
<1> DEFINE Step == \A i \in seen' \ seen :
                      \E r \in 0 .. now :
                         now - r <= MAX_REFERENCE_BLOCK_AGE /\ Q!Quorate(feed[i].by, r)
<1>1. QP!Spec => []QP!QuorumInv
  BY RegistryConstants, QP!QuorumInvariant
<1>2. QP!Spec => []QP!AcceptedIsQuorate
  BY RegistryConstants, QP!AcceptedAreQuorums
<1>3. QP!QuorumInv /\ QP!AcceptedIsQuorate /\ [PipelineNext]_allVars => [Step]_allVars
  <2> SUFFICES ASSUME QP!QuorumInv, QP!AcceptedIsQuorate, [PipelineNext]_allVars,
                      NEW i \in seen' \ seen
               PROVE  \E r \in 0 .. now :
                         now - r <= MAX_REFERENCE_BLOCK_AGE /\ Q!Quorate(feed[i].by, r)
    OBVIOUS
  <2>1. seen' # seen
    OBVIOUS
  <2>2. Submitted
    BY <2>1 DEF PipelineNext, PoolEvent, Cron, Sign, HandlerAdmin, RegistryAdmin,
                Surroundings, LedgerCloses, pipeVars, allVars
  <2>3. PICK j \in DOMAIN feed, keys \in Q!Batch(1 .. N), r \in 0 .. now + 1 :
          Execute(j, keys, r)
    BY <2>2 DEF Submitted
  <2>4. i = j
    BY <2>3 DEF Execute
  <2> QED BY <2>3, <2>4, ExecuteHasQuorum
<1> QED BY <1>1, <1>2, <1>3, PipelineRunsRegistry, PTL DEF PipelineSpec, QuorumStood

\* What neither the operators nor the handler's admin do leaves the books
\* alone.
LEMMA OthersKeepBooks ==
  ASSUME HandlerInv, [PipelineNext]_allVars, ~Submitted, ~HandlerAdmin
  PROVE  funds'.delegated = funds.delegated /\ principal' = principal
<1>1. funds \in Funds
  BY DEF HandlerInv, TypeOK
<1>2. ASSUME NEW topic \in PoolTopics, PoolEvent(topic)
      PROVE  funds'.delegated = funds.delegated /\ principal' = principal
  BY <1>1, <1>2 DEF PoolEvent, Trade, World, handlerVars, Funds
<1>3. CASE UNCHANGED vars
  BY <1>3 DEF vars, handlerVars, worldVars
<1>4. CASE Surroundings
  BY <1>1, <1>4 DEF Surroundings, World, handlerVars, Accrue, Emit, Stray, WriteDown, SetStatus,
                    Funds
<1>5. CASE LedgerCloses
  BY <1>5 DEF LedgerCloses, Tick, World, handlerVars
<1>6. Cron \/ (\E i \in DOMAIN feed, k \in 1 .. N : Sign(i, k)) \/ RegistryAdmin
        \/ UNCHANGED allVars => UNCHANGED vars
  BY DEF Cron, Sign, RegistryAdmin, allVars
<1> QED BY <1>2, <1>3, <1>4, <1>5, <1>6 DEF PipelineNext

\* What the operators make the handler do is warranted, and a harvest does
\* not touch the pool's counter.
LEMMA ExecuteIsWarranted ==
  ASSUME HandlerInv, PipelineInv, QP!QuorumInv, QP!AcceptedIsQuorate,
         NEW i \in DOMAIN feed, NEW keys \in Q!Batch(1 .. N), NEW r \in 0 .. now + 1,
         Execute(i, keys, r)
  PROVE  \/ Warranted("Rebalance")
         \/ Warranted("HarvestYield") /\ funds'.delegated = funds.delegated
<1>1. /\ ~paused /\ i \in seen' \ seen
      /\ Q!Verifies(Batched(i, keys), keys, r)
      /\ Dispatch(Response(feed[i].topic))
  BY DEF Execute
<1>2. r \in 0 .. now /\ now - r <= MAX_REFERENCE_BLOCK_AGE /\ Q!Quorate(feed[i].by, r)
  BY ExecuteHasQuorum
<1>3. feed[i].topic \in Topics
  <2>1. feed \in Seq(Entries)
    BY DEF PipelineInv, PipelineTypeOK, Entries
  <2>2. feed[i] \in Entries
    BY <2>1
  <2> QED BY <2>2 DEF Entries
<1>4. Response(feed[i].topic) # "none"
  BY <1>1, AcceptedIsSigned DEF PipelineInv
<1>5. Warranted(Response(feed[i].topic))
  BY <1>1, <1>2, <1>3, <1>4, ResponseFits, Zenon DEF Warranted
<1>6. CASE Response(feed[i].topic) = "Rebalance"
  BY <1>5, <1>6
<1>7. CASE Response(feed[i].topic) = "HarvestYield"
  <2>1. HarvestYield
    BY <1>1, <1>7 DEF Dispatch
  <2>2. funds'.delegated = funds.delegated
    BY <2>1, HarvestResult
       DEF HarvestYield, HarvestEmissions, HarvestPartially, HarvestRedeems, HandlerInv
  <2> QED BY <1>5, <1>7, <2>2
<1> QED BY <1>3, <1>4, <1>6, <1>7, ResponseFits

\* Unless the handler's admin did it, a change of the pool's delegated
\* counter or of the principal is the answer to an occurrence that calls for
\* it, taken once, and signed for by a recent quorum.
THEOREM OnlyWarrantedMoves == PipelineSpec => MovesAreWarranted
<1> DEFINE Step == ~HandlerAdmin =>
              /\ funds'.delegated # funds.delegated => Warranted("Rebalance")
              /\ principal' # principal => Warranted("Rebalance") \/ Warranted("HarvestYield")
<1>1. QP!Spec => []QP!QuorumInv
  BY RegistryConstants, QP!QuorumInvariant
<1>2. QP!Spec => []QP!AcceptedIsQuorate
  BY RegistryConstants, QP!AcceptedAreQuorums
<1>3. PipelineInv /\ [PipelineNext]_allVars => PipelineInv'
  BY PipelineSteps
<1>4. PipelineInit => PipelineInv
  BY PipelineStart
<1>5. HandlerInv /\ PipelineInv /\ QP!QuorumInv /\ QP!AcceptedIsQuorate /\ [PipelineNext]_allVars
        => [Step]_allVars
  <2> SUFFICES ASSUME HandlerInv, PipelineInv, QP!QuorumInv, QP!AcceptedIsQuorate,
                      [PipelineNext]_allVars, ~HandlerAdmin
               PROVE  /\ funds'.delegated # funds.delegated => Warranted("Rebalance")
                      /\ principal' # principal =>
                            Warranted("Rebalance") \/ Warranted("HarvestYield")
    OBVIOUS
  <2>1. CASE Submitted
    <3>1. PICK i \in DOMAIN feed, keys \in Q!Batch(1 .. N), r \in 0 .. now + 1 :
            Execute(i, keys, r)
      BY <2>1 DEF Submitted
    <3> QED BY <3>1, ExecuteIsWarranted
  <2>2. CASE ~Submitted
    BY <2>2, OthersKeepBooks
  <2> QED BY <2>1, <2>2
<1> QED
  BY <1>1, <1>2, <1>3, <1>4, <1>5, PipelineRunsRegistry, PipelineKeepsBooks, PTL
     DEF PipelineSpec, MovesAreWarranted

\* With batches long enough for everybody (the contract does not limit
\* them), an event that a quorum of today's operators has signed can always
\* be submitted successfully as far as verification goes, however many
\* operators there are and however long ago it happened.
THEOREM LateQuorumsCount ==
  ASSUME N <= MaxBatch
  PROVE  PipelineSpec => []LateQuorumCounts
<1>1. QP!Spec => []QP!QuorumInv
  BY RegistryConstants, QP!QuorumInvariant
<1>2. ASSUME QP!QuorumInv PROVE LateQuorumCounts
  <2> SUFFICES ASSUME NEW i \in DOMAIN feed, Q!Quorate(feed[i].by, now)
               PROVE  \E keys \in Q!Batch(1 .. N), r \in 0 .. now :
                         Fresh(r) /\ Q!Verifies(Batched(i, keys), keys, r)
    BY DEF LateQuorumCounts
  <2>1. QP!Quorate(feed[i].by, now)
    BY SameVerify
  <2>2. PICK keys \in Seq(QP!Signers) :
          /\ Len(keys) <= N /\ QP!Members(keys) \subseteq feed[i].by
          /\ QP!Verifies(QP!AllGood(keys), keys, now)
    BY <1>2, <2>1, QP!QuorumVerifies, RegistryConstants
  <2>3. now \in 0 .. now /\ Fresh(now)
    <3>1. now \in Nat
      BY <1>2 DEF QP!QuorumInv, QP!RegistryInv, QP!TypeOK
    <3> QED BY <3>1, PipelineAssumption DEF Fresh
  <2>4. keys \in Q!Batch(1 .. N)
    <3>1. keys \in [1 .. Len(keys) -> 1 .. N] /\ Len(keys) \in Nat
      <4>1. keys \in Seq(1 .. N)
        BY <2>2 DEF QP!Signers
      <4>2. \A S : keys \in Seq(S) => keys \in [1 .. Len(keys) -> S] /\ Len(keys) \in Nat
        OBVIOUS
      <4> QED BY <4>1, <4>2, Zenon
    <3>2. Len(keys) \in 0 .. MaxBatch
      BY <2>2, <3>1, PipelineAssumption
    <3>3. PICK n \in 0 .. MaxBatch : n = Len(keys)
      BY <3>2
    <3>4. keys \in [1 .. n -> 1 .. N]
      BY <3>1, <3>3
    <3> QED BY <3>4 DEF Q!Batch
  <2>5. Batched(i, keys) = QP!AllGood(keys)
    <3>1. \A j \in DOMAIN keys : keys[j] \in feed[i].by
      BY <2>2 DEF QP!Members
    <3> QED BY <3>1, Zenon DEF Batched, QP!AllGood
  <2>6. Q!Verifies(Batched(i, keys), keys, now)
    BY <2>2, <2>5, SameVerify
  <2> QED BY <2>3, <2>4, <2>6
<1> QED BY <1>1, <1>2, PipelineRunsRegistry, PTL

=============================================================================
