----------------------------- MODULE VerifyXlm -----------------------------
(***************************************************************************)
(* The way from an occurrence to a contract call: the blended pool emits   *)
(* an event or the cron schedule fires; every operator's node wakes the    *)
(* circuit, and signs its response for that event id if there is one; the  *)
(* aggregator submits the envelope with a batch of signatures; verify_xlm  *)
(* checks it, runs the executor of AutomationHandler, and marks the event  *)
(* seen.                                                                   *)
(*                                                                         *)
(* The signatures that exist are the only state between the operators and  *)
(* the contract.  Any of them may be submitted at any time, in any batch,  *)
(* with any reference block, any number of times or never: that covers a   *)
(* submission that is lost, delayed, repeated, overtaken or refused, and   *)
(* the aggregator does nothing about any of these.  verify_xlm is one      *)
(* atomic invocation, and a refusal leaves no trace.                       *)
(*                                                                         *)
(* One clock stands for the ledger sequence and the ledger timestamp.      *)
(***************************************************************************)
EXTENDS AutomationHandler, FiniteSets

CONSTANTS
    N, Weights, Thresholds, HISTORY_CUTOFF, WEIGHT_MAX, MaxBatch,   \* as in QuorumVerification
    MAX_REFERENCE_BLOCK_AGE,
    PoolTopics,         \* topics of trader actions that occur
    MaxTriggers         \* bound on trader actions and cron ticks

ASSUME PipelineAssumption ==
    /\ N \in Nat \ {0} /\ Weights \subseteq Nat
    /\ Thresholds \subseteq [numerator : Nat, denominator : Nat]
    /\ HISTORY_CUTOFF \in Nat /\ WEIGHT_MAX \in Nat /\ MaxBatch \in Nat
    /\ MAX_REFERENCE_BLOCK_AGE \in Nat /\ MaxTriggers \in Nat
    /\ PoolTopics \subseteq {"swap", "provide_liquidity", "withdraw_liquidity"}

VARIABLES
    weightHist, totalHist, allSigners, threshold, past,     \* as in SignerRegistry
    feed,       \* what happened: topic, and the operators who signed a response
    seen,       \* EventSeen: the positions in feed already acted on
    acts        \* observation: how often each executor ran

registryVars == <<weightHist, totalHist, allSigners, threshold, past>>
pipeVars == <<feed, seen, acts>>
allVars == <<vars, registryVars, pipeVars>>

Q == INSTANCE QuorumVerification WITH ledger <- now, MaxLedger <- MaxTime

----------------------------------------------------------------------------
(* The circuit.                                                            *)

Topics == {"swap", "provide_liquidity", "withdraw_liquidity", "blend_pool", "donate", "cron"}

\* Faulty variant.
IsRelevant_WholeStream(topic) == topic # "cron"

\* is_relevant_event
IsRelevant(topic) == topic \in {"swap", "provide_liquidity", "withdraw_liquidity"}

\* run: the payload for a trigger, if any.
Response(topic) ==
    IF topic = "cron" THEN "HarvestYield"
    ELSE IF IsRelevant(topic) THEN "Rebalance" ELSE "none"

----------------------------------------------------------------------------

Happening(topic) == [topic |-> topic, by |-> {}]

PipelineInit ==
    /\ Init /\ Q!Init
    /\ feed = <<>> /\ seen = {}
    /\ acts = [a \in {"Rebalance", "HarvestYield"} |-> 0]

\* The pool's own event when the handler moves its money.
Echo ==
    feed' = IF funds'.delegated # funds.delegated THEN Append(feed, Happening("blend_pool"))
            ELSE IF funds'.liquid # funds.liquid THEN Append(feed, Happening("donate"))
            ELSE feed

Triggers == Cardinality({i \in DOMAIN feed : feed[i].topic \notin {"blend_pool", "donate"}})

\* A trader's or a liquidity provider's action, with its one event.
PoolEvent(topic) ==
    /\ Triggers < MaxTriggers
    /\ \E l \in 0 .. MaxTotal : Trade(l)
    /\ feed' = Append(feed, Happening(topic))
    /\ UNCHANGED <<registryVars, seen, acts>>

Cron ==
    /\ Triggers < MaxTriggers
    /\ feed' = Append(feed, Happening("cron"))
    /\ UNCHANGED <<vars, registryVars, seen, acts>>

\* An operator's node runs the circuit and signs what it returns, sooner or
\* later, registered or not.
Sign(i, k) ==
    /\ Response(feed[i].topic) # "none"
    /\ k \notin feed[i].by
    /\ feed' = [feed EXCEPT ![i].by = @ \cup {k}]
    /\ UNCHANGED <<vars, registryVars, seen, acts>>

----------------------------------------------------------------------------
(* verify_xlm                                                              *)

\* Faulty variant.
Fresh_AnyAge(r) == r <= now

\* Faulty variant.
Fresh_ClosedOnly(r) == r < now /\ now - r <= MAX_REFERENCE_BLOCK_AGE

Fresh(r) == r <= now /\ now - r <= MAX_REFERENCE_BLOCK_AGE

\* The batch over the event's envelope, as good as the signatures that exist.
Batched(i, keys) ==
    [j \in DOMAIN keys |-> IF keys[j] \in feed[i].by THEN "good" ELSE "bad"]

Dispatch(action) ==
    /\ \/ action = "Rebalance" /\ Rebalance
       \/ action = "HarvestYield" /\ HarvestYield
    /\ acts' = [acts EXCEPT ![action] = @ + 1]

\* Faulty variant.
Execute_ForgetsEvent(i, keys, r) ==
    /\ ~paused /\ i \notin seen /\ Fresh(r)
    /\ Q!Verifies(Batched(i, keys), keys, r)
    /\ Dispatch(Response(feed[i].topic))
    /\ Echo
    /\ UNCHANGED <<registryVars, seen>>

Execute(i, keys, r) ==
    /\ ~paused /\ i \notin seen /\ Fresh(r)
    /\ Q!Verifies(Batched(i, keys), keys, r)
    /\ Dispatch(Response(feed[i].topic))
    /\ seen' = seen \cup {i}
    /\ Echo
    /\ UNCHANGED registryVars

\* The aggregator's submission, of any signatures, whenever it arrives; the
\* callbacks that report its fate do nothing.
Submitted ==
    \E i \in DOMAIN feed, keys \in Q!Batch(1 .. N), r \in 0 .. now + 1 : Execute(i, keys, r)

----------------------------------------------------------------------------
(* Everything else.                                                        *)

\* The admin of the handler.
HandlerAdmin ==
    /\ EmergencyUnwind \/ Manual \/ Pause \/ Unpause \/ Setter
    /\ Echo
    /\ UNCHANGED <<registryVars, seen, acts>>

\* The admin of the registry.
RegistryAdmin == Q!Administer /\ UNCHANGED <<vars, pipeVars>>

Surroundings ==
    /\ \/ Accrue \/ Emit \/ Stray
       \/ \E p \in WriteDowns : WriteDown(p)
       \/ \E s \in Statuses : SetStatus(s)
    /\ UNCHANGED <<registryVars, pipeVars>>

LedgerCloses == Tick /\ Q!Close /\ UNCHANGED pipeVars

PipelineNext ==
    \/ \E topic \in PoolTopics : PoolEvent(topic)
    \/ Cron
    \/ \E i \in DOMAIN feed, k \in 1 .. N : Sign(i, k)
    \/ Submitted
    \/ HandlerAdmin \/ RegistryAdmin \/ Surroundings \/ LedgerCloses

PipelineSpec == PipelineInit /\ [][PipelineNext]_allVars

----------------------------------------------------------------------------
(* Properties.                                                             *)

\* What an occurrence should lead to: traders and liquidity providers make
\* the pool rebalance, the schedule makes the handler harvest, and the echo
\* of the handler's own moves leads to nothing.
CalledFor(topic) ==
    IF topic = "cron" THEN "HarvestYield"
    ELSE IF topic \in {"blend_pool", "donate"} THEN "none" ELSE "Rebalance"

PipelineTypeOK ==
    /\ feed \in Seq([topic : Topics, by : SUBSET (1 .. N)])
    /\ \A i \in seen : i \in DOMAIN feed /\ CalledFor(feed[i].topic) # "none"
    /\ acts \in [{"Rebalance", "HarvestYield"} -> Nat]

Promise == INSTANCE TriggeredAutomation WITH
    calls <- [i \in DOMAIN feed |-> CalledFor(feed[i].topic)], done <- seen

\* However envelopes are repeated, reordered or held back, the handler acts
\* at most once on each occurrence, as that occurrence calls for, and never
\* on its own echo.
KeepsPromise == Promise!Spec

\* Whenever the handler acts, the operators who signed for this very event
\* were a quorum at a ledger of the last MAX_REFERENCE_BLOCK_AGE: a set of
\* operators that has been retired for longer can no longer make it act.
QuorumStood ==
    [][\A i \in seen' \ seen :
        \E r \in 0 .. now :
            now - r <= MAX_REFERENCE_BLOCK_AGE /\ Q!Quorate(feed[i].by, r)]_allVars

\* The step acts on an occurrence that calls for this, while not paused and
\* with a recent quorum behind it.
Warranted(action) ==
    /\ ~paused
    /\ \E i \in seen' \ seen :
          /\ CalledFor(feed[i].topic) = action
          /\ \E r \in 0 .. now :
                now - r <= MAX_REFERENCE_BLOCK_AGE /\ Q!Quorate(feed[i].by, r)

\* Behind every change of the two books stands the handler's admin or a
\* quorum: the pool's delegated counter moves on a trader's occurrence only,
\* the principal on that or the schedule, and never on the handler's echo,
\* on an event already acted on, or by what happens around the contracts.
MovesAreWarranted ==
    [][~HandlerAdmin =>
        /\ funds'.delegated # funds.delegated => Warranted("Rebalance")
        /\ principal' # principal => Warranted("Rebalance") \/ Warranted("HarvestYield")]_allVars

\* Waiting does not spoil a quorum: the reference block is not part of what
\* is signed, so an event that a quorum of today's operators has signed can
\* be submitted with a batch and a reference that pass, however old it is.
LateQuorumCounts ==
    \A i \in DOMAIN feed :
        Q!Quorate(feed[i].by, now) =>
            \E keys \in Q!Batch(1 .. N), r \in 0 .. now :
                Fresh(r) /\ Q!Verifies(Batched(i, keys), keys, r)

=============================================================================
