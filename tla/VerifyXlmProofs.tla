-------------------------- MODULE VerifyXlmProofs --------------------------
(***************************************************************************)
(* The pipeline in front of the handler, for every value of its constants. *)
(*                                                                         *)
(* PipelineSpec implies the Spec of AutomationHandler, so what is proved   *)
(* of the handler alone holds of the handler that operators call.  And it  *)
(* implements TriggeredAutomation: the inductive invariant PipelineInv     *)
(* adds to the types that only those occurrences are signed which call for *)
(* something, and verify demands at least one signature.                   *)
(***************************************************************************)
EXTENDS VerifyXlm, AutomationHandlerProofs

----------------------------------------------------------------------------
(* The handler within the pipeline.                                        *)

\* A step of the pipeline is a step of the handler or its surroundings, or
\* is none of their business.
LEMMA HandlerSteps == [PipelineNext]_allVars => [Next]_vars
<1> SUFFICES ASSUME [PipelineNext]_allVars PROVE [Next]_vars
  OBVIOUS
<1>1. ASSUME NEW topic \in PoolTopics, PoolEvent(topic) PROVE Next
  BY <1>1 DEF PoolEvent, Next, Environment
<1>2. CASE Cron
  BY <1>2 DEF Cron
<1>3. ASSUME NEW i \in DOMAIN feed, NEW k \in 1 .. N, Sign(i, k) PROVE vars' = vars
  BY <1>3 DEF Sign
<1>4. CASE Submitted
  <2>1. PICK i \in DOMAIN feed, keys \in Q!Batch(1 .. N), r \in 0 .. now + 1 :
          Execute(i, keys, r)
    BY <1>4 DEF Submitted
  <2>2. Rebalance \/ HarvestYield
    BY <2>1 DEF Execute, Dispatch
  <2> QED BY <2>2 DEF Next, Handler
<1>5. CASE HandlerAdmin
  BY <1>5 DEF HandlerAdmin, Next, Handler
<1>6. CASE RegistryAdmin
  BY <1>6 DEF RegistryAdmin
<1>7. CASE Surroundings
  BY <1>7 DEF Surroundings, Next, Environment
<1>8. CASE LedgerCloses
  BY <1>8 DEF LedgerCloses, Next, Environment
<1>9. CASE UNCHANGED allVars
  BY <1>9 DEF allVars
<1> QED
  BY <1>1, <1>2, <1>3, <1>4, <1>5, <1>6, <1>7, <1>8, <1>9 DEF PipelineNext

\* Every behaviour of the pipeline is one of the handler: whatever is proved
\* of AutomationHandler holds here.
THEOREM PipelineRunsHandler == PipelineSpec => Spec
<1>1. PipelineInit => Init
  BY DEF PipelineInit
<1> QED BY <1>1, HandlerSteps, PTL DEF PipelineSpec, Spec

\* So the books of handler and pool agree in the composed system as well.
THEOREM PipelineKeepsBooks == PipelineSpec => []HandlerInv
  BY PipelineRunsHandler, HandlerInvariant, PTL

----------------------------------------------------------------------------
(* Occurrences, signatures and the mark of what was acted on.              *)

Entries == [topic : Topics, by : SUBSET (1 .. N)]

PipelineInv ==
    /\ PipelineTypeOK
    /\ \A i \in DOMAIN feed : feed[i].by # {} => Response(feed[i].topic) # "none"

Called(f) == [i \in DOMAIN f |-> CalledFor(f[i].topic)]

\* One more occurrence calls for one more thing.
LEMMA CalledAppend ==
  ASSUME NEW f \in Seq(Entries), NEW e \in Entries
  PROVE  Called(Append(f, e)) = Append(Called(f), CalledFor(e.topic))
<1>1. Len(f) \in Nat /\ DOMAIN f = 1 .. Len(f)
  OBVIOUS
<1>2. /\ DOMAIN Append(f, e) = 1 .. Len(f) + 1
      /\ \A i \in 1 .. Len(f) : Append(f, e)[i] = f[i]
      /\ Append(f, e)[Len(f) + 1] = e
  OBVIOUS
<1> DEFINE c == Called(f)
<1>3. c = [i \in 1 .. Len(f) |-> CalledFor(f[i].topic)]
  BY <1>1 DEF Called
<1>4. c \in Seq({CalledFor(f[i].topic) : i \in 1 .. Len(f)}) /\ Len(c) = Len(f)
  BY <1>1, <1>3
<1> HIDE DEF c
<1>5. Append(c, CalledFor(e.topic)) =
        [i \in 1 .. Len(f) + 1 |-> IF i <= Len(f) THEN c[i] ELSE CalledFor(e.topic)]
  BY <1>1, <1>4
<1>6. Called(Append(f, e)) =
        [i \in 1 .. Len(f) + 1 |-> CalledFor(Append(f, e)[i].topic)]
  BY <1>2 DEF Called
<1>7. \A i \in 1 .. Len(f) + 1 :
        CalledFor(Append(f, e)[i].topic) = IF i <= Len(f) THEN c[i] ELSE CalledFor(e.topic)
  BY <1>1, <1>2, <1>3
<1> QED BY <1>5, <1>6, <1>7 DEF c

\* What the circuit answers is what the occurrence calls for, or nothing.
LEMMA ResponseFits ==
  ASSUME NEW topic \in Topics, Response(topic) # "none"
  PROVE  /\ CalledFor(topic) = Response(topic)
         /\ Response(topic) \in {"Rebalance", "HarvestYield"}
  BY DEF Response, IsRelevant, CalledFor, Topics

\* An accepted batch contains a signature that exists.
LEMMA AcceptedIsSigned ==
  ASSUME NEW i \in DOMAIN feed, NEW keys \in Q!Batch(1 .. N), NEW r,
         Q!Verifies(Batched(i, keys), keys, r)
  PROVE  feed[i].by # {}
<1>1. PICK n \in 0 .. MaxBatch : keys \in [1 .. n -> 1 .. N]
  BY DEF Q!Batch
<1>2. Len(Batched(i, keys)) > 0 /\ Len(Batched(i, keys)) = Len(keys)
  BY DEF Q!Verifies
<1>3. n \in Nat /\ DOMAIN keys = 1 .. n /\ Len(keys) = n
  BY <1>1, PipelineAssumption
<1>4. 1 \in DOMAIN keys
  BY <1>2, <1>3
<1>5. Batched(i, keys)[1] \notin {"zero", "bad"}
  BY <1>4 DEF Q!Verifies, Q!Genuine
<1>6. keys[1] \in feed[i].by
  BY <1>4, <1>5 DEF Batched
<1> QED BY <1>6

\* The feed after a step of the handler: as before, or longer by its echo.
LEMMA EchoAppends ==
  ASSUME Echo
  PROVE  feed' = feed \/ \E t \in {"blend_pool", "donate"} : feed' = Append(feed, Happening(t))
  BY DEF Echo

\* One more occurrence leaves the invariant alone.
LEMMA FeedGrows ==
  ASSUME PipelineInv, NEW t \in Topics, feed' = Append(feed, Happening(t))
  PROVE  /\ feed' \in Seq(Entries)
         /\ DOMAIN feed \subseteq DOMAIN feed'
         /\ \A i \in DOMAIN feed : feed'[i] = feed[i]
         /\ \A i \in DOMAIN feed' : feed'[i].by # {} => Response(feed'[i].topic) # "none"
         /\ Called(feed)' = Append(Called(feed), CalledFor(t))
<1>1. feed \in Seq(Entries) /\ Happening(t) \in Entries
  BY DEF PipelineInv, PipelineTypeOK, Entries, Happening
<1>2. Happening(t).by = {} /\ Happening(t).topic = t
  BY DEF Happening
<1>3. /\ Len(feed) \in Nat /\ DOMAIN feed = 1 .. Len(feed)
      /\ feed' \in Seq(Entries) /\ DOMAIN feed' = 1 .. Len(feed) + 1
      /\ \A i \in 1 .. Len(feed) : feed'[i] = feed[i]
      /\ feed'[Len(feed) + 1] = Happening(t)
  BY <1>1
<1>4. \A i \in DOMAIN feed' : feed'[i].by # {} => Response(feed'[i].topic) # "none"
  BY <1>2, <1>3 DEF PipelineInv
<1>5. Called(feed') = Append(Called(feed), CalledFor(t))
  BY <1>1, <1>2, CalledAppend
<1> QED BY <1>3, <1>4, <1>5 DEF Called

\* A step's effect on the three variables the promise is about.
LEMMA ForeignSteps ==
  ASSUME RegistryAdmin \/ Surroundings \/ LedgerCloses \/ UNCHANGED allVars
  PROVE  UNCHANGED pipeVars
  BY DEF RegistryAdmin, Surroundings, LedgerCloses, allVars

\* Nothing the promise speaks of has changed.
LEMMA QuietKeeps ==
  ASSUME PipelineInv, UNCHANGED pipeVars
  PROVE  PipelineInv' /\ UNCHANGED <<Called(feed), seen, acts>>
<1>1. feed' = feed /\ seen' = seen /\ acts' = acts
  BY DEF pipeVars
<1>2. PipelineInv'
  BY <1>1 DEF PipelineInv, PipelineTypeOK
<1>3. Called(feed)' = Called(feed)
  BY <1>1 DEF Called
<1> QED BY <1>1, <1>2, <1>3

\* An occurrence of its own.
LEMMA OccurrenceKeeps ==
  ASSUME PipelineInv, NEW t \in Topics, feed' = Append(feed, Happening(t)),
         seen' = seen, acts' = acts
  PROVE  /\ PipelineInv'
         /\ Called(feed)' = Append(Called(feed), CalledFor(t))
<1>1. /\ feed' \in Seq(Entries)
      /\ DOMAIN feed \subseteq DOMAIN feed'
      /\ \A i \in DOMAIN feed : feed'[i] = feed[i]
      /\ \A i \in DOMAIN feed' : feed'[i].by # {} => Response(feed'[i].topic) # "none"
      /\ Called(feed)' = Append(Called(feed), CalledFor(t))
  BY FeedGrows
<1>2. \A i \in seen' : i \in DOMAIN feed' /\ CalledFor(feed'[i].topic) # "none"
  BY <1>1 DEF PipelineInv, PipelineTypeOK
<1>3. acts' \in [{"Rebalance", "HarvestYield"} -> Nat]
  BY DEF PipelineInv, PipelineTypeOK
<1>4. PipelineTypeOK'
  BY <1>1, <1>2, <1>3 DEF PipelineTypeOK, Entries
<1> QED BY <1>1, <1>4 DEF PipelineInv

\* Signing changes who, not what.
LEMMA SignKeeps ==
  ASSUME PipelineInv, NEW i \in DOMAIN feed, NEW k \in 1 .. N, Sign(i, k)
  PROVE  PipelineInv' /\ UNCHANGED <<Called(feed), seen, acts>>
<1>1. /\ Response(feed[i].topic) # "none"
      /\ feed' = [feed EXCEPT ![i] = [feed[i] EXCEPT !.by = feed[i].by \cup {k}]]
      /\ seen' = seen /\ acts' = acts
  BY DEF Sign
<1>2. feed \in Seq(Entries)
  BY DEF PipelineInv, PipelineTypeOK, Entries
<1>3. /\ Len(feed) \in Nat /\ DOMAIN feed = 1 .. Len(feed)
      /\ feed[i] \in Entries
      /\ [feed[i] EXCEPT !.by = feed[i].by \cup {k}] \in Entries
  <2>1. Len(feed) \in Nat /\ DOMAIN feed = 1 .. Len(feed) /\ feed[i] \in Entries
    BY <1>2
  <2> QED BY <2>1 DEF Entries
<1>4. feed' \in Seq(Entries) /\ DOMAIN feed' = DOMAIN feed
  BY <1>1, <1>2, <1>3
<1>5. \A j \in DOMAIN feed : j # i => feed'[j] = feed[j]
  BY <1>1, <1>2, <1>3
<1>6. \A j \in DOMAIN feed : feed'[j].topic = feed[j].topic
  <2>1. feed'[i] = [feed[i] EXCEPT !.by = feed[i].by \cup {k}]
    BY <1>1, <1>2, <1>3
  <2>2. feed'[i].topic = feed[i].topic
    BY <1>3, <2>1 DEF Entries
  <2> QED BY <1>5, <2>2
<1>7. PipelineTypeOK'
  BY <1>1, <1>4, <1>6 DEF PipelineInv, PipelineTypeOK, Entries
<1>8. \A j \in DOMAIN feed' : feed'[j].by # {} => Response(feed'[j].topic) # "none"
  BY <1>1, <1>4, <1>5, <1>6 DEF PipelineInv
<1>9. Called(feed)' = Called(feed)
  BY <1>4, <1>6 DEF Called
<1> QED BY <1>1, <1>7, <1>8, <1>9 DEF PipelineInv

\* Acting on an event marks it, and the echo calls for nothing.
LEMMA ExecuteKeeps ==
  ASSUME PipelineInv, NEW i \in DOMAIN feed, NEW keys \in Q!Batch(1 .. N), NEW r,
         Execute(i, keys, r)
  PROVE  PipelineInv' /\ Promise!Act(i)
<1>1. /\ i \notin seen /\ seen' = seen \cup {i}
      /\ Q!Verifies(Batched(i, keys), keys, r)
      /\ acts' = [acts EXCEPT ![Response(feed[i].topic)] = @ + 1]
      /\ Echo
  BY DEF Execute, Dispatch
<1>2. /\ feed \in Seq(Entries) /\ feed[i].topic \in Topics
      /\ acts \in [{"Rebalance", "HarvestYield"} -> Nat]
  <2>1. feed \in Seq(Entries) /\ acts \in [{"Rebalance", "HarvestYield"} -> Nat]
    BY DEF PipelineInv, PipelineTypeOK, Entries
  <2>2. feed[i] \in Entries
    BY <2>1
  <2> QED BY <2>1, <2>2 DEF Entries
<1>3. Response(feed[i].topic) # "none"
  BY <1>1, AcceptedIsSigned DEF PipelineInv
<1>4. /\ CalledFor(feed[i].topic) = Response(feed[i].topic)
      /\ Response(feed[i].topic) \in {"Rebalance", "HarvestYield"}
  BY <1>2, <1>3, ResponseFits
<1>5. Called(feed)[i] = Response(feed[i].topic)
  BY <1>4 DEF Called
<1>6. /\ feed' \in Seq(Entries) /\ DOMAIN feed \subseteq DOMAIN feed'
      /\ \A j \in DOMAIN feed : feed'[j] = feed[j]
      /\ \A j \in DOMAIN feed' : feed'[j].by # {} => Response(feed'[j].topic) # "none"
      /\ Called(feed)' = Called(feed) \/ Called(feed)' = Append(Called(feed), "none")
  <2>1. CASE feed' = feed
    BY <1>2, <2>1 DEF PipelineInv, Called
  <2>2. ASSUME NEW t \in {"blend_pool", "donate"}, feed' = Append(feed, Happening(t))
        PROVE  <1>6
    <3>1. t \in Topics /\ CalledFor(t) = "none"
      BY DEF Topics, CalledFor
    <3> QED BY <2>2, <3>1, FeedGrows
  <2> QED BY <1>1, <2>1, <2>2, EchoAppends
<1>7. acts' \in [{"Rebalance", "HarvestYield"} -> Nat]
  BY <1>1, <1>2, <1>4
<1>8. \A j \in seen' : j \in DOMAIN feed' /\ CalledFor(feed'[j].topic) # "none"
  BY <1>1, <1>4, <1>6 DEF PipelineInv, PipelineTypeOK
<1>9. PipelineInv'
  BY <1>6, <1>7, <1>8 DEF PipelineInv, PipelineTypeOK, Entries
<1>10. Promise!Act(i)
  BY <1>1, <1>4, <1>5, <1>6 DEF Promise!Act, Promise!Actions, Called
<1> QED BY <1>9, <1>10

\* A step of the pipeline keeps the invariant and is a step of the promise,
\* or none.
LEMMA PipelineSteps ==
  ASSUME PipelineInv, [PipelineNext]_allVars
  PROVE  PipelineInv' /\ [Promise!Next]_<<Called(feed), seen, acts>>
<1>0. feed \in Seq(Entries)
  BY DEF PipelineInv, PipelineTypeOK, Entries
<1>1. ASSUME NEW t \in Topics, feed' = Append(feed, Happening(t)), seen' = seen, acts' = acts
      PROVE  PipelineInv' /\ Promise!Next
  <2>1. PipelineInv' /\ Called(feed)' = Append(Called(feed), CalledFor(t))
    BY <1>1, OccurrenceKeeps
  <2>2. CalledFor(t) \in Promise!Actions \cup {"none"}
    BY DEF CalledFor, Promise!Actions
  <2>3. Promise!Occur(CalledFor(t))
    BY <1>1, <2>1 DEF Promise!Occur, Called
  <2> QED BY <2>1, <2>2, <2>3 DEF Promise!Next
<1>2. ASSUME NEW topic \in PoolTopics, PoolEvent(topic)
      PROVE  PipelineInv' /\ Promise!Next
  <2>1. topic \in Topics
    BY PipelineAssumption DEF Topics
  <2> QED BY <1>1, <1>2, <2>1 DEF PoolEvent
<1>3. CASE Cron
  BY <1>1, <1>3 DEF Cron, Topics
<1>4. ASSUME NEW i \in DOMAIN feed, NEW k \in 1 .. N, Sign(i, k)
      PROVE  PipelineInv' /\ UNCHANGED <<Called(feed), seen, acts>>
  BY <1>4, SignKeeps
<1>5. CASE Submitted
  <2>1. PICK i \in DOMAIN feed, keys \in Q!Batch(1 .. N), r \in 0 .. now + 1 :
          Execute(i, keys, r)
    BY <1>5 DEF Submitted
  <2>2. PipelineInv' /\ Promise!Act(i)
    BY <2>1, ExecuteKeeps
  <2> QED BY <2>2 DEF Promise!Next, Called
<1>6. CASE HandlerAdmin
  <2>1. Echo /\ seen' = seen /\ acts' = acts
    BY <1>6 DEF HandlerAdmin
  <2>2. CASE feed' = feed
    BY <2>1, <2>2, QuietKeeps DEF pipeVars
  <2>3. ASSUME NEW t \in {"blend_pool", "donate"}, feed' = Append(feed, Happening(t))
        PROVE  PipelineInv' /\ Promise!Next
    <3>1. t \in Topics
      BY DEF Topics
    <3> QED BY <1>1, <2>1, <2>3, <3>1
  <2> QED BY <2>1, <2>2, <2>3, EchoAppends
<1>7. CASE RegistryAdmin \/ Surroundings \/ LedgerCloses \/ UNCHANGED allVars
  BY <1>7, ForeignSteps, QuietKeeps
<1> QED BY <1>2, <1>3, <1>4, <1>5, <1>6, <1>7 DEF PipelineNext

\* Before anything occurs.
LEMMA PipelineStart ==
  ASSUME PipelineInit
  PROVE  PipelineInv /\ Promise!Init
<1>1. feed = <<>> /\ seen = {} /\ acts = [a \in {"Rebalance", "HarvestYield"} |-> 0]
  BY DEF PipelineInit
<1>2. PipelineInv
  BY <1>1 DEF PipelineInv, PipelineTypeOK
<1>3. Promise!Init
  BY <1>1 DEF Promise!Init, Promise!Actions
<1> QED BY <1>2, <1>3

\* The feed, the marks and the counts keep their types, and what was acted
\* on called for it.
THEOREM PipelineTypes == PipelineSpec => []PipelineTypeOK
<1>1. PipelineInv /\ [PipelineNext]_allVars => PipelineInv'
  BY PipelineSteps
<1>2. PipelineInv => PipelineTypeOK
  BY DEF PipelineInv
<1> QED BY <1>1, <1>2, PipelineStart, PTL DEF PipelineSpec

\* However envelopes travel, the handler acts at most once on each
\* occurrence and as it calls for: the pipeline implements
\* TriggeredAutomation.
THEOREM PipelineKeepsPromise == PipelineSpec => KeepsPromise
<1>1. PipelineInv /\ [PipelineNext]_allVars => PipelineInv'
  BY PipelineSteps
<1>2. PipelineInv /\ [PipelineNext]_allVars => [Promise!Next]_<<Called(feed), seen, acts>>
  BY PipelineSteps
<1>3. Called(feed) = [i \in DOMAIN feed |-> CalledFor(feed[i].topic)]
  BY DEF Called
<1>4. PipelineInit => Promise!Init
  BY PipelineStart
<1>5. PipelineInit => PipelineInv
  BY PipelineStart
<1> QED BY <1>1, <1>2, <1>4, <1>5, PTL DEF PipelineSpec, KeepsPromise, Promise!Spec, Called

=============================================================================
