------------------------- MODULE RebalanceLiveness -------------------------
(***************************************************************************)
(* Does the pool get back into its band?  A rebalance answers a swap or a  *)
(* liquidity change, once: nobody repeats one that was lost, reverted, or  *)
(* skipped because of the cooldown.  Admin, Blend and senders of USDC may  *)
(* do anything at any time.  The specification promises only that time     *)
(* passes; what the pool depends on besides is the premise of Settles.     *)
(***************************************************************************)
EXTENDS AutomationHandler

CONSTANT MaxDue     \* bound on due

ASSUME DueAssumption == MaxDue \in Nat

VARIABLE due        \* pool events that a rebalance may still answer

liveVars == <<vars, due>>

LiveInit == Init /\ due = 0

\* Swaps or liquidity changes of one transaction that cancel each other out.
Churn == World /\ UNCHANGED <<worldVars, loss>>

\* The operators may fail to sign for the event, or the submission be lost.
PoolEvent ==
    /\ Churn \/ \E l \in 0 .. MaxTotal : Trade(l)
    /\ due' \in {due, due + 1} /\ due' <= MaxDue

\* A rebalance that reverts leaves no trace, and its event is not retried.
Reverts == ~ENABLED Rebalance /\ UNCHANGED vars

Answer ==
    /\ due > 0 /\ due' = due - 1
    /\ Rebalance \/ Reverts

\* Time beyond the bound: only the distance between now and the last
\* rebalance is read, so it is the last rebalance that recedes.
Recede ==
    /\ now = MaxTime /\ lastRebalanceTs > 0
    /\ lastRebalanceTs' = lastRebalanceTs - 1
    /\ events' = <<>>
    /\ UNCHANGED <<principal, lastHarvestTs, paused, cfg, routing, worldVars, loss>>

Time == (Tick \/ Recede) /\ UNCHANGED due

\* Emissions of BLND are left out, since no rebalance reads them.
Schedule == HarvestYield /\ UNCHANGED due

\* A call that changes nothing is left out: what it emits is read by nobody.
Interference ==
    /\ \/ Manual \/ Setter \/ EmergencyUnwind \/ Pause \/ Unpause
       \/ Accrue
       \/ \E p \in WriteDowns : WriteDown(p)
       \/ \E s \in Statuses : SetStatus(s)
       \/ Stray
    /\ <<handlerVars, funds, status>>' # <<handlerVars, funds, status>>
    /\ UNCHANGED due

LiveNext == PoolEvent \/ Answer \/ Time \/ Schedule \/ Interference

LiveSpec == LiveInit /\ [][LiveNext]_liveVars /\ WF_liveVars(Time)

----------------------------------------------------------------------------

\* No rebalance can succeed in moving anything: paused, Blend unusable, USDC
\* that somebody sent to the handler, or a write-down that no harvest has
\* noticed and that the recall falls short by.
Blocked ==
    \/ paused \/ ~BlendHealthy \/ ~NoResidue(funds)
    \/ Under /\ Clamp(cfg, NaturalIn) > funds.position

\* Nothing is left for a rebalance to move.
Idle ==
    \/ Total < cfg.minTotal \/ ~Computable
    \/ ~Over /\ ~Under
    \/ Over /\ Dust(cfg, NaturalOut)
    \/ Under /\ (principal = 0 \/ Dust(cfg, NaturalIn))

Settled == Blocked \/ Idle

\* Traders may go on for ever as long as they leave the pool settled.
Disturbance == Interference \/ (~Settled' /\ \E l \in 0 .. MaxTotal : Trade(l))

\* If pool events keep being answered and disturbances end, the pool settles
\* for good, however many answers found the cooldown active or reverted:
\* capped moves reach the band step by step, truncation never makes two
\* moves undo each other for ever, and every hindrance but those of Blocked
\* passes with time.
Settles ==
    []<><<Answer>>_liveVars /\ <>[][~Disturbance]_liveVars => <>[]Settled

=============================================================================
