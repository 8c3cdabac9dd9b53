-------------------- MODULE AutomationHandlerStepProofs --------------------
(***************************************************************************)
(* Theorems about the steps of AutomationHandler: the action properties,   *)
(* the refinement of DelegatedCustody and the truth of the events a step   *)
(* publishes, from the inductive invariant of AutomationHandlerProofs.     *)
(***************************************************************************)
EXTENDS AutomationHandlerProofs

----------------------------------------------------------------------------
(* Which funds a step leaves alone.                                        *)

\* The steps of the handler that move nothing.
LEMMA QuietSteps ==
    ASSUME RebalanceSkips \/ RebalanceHolds \/ HarvestEmissions \/ HarvestPartially
           \/ Pause \/ Unpause \/ Setter
    PROVE  funds' = funds /\ principal' = principal
<1>1. CASE RebalanceSkips \/ RebalanceHolds
  BY <1>1 DEF RebalanceSkips, RebalanceHolds, handlerVars, worldVars
<1>2. CASE HarvestEmissions \/ HarvestPartially
  BY <1>2 DEF HarvestEmissions, HarvestPartially
<1>3. CASE Pause \/ Unpause
  BY <1>3 DEF Pause, Unpause, PauseSet, worldVars
<1>4. CASE Setter
  BY <1>4 DEF Setter, Configure, Reroute, worldVars,
     SetMaxRebalanceAmount, SetMinRebalanceAmount, SetMinTotalUsdc, SetTargetRatioBps,
     SetRebalanceBandBps, SetCriticalLiquidFloorBps, SetRebalanceCooldownSecs,
     SetBlndTreasury, SetUsdcReserveTokenId
<1> QED
  BY <1>1, <1>2, <1>3, <1>4

\* The accounts of a well-typed state.
LEMMA Accounts ==
    ASSUME HandlerInv
    PROVE  /\ TypeOK /\ principal \in Nat /\ principal <= funds.delegated
           /\ funds.liquid \in Nat /\ funds.delegated \in Nat
           /\ funds.position \in Nat /\ funds.usdc \in Nat
           /\ funds.position <= I128_MAX
  BY WidthAssumption DEF HandlerInv, TypeOK, Funds, PrincipalWithinDelegated

----------------------------------------------------------------------------
(* Refinement of DelegatedCustody.                                         *)

LEMMA CustodyInit == Init => Custody!Init
<1> SUFFICES ASSUME Init PROVE Custody!Init
  OBVIOUS
<1>1. PICK l \in InitLiquid :
        funds = [liquid |-> l, delegated |-> 0, position |-> 0, usdc |-> 0]
  BY DEF Init
<1>2. principal = 0
  BY DEF Init
<1> QED
  BY <1>1, <1>2, HandlerAssumption DEF Custody!Init, Custody!Amounts

\* Sending a positive amount through the handler to Blend is a loan.
LEMMA LendsToCustody ==
    ASSUME HandlerInv, NEW a \in Nat \ {0}, Completes(ToBlendFlow(a)),
           funds' = ToBlendFlow(a), principal' = principal + a
    PROVE  Custody!Lend
<1>1. /\ TypeOK /\ principal \in Nat /\ funds.liquid \in Nat /\ funds.delegated \in Nat
      /\ funds.position \in Nat /\ funds.usdc \in Nat
  BY Accounts
<1>2. funds' = [liquid |-> funds.liquid - a, delegated |-> funds.delegated + a,
                position |-> funds.position + a, usdc |-> funds.usdc]
  BY <1>1, ToBlendResult
<1>3. funds'.usdc = 0
  BY DEF Completes, NoResidue
<1> QED
  BY <1>1, <1>2, <1>3 DEF Custody!Lend, Custody!Assets

\* Recalling part of the principal is a return without income.
LEMMA RecallReturns ==
    ASSUME HandlerInv, NEW a \in Nat, a <= principal, Completes(FromBlendFlow(a)),
           funds' = FromBlendFlow(a), principal' = Debit(a)
    PROVE  Custody!Return
<1>1. /\ TypeOK /\ principal \in Nat /\ funds.liquid \in Nat /\ funds.delegated \in Nat
      /\ funds.position \in Nat /\ funds.usdc \in Nat
  BY Accounts
<1>2. Paid(a) \in Nat
  BY <1>1, PaidBounds
<1>3. funds' = [liquid |-> funds.liquid + a, delegated |-> funds.delegated - a,
                position |-> funds.position - Paid(a), usdc |-> funds.usdc + Paid(a) - a]
  BY <1>1, FromBlendResult
<1>4. funds'.usdc = 0 /\ principal' = principal - a
  BY <1>1 DEF Completes, NoResidue, Debit
<1> QED
  BY <1>1, <1>2, <1>3, <1>4 DEF Custody!Return, Custody!Assets, Custody!Claim

\* A harvest returns the interest as income, and writes off what is lost.
LEMMA HarvestReturns ==
    ASSUME HandlerInv, Completes(HarvestFlow), funds' = HarvestFlow, principal' = Resupplied
    PROVE  Custody!Return
<1>1. /\ TypeOK /\ principal \in Nat /\ funds.liquid \in Nat /\ funds.delegated \in Nat
      /\ funds.position \in Nat /\ funds.usdc \in Nat /\ principal <= I128_MAX
  BY Accounts DEF HandlerInv
<1>2. /\ Resupplied \in Nat /\ Interest \in Nat /\ Resupplied + Interest = Redeemed
      /\ funds' = [liquid |-> funds.liquid + Interest, delegated |-> funds.delegated,
                   position |-> funds.position - Interest, usdc |-> funds.usdc]
  BY <1>1, HarvestResult
<1>3. Redeemed = Least(I128_MAX, funds.position) /\ Resupplied = Least(principal, Redeemed)
  BY <1>1, RedeemedIsPaid DEF Paid, Resupplied
<1>4. funds'.usdc = 0
  BY DEF Completes, NoResidue
<1> QED
  BY <1>1, <1>2, <1>3, <1>4, WidthAssumption
  DEF Custody!Return, Custody!Assets, Custody!Claim, Least

\* So does an unwind, which returns the whole principal with it.
LEMMA UnwindReturns ==
    ASSUME HandlerInv, Completes(UnwindFlow), funds' = UnwindFlow, principal' = 0
    PROVE  Custody!Return
<1>1. /\ TypeOK /\ principal \in Nat /\ funds.liquid \in Nat /\ funds.delegated \in Nat
      /\ funds.position \in Nat /\ funds.usdc \in Nat /\ principal <= I128_MAX
  BY Accounts DEF HandlerInv
<1>2. /\ Redeemed \in Nat
      /\ funds' = [liquid |-> funds.liquid + Redeemed,
                   delegated |-> funds.delegated - Least(Redeemed, principal),
                   position |-> funds.position - Redeemed, usdc |-> funds.usdc]
  BY <1>1, RedeemedIsPaid, UnwindResult
<1>3. Redeemed = Least(I128_MAX, funds.position)
  BY <1>1, RedeemedIsPaid DEF Paid
<1>4. funds'.usdc = 0
  BY DEF Completes, NoResidue
<1>5. CASE Redeemed <= principal
  <2>1. Redeemed < principal => funds.position < principal
    BY <1>1, <1>3, <1>5, WidthAssumption DEF Least
  <2>2. /\ funds'.liquid = funds.liquid + Redeemed
        /\ funds'.delegated = funds.delegated - Redeemed
        /\ funds'.position = funds.position - Redeemed
    BY <1>2, <1>5 DEF Least
  <2> QED
    BY <1>1, <1>2, <1>4, <1>5, <2>1, <2>2
    DEF Custody!Return, Custody!Assets, Custody!Claim
<1>6. CASE Redeemed > principal
  <2>1. Redeemed <= funds.position
    BY <1>1, <1>3, WidthAssumption DEF Least
  <2>2. /\ funds'.liquid = funds.liquid + Redeemed
        /\ funds'.delegated = funds.delegated - principal
        /\ funds'.position = funds.position - Redeemed
    BY <1>1, <1>2, <1>6 DEF Least
  <2> QED
    BY <1>1, <1>2, <1>4, <1>6, <2>1, <2>2
    DEF Custody!Return, Custody!Assets, Custody!Claim
<1> QED
  BY <1>1, <1>2, <1>5, <1>6

\* What happens around the handler is what the pool already lives with.
LEMMA EnvironmentIsOutside ==
    ASSUME HandlerInv, Environment
    PROVE  Custody!Outside
<1>1. /\ funds.liquid \in Nat /\ funds.delegated \in Nat
      /\ funds.position \in Nat /\ funds.usdc \in Nat /\ funds \in Funds
  BY Accounts DEF TypeOK
<1>2. principal' = principal /\ funds'.delegated = funds.delegated
  BY <1>1 DEF Environment, World, handlerVars, Trade, Accrue, WriteDown, SetStatus, Emit,
     Stray, Tick, Funds
<1>3. \/ funds'.position = funds.position /\ funds'.usdc = funds.usdc
      \/ funds'.liquid = funds.liquid /\ funds'.usdc = funds.usdc
      \/ funds'.liquid = funds.liquid /\ funds'.position = funds.position
         /\ funds'.usdc > funds.usdc
  BY <1>1 DEF Environment, Trade, Accrue, WriteDown, SetStatus, Emit, Stray, Tick, Funds
<1> QED
  BY <1>2, <1>3 DEF Custody!Outside

LEMMA CustodyStep ==
    ASSUME HandlerInv, HandlerInv', [Next]_vars
    PROVE  [Custody!Next]_Custody!custodyVars
<1>1. Custody!Amounts'
  BY Accounts, HandlerInv' DEF HandlerInv, TypeOK, Funds, Custody!Amounts
<1>2. CASE UNCHANGED <<funds, principal>>
  BY <1>2 DEF Custody!custodyVars
<1>3. CASE RebalanceToBlend
  <2>1. Clamp(cfg, NaturalOut) \in Nat \ {0}
    BY <1>3, LendsSomething, Accounts DEF RebalanceToBlend
  <2>2. Custody!Lend
    BY <1>3, <2>1, LendsToCustody DEF RebalanceToBlend
  <2> QED
    BY <1>1, <2>2 DEF Custody!Next
<1>4. CASE RebalanceFromBlend
  <2>1. Clamp(cfg, NaturalIn) \in Nat /\ Clamp(cfg, NaturalIn) <= principal
    BY <1>4, RecallsPrincipal, Accounts DEF RebalanceFromBlend
  <2>2. Custody!Return
    BY <1>4, <2>1, RecallReturns DEF RebalanceFromBlend
  <2> QED
    BY <1>1, <2>2 DEF Custody!Next
<1>5. CASE HarvestRedeems
  <2>1. Custody!Return
    BY <1>5, HarvestReturns DEF HarvestRedeems
  <2> QED
    BY <1>1, <2>1 DEF Custody!Next
<1>6. CASE EmergencyUnwind
  <2>1. CASE principal > 0
    <3>1. Custody!Return
      BY <1>6, <2>1, UnwindReturns DEF EmergencyUnwind
    <3> QED
      BY <1>1, <3>1 DEF Custody!Next
  <2>2. CASE ~(principal > 0)
    BY <1>2, <1>6, <2>2, Accounts DEF EmergencyUnwind
  <2> QED
    BY <2>1, <2>2
<1>7. CASE Manual
  <2>1. PICK a \in ManualAmounts : ManualToBlend(a) \/ ManualFromBlend(a)
    BY <1>7 DEF Manual
  <2>2. a \in Nat \ {0}
    BY <2>1, HandlerAssumption DEF ManualToBlend, ManualFromBlend
  <2>3. Custody!Lend \/ Custody!Return
    BY <2>1, <2>2, LendsToCustody, RecallReturns DEF ManualToBlend, ManualFromBlend
  <2> QED
    BY <1>1, <2>3 DEF Custody!Next
<1>8. CASE Environment
  BY <1>1, <1>8, EnvironmentIsOutside DEF Custody!Next
<1>9. CASE RebalanceSkips \/ RebalanceHolds \/ HarvestEmissions \/ HarvestPartially
           \/ Pause \/ Unpause \/ Setter
  BY <1>2, <1>9, QuietSteps
<1>10. CASE UNCHANGED vars
  BY <1>2, <1>10 DEF vars, handlerVars, worldVars
<1> QED
  BY <1>3, <1>4, <1>5, <1>6, <1>7, <1>8, <1>9, <1>10
  DEF Next, Handler, Rebalance, HarvestYield

\* The handler keeps the promise the pool relies on: lending and returning
\* leave the liquidity providers' claim as it was, and only income that
\* Blend really pays raises it.
THEOREM HandlerKeepsCustody == Spec => KeepsCustody
<1>1. HandlerInv /\ HandlerInv' /\ [Next]_vars => [Custody!Next]_Custody!custodyVars
  BY CustodyStep
<1> QED
  BY <1>1, CustodyInit, HandlerInvariant, PTL DEF Spec, KeepsCustody, Custody!Spec

----------------------------------------------------------------------------
(* When the handler moves money.                                           *)

\* The calls that may move money.
LEMMA Movers ==
    ASSUME [Next]_vars, funds' # funds
    PROVE  \/ RebalanceToBlend \/ RebalanceFromBlend \/ HarvestRedeems
           \/ EmergencyUnwind \/ Manual \/ Environment
<1>1. ~(UNCHANGED vars)
  BY DEF vars, worldVars
<1> QED
  BY <1>1, QuietSteps DEF Next, Handler, Rebalance, HarvestYield

\* While the handler is paused no invocation moves money, except the
\* unwind, which leaves no principal behind.
THEOREM PauseHolds == Spec => PauseFreezes
<1>1. ASSUME [Next]_vars, paused, events' # <<>>, funds' # funds
      PROVE  HasEvent("EmergencyUnwound")' /\ principal' = 0
  <2>1. ~RebalanceToBlend /\ ~RebalanceFromBlend /\ ~HarvestRedeems /\ ~Manual
    BY <1>1 DEF RebalanceToBlend, RebalanceFromBlend, Reaches, HarvestRedeems, Manual,
       ManualToBlend, ManualFromBlend
  <2>2. ~Environment
    BY <1>1 DEF Environment, World, Trade, Accrue, WriteDown, SetStatus, Emit, Stray, Tick
  <2>3. EmergencyUnwind
    BY <1>1, <2>1, <2>2, Movers
  <2>4. PICK r, p : events' = <<EmergencyUnwound(r, p)>>
    BY <2>3 DEF EmergencyUnwind
  <2>5. 1 \in DOMAIN events' /\ events'[1].type = "EmergencyUnwound"
    BY <2>4 DEF EmergencyUnwound
  <2> QED
    BY <2>3, <2>5 DEF HasEvent, EmergencyUnwind
<1>2. [Next]_vars =>
        [paused /\ events' # <<>> /\ funds' # funds
           => HasEvent("EmergencyUnwound")' /\ principal' = 0]_vars
  BY <1>1
<1> QED
  BY <1>2, PTL DEF Spec, PauseFreezes

\* Only an automatic rebalance that moves money spends the cooldown
\* window: manual calls, harvests, unwinds and skipped events do not.
THEOREM CooldownSpentByMoves == Spec => CooldownIsForMoves
<1>1. ASSUME HandlerInv, [Next]_vars, lastRebalanceTs' # lastRebalanceTs
      PROVE  lastRebalanceTs' = now /\ Rebalance /\ funds' # funds
  <2>1. RebalanceToBlend \/ RebalanceFromBlend
    BY <1>1 DEF Next, Handler, Rebalance, HarvestYield, RebalanceSkips, RebalanceHolds,
       HarvestEmissions, HarvestPartially, HarvestRedeems, EmergencyUnwind, Manual,
       ManualToBlend, ManualFromBlend, Pause, Unpause, PauseSet, Setter, Configure, Reroute,
       SetMaxRebalanceAmount, SetMinRebalanceAmount, SetMinTotalUsdc, SetTargetRatioBps,
       SetRebalanceBandBps, SetCriticalLiquidFloorBps, SetRebalanceCooldownSecs,
       SetBlndTreasury, SetUsdcReserveTokenId, Environment, World, Trade, Accrue, WriteDown,
       SetStatus, Emit, Stray, Tick, handlerVars, vars
  <2>2. CASE RebalanceToBlend
    <3>1. Clamp(cfg, NaturalOut) \in Nat \ {0}
      BY <2>2, <1>1, LendsSomething, Accounts DEF RebalanceToBlend
    <3>2. funds'.liquid = funds.liquid - Clamp(cfg, NaturalOut)
      BY <1>1, <2>2, <3>1, Accounts, ToBlendResult DEF RebalanceToBlend
    <3> QED
      BY <1>1, <2>2, <3>1, <3>2, Accounts DEF RebalanceToBlend, Rebalance
  <2>3. CASE RebalanceFromBlend
    <3>1. Clamp(cfg, NaturalIn) \in Nat \ {0}
      BY <2>3, <1>1, RecallsPrincipal, Accounts DEF RebalanceFromBlend
    <3>2. funds'.liquid = funds.liquid + Clamp(cfg, NaturalIn)
      BY <1>1, <2>3, <3>1, Accounts, FromBlendResult DEF RebalanceFromBlend
    <3> QED
      BY <1>1, <2>3, <3>1, <3>2, Accounts DEF RebalanceFromBlend, Rebalance
  <2> QED
    BY <2>1, <2>2, <2>3
<1>2. HandlerInv /\ [Next]_vars =>
        [lastRebalanceTs' # lastRebalanceTs
           => lastRebalanceTs' = now /\ Rebalance /\ funds' # funds]_vars
  BY <1>1
<1> QED
  BY <1>2, HandlerInvariant, PTL DEF Spec, CooldownIsForMoves

----------------------------------------------------------------------------
(* The two books.                                                          *)

\* Asking Blend for i128::MAX brings the whole position.
LEMMA BringsAll ==
    ASSUME HandlerInv
    PROVE  Redeemed = funds.position
<1>1. TypeOK /\ funds.position \in Nat /\ funds.position <= I128_MAX
  BY Accounts
<1>2. Redeemed = Least(I128_MAX, funds.position)
  BY <1>1, RedeemedIsPaid DEF Paid
<1> QED
  BY <1>1, <1>2, WidthAssumption DEF Least

\* Lending and recalling move both books alike.
LEMMA MovesKeepDistance ==
    ASSUME HandlerInv, NEW a \in Nat,
           \/ funds' = ToBlendFlow(a) /\ principal' = principal + a
           \/ funds' = FromBlendFlow(a) /\ principal' = Debit(a) /\ a <= principal
    PROVE  Unreturned' = Unreturned
<1>1. TypeOK /\ principal \in Nat /\ funds.delegated \in Nat
  BY Accounts
<1>2. CASE funds' = ToBlendFlow(a) /\ principal' = principal + a
  <2>1. funds'.delegated = funds.delegated + a
    BY <1>1, <1>2, ToBlendResult
  <2> QED
    BY <1>1, <1>2, <2>1 DEF Unreturned
<1>3. CASE funds' = FromBlendFlow(a) /\ principal' = Debit(a) /\ a <= principal
  <2>1. funds'.delegated = funds.delegated - a
    BY <1>1, <1>3, FromBlendResult
  <2>2. principal' = principal - a
    BY <1>1, <1>3 DEF Debit
  <2> QED
    BY <1>1, <2>1, <2>2 DEF Unreturned
<1> QED
  BY <1>2, <1>3

\* What a step may do to the distance of the books.
LEMMA DriftStep ==
    ASSUME HandlerInv, [Next]_vars, Unreturned' # Unreturned
    PROVE  loss /\ ~loss' /\ Unreturned' = Unreturned + (principal - funds.position)
<1>1. /\ TypeOK /\ principal \in Nat /\ funds.delegated \in Nat /\ funds.position \in Nat
      /\ Redeemed = funds.position
  BY Accounts, BringsAll
<1>2. funds.position < principal => loss
  BY <1>1 DEF HandlerInv, TypeOK, PrincipalBacked
<1>3. CASE HarvestRedeems
  <2>1. /\ funds' = HarvestFlow /\ principal' = Resupplied /\ ~loss'
        /\ Resupplied \in Nat
    BY <1>1, <1>3, HarvestResult DEF HarvestRedeems
  <2>2. funds'.delegated = funds.delegated
    BY <1>1, <2>1, HarvestResult
  <2>3. principal' = Least(principal, funds.position)
    BY <1>1, <2>1 DEF Resupplied
  <2>4. CASE funds.position < principal
    <3>1. principal' = funds.position
      BY <1>1, <2>3, <2>4 DEF Least
    <3> QED
      BY <1>1, <1>2, <2>1, <2>2, <2>4, <3>1 DEF Unreturned
  <2>5. CASE ~(funds.position < principal)
    <3>1. principal' = principal
      BY <1>1, <2>3, <2>5 DEF Least
    <3> QED
      BY <2>2, <3>1 DEF Unreturned
  <2> QED
    BY <2>4, <2>5
<1>4. CASE EmergencyUnwind /\ principal > 0
  <2>1. funds' = UnwindFlow /\ principal' = 0 /\ ~loss'
    BY <1>4 DEF EmergencyUnwind
  <2>2. funds'.delegated = funds.delegated - Least(funds.position, principal)
    BY <1>1, <2>1, UnwindResult
  <2>3. CASE funds.position < principal
    <3>1. Least(funds.position, principal) = funds.position
      BY <1>1, <2>3 DEF Least
    <3> QED
      BY <1>1, <1>2, <2>1, <2>2, <2>3, <3>1 DEF Unreturned
  <2>4. CASE ~(funds.position < principal)
    <3>1. Least(funds.position, principal) = principal
      BY <1>1, <2>4 DEF Least
    <3> QED
      BY <1>1, <2>1, <2>2, <3>1 DEF Unreturned
  <2> QED
    BY <2>3, <2>4
<1>5. CASE EmergencyUnwind /\ ~(principal > 0)
  <2>1. principal' = principal /\ funds' = funds
    BY <1>1, <1>5 DEF EmergencyUnwind
  <2> QED
    BY <2>1 DEF Unreturned
<1>6. CASE RebalanceToBlend
  <2>1. Clamp(cfg, NaturalOut) \in Nat
    BY <1>1, <1>6, LendsSomething DEF RebalanceToBlend
  <2> QED
    BY <1>6, <2>1, MovesKeepDistance DEF RebalanceToBlend
<1>7. CASE RebalanceFromBlend
  <2>1. Clamp(cfg, NaturalIn) \in Nat /\ Clamp(cfg, NaturalIn) <= principal
    BY <1>1, <1>7, RecallsPrincipal DEF RebalanceFromBlend
  <2> QED
    BY <1>7, <2>1, MovesKeepDistance DEF RebalanceFromBlend
<1>8. CASE Manual
  <2>1. PICK a \in ManualAmounts : ManualToBlend(a) \/ ManualFromBlend(a)
    BY <1>8 DEF Manual
  <2>2. a \in Nat
    BY <2>1, HandlerAssumption DEF ManualToBlend, ManualFromBlend
  <2> QED
    BY <2>1, <2>2, MovesKeepDistance DEF ManualToBlend, ManualFromBlend
<1>9. CASE Environment
  <2>1. principal' = principal /\ funds'.delegated = funds.delegated
    BY <1>9, EnvironmentIsOutside DEF Custody!Outside
  <2> QED
    BY <2>1 DEF Unreturned
<1>10. CASE RebalanceSkips \/ RebalanceHolds \/ HarvestEmissions \/ HarvestPartially
            \/ Pause \/ Unpause \/ Setter
  BY <1>10, QuietSteps DEF Unreturned
<1>11. CASE UNCHANGED vars
  BY <1>11 DEF vars, handlerVars, worldVars, Unreturned
<1> QED
  BY <1>3, <1>4, <1>5, <1>6, <1>7, <1>8, <1>9, <1>10, <1>11
  DEF Next, Handler, Rebalance, HarvestYield

\* The pool's delegated counter and the handler's principal part only when
\* a harvest or an unwind takes notice of a write-down, and by its amount.
THEOREM BooksDriftOnlyByLosses == Spec => BooksDriftByLosses
<1>1. HandlerInv /\ [Next]_vars =>
        [Unreturned' # Unreturned
           => loss /\ ~loss' /\ Unreturned' = Unreturned + (principal - funds.position)]_vars
  BY DriftStep
<1> QED
  BY <1>1, HandlerInvariant, PTL DEF Spec, BooksDriftByLosses

\* So a pool whose lending never suffers a write-down can read the principal
\* parked in Blend off its own counter, as README.md says of it.
THEOREM DelegatedIsPrincipalWithoutLoss == Spec /\ []~loss => []DelegatedIsPrincipal
<1>1. Init => DelegatedIsPrincipal
  BY DEF Init, DelegatedIsPrincipal
<1>2. HandlerInv /\ HandlerInv' /\ ~loss /\ DelegatedIsPrincipal /\ [Next]_vars
        => DelegatedIsPrincipal'
  <2> SUFFICES ASSUME HandlerInv, HandlerInv', ~loss, DelegatedIsPrincipal, [Next]_vars
               PROVE  DelegatedIsPrincipal'
    OBVIOUS
  <2>1. Unreturned' = Unreturned
    BY DriftStep
  <2>2. /\ principal \in Nat /\ funds.delegated \in Nat
        /\ principal' \in Nat /\ funds'.delegated \in Nat
    BY Accounts, HandlerInv' DEF HandlerInv, TypeOK, Funds
  <2> QED
    BY <2>1, <2>2 DEF Unreturned, DelegatedIsPrincipal
<1> QED
  BY <1>1, <1>2, HandlerInvariant, PTL DEF Spec

----------------------------------------------------------------------------
(* What an automatic move does to the pool.                                *)

\* Division by BPS_DEN loses less than one unit.
LEMMA Truncation ==
    ASSUME NEW x \in Nat
    PROVE  /\ x \div BPS_DEN \in Nat
           /\ (x \div BPS_DEN) * BPS_DEN <= x
           /\ x < (x \div BPS_DEN) * BPS_DEN + BPS_DEN
  BY DEF BPS_DEN

\* The exact target lies less than one unit above the truncated one.
LEMMA TargetIsExact ==
    ASSUME TypeOK
    PROVE  Total * cfg.target - Target(cfg, Total) * BPS_DEN \in 0 .. BPS_DEN - 1
<1>1. Total \in Nat /\ cfg.target \in Nat /\ Total * cfg.target \in Nat
  BY DEF TypeOK, Funds, Config, Total
<1>2. PICK x \in Nat : x = Total * cfg.target
  BY <1>1
<1>3. Target(cfg, Total) = x \div BPS_DEN
  BY <1>2 DEF Target, MulDiv
<1>4. x - (x \div BPS_DEN) * BPS_DEN \in 0 .. BPS_DEN - 1
  BY Truncation DEF BPS_DEN
<1> QED
  BY <1>2, <1>3, <1>4

\* A step of less than or exactly the whole way from u to 0, seen through
\* the r units lost to truncation.
LEMMA StepTowardsZero ==
    ASSUME NEW u \in Int, NEW d \in Int, NEW r \in 0 .. BPS_DEN - 1, NEW x \in Int,
           NEW y \in Int, x = u * BPS_DEN - r, y = (u + d) * BPS_DEN - r,
           \/ d < 0 /\ -d <= u
           \/ d > 0 /\ d <= -u
    PROVE  \/ (IF y < 0 THEN -y ELSE y) < BPS_DEN
           \/ /\ (IF y < 0 THEN -y ELSE y) < (IF x < 0 THEN -x ELSE x)
              /\ (y < 0 <=> x < 0)
<1>1. CASE u + d = 0
  <2>1. y = -r
    BY <1>1 DEF BPS_DEN
  <2> QED
    BY <2>1 DEF BPS_DEN
<1>2. CASE u + d > 0
  <2>1. d < 0
    BY <1>2
  <2>2. y > 0 /\ x > y
    BY <1>2, <2>1 DEF BPS_DEN
  <2> QED
    BY <2>2
<1>3. CASE u + d < 0
  <2>1. d > 0
    BY <1>3
  <2>2. y < 0 /\ x < y
    BY <1>3, <2>1 DEF BPS_DEN
  <2> QED
    BY <2>2
<1> QED
  BY <1>1, <1>2, <1>3

\* An automatic move in either direction, as the change of the liquid side.
LEMMA MoveAmount ==
    ASSUME HandlerInv, [Next]_vars, Rebalance, funds' # funds
    PROVE  /\ Total' = Total /\ cfg' = cfg
           /\ \/ /\ RebalanceToBlend
                 /\ \E a \in Nat \ {0} : /\ a <= funds.liquid - Target(cfg, Total)
                                         /\ funds'.liquid = funds.liquid - a
              \/ /\ RebalanceFromBlend
                 /\ \E a \in Nat \ {0} : /\ a <= Target(cfg, Total) - funds.liquid
                                         /\ funds'.liquid = funds.liquid + a
<1>1. RebalanceToBlend \/ RebalanceFromBlend
  BY QuietSteps DEF Rebalance
<1>2. /\ TypeOK /\ Total \in Nat /\ cfg \in Config /\ cfg.maxCap \in Nat
      /\ Target(cfg, Total) \in Nat /\ funds.liquid \in Nat /\ funds.delegated \in Nat
      /\ principal \in Nat
  BY Accounts, TargetAndBand DEF TypeOK, Config, Total
<1>3. CASE RebalanceToBlend
  <2> DEFINE a == Clamp(cfg, NaturalOut)
  <2>1. a \in Nat \ {0}
    BY <1>2, <1>3, LendsSomething DEF RebalanceToBlend
  <2>2. a <= funds.liquid - Target(cfg, Total)
    BY <1>2 DEF Clamp, NaturalOut, Surplus
  <2>3. funds'.liquid = funds.liquid - a /\ funds'.delegated = funds.delegated + a
    <3>1. funds' = ToBlendFlow(a)
      BY <1>3 DEF RebalanceToBlend
    <3> QED
      BY <1>2, <2>1, <3>1, ToBlendResult
  <2>4. Total' = Total /\ cfg' = cfg
    BY <1>2, <1>3, <2>1, <2>3 DEF Total, RebalanceToBlend
  <2> QED
    BY <1>3, <2>1, <2>2, <2>3, <2>4
<1>4. CASE RebalanceFromBlend
  <2> DEFINE a == Clamp(cfg, NaturalIn)
  <2>1. a \in Nat \ {0}
    BY <1>2, <1>4, RecallsPrincipal DEF RebalanceFromBlend
  <2>2. a <= Target(cfg, Total) - funds.liquid
    BY <1>2 DEF Clamp, NaturalIn, Recall, Least
  <2>3. funds'.liquid = funds.liquid + a /\ funds'.delegated = funds.delegated - a
    <3>1. funds' = FromBlendFlow(a)
      BY <1>4 DEF RebalanceFromBlend
    <3> QED
      BY <1>2, <2>1, <3>1, FromBlendResult
  <2>4. Total' = Total /\ cfg' = cfg
    BY <1>2, <1>4, <2>1, <2>3 DEF Total, RebalanceFromBlend
  <2> QED
    BY <1>4, <2>1, <2>2, <2>3, <2>4
<1> QED
  BY <1>1, <1>3, <1>4

\* An automatic move keeps the pool's total and brings the pool closer to
\* its exact target without crossing it, or to within the unit that
\* truncation loses.
THEOREM MovesConverge == Spec => RebalanceConverges
<1>1. ASSUME HandlerInv, [Next]_vars, Rebalance, funds' # funds
      PROVE  /\ Total' = Total
             /\ \/ Distance' < BPS_DEN
                \/ Distance' < Distance /\ (Drift' < 0 <=> Drift < 0)
  <2> DEFINE t == Target(cfg, Total)
  <2>1. TypeOK /\ t \in Nat /\ funds.liquid \in Nat
    BY <1>1, Accounts, TargetAndBand DEF TypeOK, Total
  <2> DEFINE r == Total * cfg.target - t * BPS_DEN
  <2>2. r \in 0 .. BPS_DEN - 1 /\ Total * cfg.target = t * BPS_DEN + r
    <3>1. r \in 0 .. BPS_DEN - 1
      BY <2>1, TargetIsExact
    <3>2. PICK p, q \in Int : p = Total * cfg.target /\ q = t * BPS_DEN
      <4>1. Total * cfg.target \in Int
        BY <2>1 DEF TypeOK, Config, Funds, Total
      <4>2. t * BPS_DEN \in Int
        BY <2>1 DEF BPS_DEN
      <4> QED
        BY <4>1, <4>2
    <3>3. r = p - q
      BY <3>2
    <3> HIDE DEF r, t
    <3> QED
      BY <3>1, <3>2, <3>3
  <2>3. Total' = Total /\ cfg' = cfg
    BY <1>1, MoveAmount
  <2>4. PICK d \in Int : /\ funds'.liquid = funds.liquid + d
                         /\ \/ d < 0 /\ -d <= funds.liquid - t
                            \/ d > 0 /\ d <= t - funds.liquid
    <3>1. ASSUME NEW a \in Nat \ {0}, a <= funds.liquid - t, funds'.liquid = funds.liquid - a
          PROVE  -a \in Int /\ funds'.liquid = funds.liquid + (-a) /\ -a < 0 /\ -(-a) <= funds.liquid - t
      BY <2>1, <3>1
    <3> HIDE DEF t
    <3> QED
      BY <1>1, <3>1, MoveAmount DEF t
  <2> HIDE DEF r, t
  <2>5. Drift = (funds.liquid - t) * BPS_DEN - r
    BY <2>1, <2>2 DEF Drift, BPS_DEN
  <2>6. Drift' = (funds.liquid - t + d) * BPS_DEN - r
    BY <2>1, <2>2, <2>3, <2>4 DEF Drift, BPS_DEN
  <2>7. PICK x, y \in Int : x = Drift /\ y = Drift'
    BY <2>1, <2>2, <2>4, <2>5, <2>6 DEF BPS_DEN
  <2>8. /\ Distance = IF x < 0 THEN -x ELSE x
        /\ Distance' = IF y < 0 THEN -y ELSE y
    BY <2>7 DEF Distance
  <2>9. \/ (IF y < 0 THEN -y ELSE y) < BPS_DEN
        \/ /\ (IF y < 0 THEN -y ELSE y) < (IF x < 0 THEN -x ELSE x)
           /\ (y < 0 <=> x < 0)
    <3>1. funds.liquid - t \in Int /\ t - funds.liquid = -(funds.liquid - t)
      BY <2>1
    <3> QED
      BY <2>2, <2>4, <2>5, <2>6, <2>7, <3>1, StepTowardsZero
  <2> QED
    BY <2>3, <2>7, <2>8, <2>9
<1>2. HandlerInv /\ [Next]_vars =>
        [Rebalance /\ funds' # funds
           => /\ Total' = Total
              /\ \/ Distance' < BPS_DEN
                 \/ Distance' < Distance /\ (Drift' < 0 <=> Drift < 0)]_vars
  BY <1>1
<1> QED
  BY <1>2, HandlerInvariant, PTL DEF Spec, RebalanceConverges

----------------------------------------------------------------------------
(* The cooldown.                                                           *)

\* The ledger's time stays below the largest timestamp, so that the end of
\* the cooldown, which saturates there, is never reached early.
LEMMA TimeBound == Spec => [](now <= MaxTime)
<1>1. Init => now <= MaxTime
  BY HandlerAssumption DEF Init
<1>2. ASSUME HandlerInv, now <= MaxTime, [Next]_vars PROVE now' <= MaxTime
  <2>1. now \in Nat
    BY <1>2 DEF HandlerInv, TypeOK
  <2>2. CASE Tick
    BY <2>1, <2>2, HandlerAssumption DEF Tick
  <2>3. CASE ~Tick
    <3>1. now' = now
      BY <1>2, <2>3 DEF Next, Handler, Rebalance, RebalanceToBlend, RebalanceFromBlend,
         RebalanceSkips, RebalanceHolds, HarvestYield, HarvestEmissions, HarvestPartially,
         HarvestRedeems, EmergencyUnwind, Manual, ManualToBlend, ManualFromBlend, Pause,
         Unpause, PauseSet, Setter, Configure, Reroute, SetMaxRebalanceAmount,
         SetMinRebalanceAmount, SetMinTotalUsdc, SetTargetRatioBps, SetRebalanceBandBps,
         SetCriticalLiquidFloorBps, SetRebalanceCooldownSecs, SetBlndTreasury,
         SetUsdcReserveTokenId, Environment, Trade, Accrue, WriteDown, SetStatus, Emit,
         Stray, vars, worldVars
    <3> QED
      BY <1>2, <3>1
  <2> QED
    BY <2>2, <2>3
<1>3. HandlerInv /\ now <= MaxTime /\ [Next]_vars => (now <= MaxTime)'
  BY <1>2
<1> QED
  BY <1>1, <1>3, HandlerInvariant, PTL DEF Spec

\* A truncated quotient below a natural means an exact one below it.
LEMMA BelowQuotient ==
    ASSUME NEW x \in Nat, NEW n \in Nat \ {0}, NEW k \in Nat, x \div n < k
    PROVE  x < k * n
<1> DEFINE q == x \div n
<1>1. q \in Nat /\ x < n * (q + 1)
  OBVIOUS
<1>2. \A a, b, c \in Nat : a <= b => c * a <= c * b
  OBVIOUS
<1>3. q + 1 \in Nat /\ q + 1 <= k
  BY <1>1
<1>4. n * (q + 1) <= n * k
  BY <1>2, <1>3
<1>5. n * k = k * n /\ n * k \in Nat /\ n * (q + 1) \in Nat
  BY <1>3
<1> HIDE DEF q
<1> QED
  BY <1>1, <1>4, <1>5

\* Inside the cooldown the only automatic move is a recall to a pool whose
\* exact liquid share is below the critical floor.
THEOREM CooldownHolds == Spec => CooldownProtects
<1>1. ASSUME HandlerInv, now <= MaxTime, [Next]_vars, Rebalance, funds' # funds,
             now < lastRebalanceTs + cfg.cooldown
      PROVE  /\ funds'.liquid > funds.liquid
             /\ funds.liquid * BPS_DEN < cfg.floor * Total
  <2>1. /\ TypeOK /\ cfg \in Config /\ cfg.cooldown \in Nat /\ cfg.floor \in Nat
        /\ now \in Nat /\ lastRebalanceTs \in Nat
        /\ funds.liquid \in Nat /\ Total \in Nat
        /\ Target(cfg, Total) \in Nat /\ Band(cfg, Total) \in Nat
    BY <1>1, Accounts, TargetAndBand DEF TypeOK, Config, Total
  <2>2. Reaches
    BY <1>1, QuietSteps DEF Rebalance, RebalanceToBlend, RebalanceFromBlend
  <2>3. CooldownActive(cfg, now, lastRebalanceTs)
    BY <1>1, <2>1, HandlerAssumption, WidthAssumption DEF CooldownActive, CooldownEnds, Least
  <2>4. IsCritical(cfg, funds.liquid, Total) /\ Total > 0
    BY <2>2, <2>3 DEF Reaches, Gate, GateOpen, Computable
  <2>5. funds.liquid * BPS_DEN < cfg.floor * Total
    <3>1. funds.liquid * BPS_DEN \in Nat /\ Total \in Nat \ {0}
      BY <2>1, <2>4 DEF BPS_DEN
    <3> QED
      BY <2>1, <2>4, <3>1, BelowQuotient DEF IsCritical, LiquidRatio, MulDiv
  <2>6. funds'.liquid > funds.liquid
    <3>1. funds.liquid < Target(cfg, Total)
      BY <2>4 DEF IsCritical
    <3> QED
      BY <1>1, <2>1, <3>1, MoveAmount
  <2> QED
    BY <2>5, <2>6
<1>2. HandlerInv /\ now <= MaxTime /\ [Next]_vars =>
        [Rebalance /\ funds' # funds /\ now < lastRebalanceTs + cfg.cooldown
           => /\ funds'.liquid > funds.liquid
              /\ funds.liquid * BPS_DEN < cfg.floor * Total]_vars
  BY <1>1
<1> QED
  BY <1>2, TimeBound, HandlerInvariant, PTL DEF Spec, CooldownProtects

----------------------------------------------------------------------------
(* Events.                                                                 *)

\* What event e says agrees with the accounts f and the principal p.
Truthful(e, f, p) ==
    /\ e.type = "RebalanceExecuted" =>
          e.liquid = f.liquid /\ e.delegated = f.delegated /\ e.principal = p
    /\ e.type = "HarvestCompleted" => e.principal = p
    /\ e.type = "BadDebtDetected" => e.shortfall > 0 /\ f.position = e.redeemable

\* A list of one event, and one event after another.
LEMMA JoinedEvents ==
    ASSUME NEW d, NEW e
    PROVE  /\ <<d>> \o <<>> = <<d>> /\ <<>> \o <<e>> = <<e>>
           /\ DOMAIN (<<d>> \o <<e>>) = {1, 2}
           /\ (<<d>> \o <<e>>)[1] = d /\ (<<d>> \o <<e>>)[2] = e
<1> DEFINE S == {d, e}
<1>1. <<d>> \in Seq(S) /\ <<e>> \in Seq(S) /\ <<>> \in Seq(S)
  OBVIOUS
<1>2. Len(<<d>>) = 1 /\ Len(<<e>>) = 1 /\ Len(<<>>) = 0 /\ <<d>>[1] = d /\ <<e>>[1] = e
  OBVIOUS
<1>3. <<d>> \o <<e>> = [i \in 1 .. 2 |-> IF i <= 1 THEN <<d>>[i] ELSE <<e>>[i - 1]]
  BY <1>1, <1>2
<1>4. <<d>> \o <<>> = [i \in 1 .. 1 |-> IF i <= 1 THEN <<d>>[i] ELSE <<>>[i - 1]]
  BY <1>1, <1>2
<1>5. <<>> \o <<e>> = [i \in 1 .. 1 |-> IF i <= 0 THEN <<>>[i] ELSE <<e>>[i]]
  BY <1>1, <1>2
<1> QED BY <1>2, <1>3, <1>4, <1>5

\* No event, one, or two that agree.
LEMMA TruthTold ==
    ASSUME \/ events' = <<>>
           \/ \E e : events' = <<e>> /\ Truthful(e, funds', principal')
           \/ \E d, e : /\ events' = <<d>> \o <<e>>
                       /\ Truthful(d, funds', principal') /\ Truthful(e, funds', principal')
    PROVE  EventsTellTheTruth'
<1>1. \A i \in DOMAIN events' : Truthful(events'[i], funds', principal')
  <2>1. CASE events' = <<>>
    BY <2>1
  <2>2. ASSUME NEW e, events' = <<e>>, Truthful(e, funds', principal')
        PROVE  <1>1
    BY <2>2
  <2>3. ASSUME NEW d, NEW e, events' = <<d>> \o <<e>>,
               Truthful(d, funds', principal'), Truthful(e, funds', principal')
        PROVE  <1>1
    BY <2>3, JoinedEvents
  <2> QED BY <2>1, <2>2, <2>3
<1> QED
  BY <1>1 DEF Truthful, EventsTellTheTruth

\* Events that report no figures.
LEMMA IdleEvents ==
    ASSUME NEW f, NEW p
    PROVE  /\ Truthful(CriticalBypassUnavailable, f, p)
           /\ \A x : /\ Truthful(CriticalRebalance(x), f, p) /\ Truthful(HarvestPartial(x), f, p)
                    /\ Truthful(HarvestSkipped(x), f, p) /\ Truthful(PauseToggled(x), f, p)
           /\ \A x, y : /\ Truthful(EmergencyUnwound(x, y), f, p)
                       /\ Truthful(ConfigUpdated(x, y), f, p)
                       /\ Truthful(AddressConfigUpdated(x, y), f, p)
  BY DEF Truthful, CriticalBypassUnavailable, CriticalRebalance, HarvestPartial, HarvestSkipped,
         PauseToggled, EmergencyUnwound, ConfigUpdated, AddressConfigUpdated

\* The end of a harvest.
LEMMA HarvestTells ==
    ASSUME NEW seen, NEW donated,
           HarvestEnds(seen, donated, principal'),
           \/ seen = <<>>
           \/ \E d : seen = <<d>> /\ Truthful(d, funds', principal')
    PROVE  EventsTellTheTruth'
<1>1. \A x, y : Truthful(HarvestCompleted(x, y, principal'), funds', principal')
  BY DEF Truthful, HarvestCompleted
<1>2. PICK e : events' = seen \o <<e>> /\ Truthful(e, funds', principal')
  BY <1>1, IdleEvents DEF HarvestEnds
<1>3. CASE seen = <<>>
  BY <1>2, <1>3, JoinedEvents, TruthTold
<1>4. ASSUME NEW d, seen = <<d>>, Truthful(d, funds', principal')
      PROVE  EventsTellTheTruth'
  <2>1. events' = <<d>> \o <<e>>
    BY <1>2, <1>4
  <2> QED BY <1>2, <1>4, <2>1, TruthTold
<1> QED BY <1>3, <1>4

\* A rebalance reports the figures its nested calls leave behind.
LEMMA RebalanceTells ==
    ASSUME HandlerInv, Rebalance
    PROVE  EventsTellTheTruth'
<1>1. TypeOK
  BY Accounts
<1>2. CASE RebalanceSkips
  BY <1>2, TruthTold DEF RebalanceSkips
<1>3. CASE RebalanceHolds
  BY <1>3, TruthTold, IdleEvents DEF RebalanceHolds
<1>4. CASE RebalanceToBlend
  <2> DEFINE a == Clamp(cfg, NaturalOut)
             e == RebalanceExecuted("toBlend", a, funds.liquid - a,
                                    funds.delegated + a, principal + a)
  <2>1. a \in Nat
    BY <1>1, <1>4, LendsSomething DEF RebalanceToBlend
  <2>2. funds' = ToBlendFlow(a) /\ principal' = principal + a /\ events' = <<e>>
    BY <1>4 DEF RebalanceToBlend
  <2>3. funds'.liquid = funds.liquid - a /\ funds'.delegated = funds.delegated + a
    BY <1>1, <2>1, <2>2, ToBlendResult
  <2>4. Truthful(e, funds', principal')
    BY <2>2, <2>3 DEF Truthful, RebalanceExecuted
  <2> QED BY <2>2, <2>4, TruthTold
<1>5. CASE RebalanceFromBlend
  <2> DEFINE a == Clamp(cfg, NaturalIn)
             e == RebalanceExecuted("fromBlend", a, funds.liquid + a,
                                    funds.delegated - a, Debit(a))
  <2>1. a \in Nat
    BY <1>1, <1>5, RecallsPrincipal DEF RebalanceFromBlend
  <2>2. funds' = FromBlendFlow(a) /\ principal' = Debit(a)
    BY <1>5 DEF RebalanceFromBlend
  <2>3. funds'.liquid = funds.liquid + a /\ funds'.delegated = funds.delegated - a
    BY <1>1, <2>1, <2>2, FromBlendResult
  <2>4. Truthful(e, funds', principal')
    BY <2>2, <2>3 DEF Truthful, RebalanceExecuted
  <2>5. \/ events' = <<e>>
        \/ \E x : events' = <<e>> \o <<CriticalRebalance(x)>>
    <3>1. \/ events' = <<e>> \o <<>>
          \/ \E x : events' = <<e>> \o <<CriticalRebalance(x)>>
      BY <1>5 DEF RebalanceFromBlend
    <3> HIDE DEF e
    <3> QED BY <3>1, JoinedEvents
  <2> QED BY <2>4, <2>5, IdleEvents, TruthTold
<1> QED BY <1>2, <1>3, <1>4, <1>5 DEF Rebalance

\* A harvest reports the principal it leaves, and a loss as large as the
\* position has become.
LEMMA HarvestReports ==
    ASSUME HandlerInv, HarvestYield
    PROVE  EventsTellTheTruth'
<1>1. TypeOK
  BY Accounts
<1>2. CASE HarvestEmissions
  BY <1>2, HarvestTells DEF HarvestEmissions
<1>3. CASE HarvestPartially
  <2>1. principal' = principal /\ HarvestEnds(<<HarvestPartial(Routed)>>, 0, principal)
    BY <1>3 DEF HarvestPartially
  <2> QED BY <2>1, HarvestTells, IdleEvents
<1>4. CASE HarvestRedeems
  <2>1. /\ funds' = HarvestFlow /\ principal' = Resupplied
        /\ HarvestEnds(IF Redeemed < principal
                        THEN <<BadDebtDetected(principal, Redeemed)>> ELSE <<>>,
                        Interest, Resupplied)
    BY <1>4 DEF HarvestRedeems
  <2>2. CASE ~ (Redeemed < principal)
    BY <2>1, <2>2, HarvestTells
  <2>3. CASE Redeemed < principal
    <3>1. /\ Resupplied \in Nat /\ Interest \in Nat /\ Redeemed \in Nat
          /\ Resupplied + Interest = Redeemed
          /\ funds'.position = funds.position - Interest
          /\ Redeemed = Least(I128_MAX, funds.position)
          /\ funds.position \in Nat /\ principal \in Nat /\ principal <= I128_MAX
      BY <1>1, <2>1, HarvestResult, RedeemedIsPaid, Accounts DEF HandlerInv, Paid
    <3>2. Resupplied = Redeemed
      BY <2>3, <3>1 DEF Resupplied, Least
    <3>3. Redeemed = funds.position
      BY <2>3, <3>1, WidthAssumption DEF Least
    <3>4. Truthful(BadDebtDetected(principal, Redeemed), funds', principal')
      BY <2>3, <3>1, <3>2, <3>3 DEF Truthful, BadDebtDetected
    <3> QED BY <2>1, <2>3, <3>4, HarvestTells
  <2> QED BY <2>2, <2>3
<1> QED BY <1>2, <1>3, <1>4 DEF HarvestYield

\* The admin's entry points and the world.
LEMMA OthersTell ==
    ASSUME EmergencyUnwind \/ Manual \/ Pause \/ Unpause \/ Setter \/ Environment
    PROVE  EventsTellTheTruth'
<1>1. CASE EmergencyUnwind
  BY <1>1, IdleEvents, TruthTold DEF EmergencyUnwind
<1>2. CASE Manual
  <2>1. PICK dir, a : ManualEvent(dir, a)
    BY <1>2 DEF Manual, ManualToBlend, ManualFromBlend
  <2> DEFINE e == RebalanceExecuted(dir, a, funds'.liquid, funds'.delegated, principal')
  <2>2. Truthful(e, funds', principal')
    BY DEF Truthful, RebalanceExecuted
  <2> QED BY <2>1, <2>2, TruthTold DEF ManualEvent
<1>3. CASE Pause \/ Unpause
  BY <1>3, IdleEvents, TruthTold DEF Pause, Unpause, PauseSet
<1>4. CASE Setter
  <2>1. \E x, y : events' = <<ConfigUpdated(x, y)>> \/ events' = <<AddressConfigUpdated(x, y)>>
    BY <1>4 DEF Setter, Configure, Reroute,
       SetMaxRebalanceAmount, SetMinRebalanceAmount, SetMinTotalUsdc, SetTargetRatioBps,
       SetRebalanceBandBps, SetCriticalLiquidFloorBps, SetRebalanceCooldownSecs,
       SetBlndTreasury, SetUsdcReserveTokenId
  <2> QED BY <2>1, IdleEvents, TruthTold
<1>5. CASE Environment
  <2>1. events' = <<>>
    BY <1>5 DEF Environment, Trade, Accrue, WriteDown, SetStatus, Emit, Stray, Tick, World
  <2> QED BY <2>1, TruthTold
<1> QED BY <1>1, <1>2, <1>3, <1>4, <1>5

\* What the events report is what the calls left behind.
THEOREM EventsAreTrue == Spec => []EventsTellTheTruth
<1>1. Init => EventsTellTheTruth
  BY DEF Init, EventsTellTheTruth
<1>2. HandlerInv /\ EventsTellTheTruth /\ [Next]_vars => EventsTellTheTruth'
  <2>1. ASSUME EventsTellTheTruth, UNCHANGED vars PROVE EventsTellTheTruth'
    BY <2>1 DEF EventsTellTheTruth, vars, handlerVars, worldVars
  <2> QED BY <2>1, RebalanceTells, HarvestReports, OthersTell DEF Next, Handler
<1> QED BY <1>1, <1>2, HandlerInvariant, PTL DEF Spec

----------------------------------------------------------------------------
(* What a harvest achieves.                                                *)

\* Event e does not tell of a harvest.
Elsewise(e) == e.type \notin {"HarvestPartial", "HarvestCompleted", "HarvestSkipped"}

\* No event, or one or two that do not: no harvest.
LEMMA NoHarvestTold ==
    ASSUME \/ events' = <<>>
           \/ \E e : events' = <<e>> /\ Elsewise(e)
           \/ \E d, e : events' = <<d>> \o <<e>> /\ Elsewise(d) /\ Elsewise(e)
    PROVE  ~Harvested' /\ ~HasEvent("HarvestPartial")'
<1>1. \A i \in DOMAIN events' : Elsewise(events'[i])
  <2>1. CASE events' = <<>>
    BY <2>1
  <2>2. ASSUME NEW e, events' = <<e>>, Elsewise(e)
        PROVE  <1>1
    BY <2>2
  <2>3. ASSUME NEW d, NEW e, events' = <<d>> \o <<e>>, Elsewise(d), Elsewise(e)
        PROVE  <1>1
    BY <2>3, JoinedEvents
  <2> QED BY <2>1, <2>2, <2>3
<1> QED
  BY <1>1 DEF Elsewise, Harvested, HasEvent

LEMMA OtherEvents ==
    /\ Elsewise(CriticalBypassUnavailable)
    /\ \A x : Elsewise(CriticalRebalance(x)) /\ Elsewise(PauseToggled(x))
    /\ \A x, y : /\ Elsewise(EmergencyUnwound(x, y)) /\ Elsewise(ConfigUpdated(x, y))
                /\ Elsewise(AddressConfigUpdated(x, y))
    /\ \A v, w, x, y, z : Elsewise(RebalanceExecuted(v, w, x, y, z))
  BY DEF Elsewise, CriticalBypassUnavailable, CriticalRebalance, PauseToggled,
     EmergencyUnwound, ConfigUpdated, AddressConfigUpdated, RebalanceExecuted

\* Only a harvest says that it was one.
LEMMA HarvestsTellOfThemselves ==
    ASSUME Next, Harvested' \/ HasEvent("HarvestPartial")'
    PROVE  HarvestYield
<1>1. ASSUME Rebalance PROVE FALSE
  <2>1. CASE RebalanceFromBlend
    <3>1. PICK e, x : /\ Elsewise(e)
                      /\ \/ events' = <<e>> \o <<>>
                         \/ events' = <<e>> \o <<CriticalRebalance(x)>>
      BY <2>1, OtherEvents DEF RebalanceFromBlend
    <3> QED BY <3>1, JoinedEvents, OtherEvents, NoHarvestTold
  <2>2. CASE RebalanceSkips \/ RebalanceHolds \/ RebalanceToBlend
    <3>1. events' = <<>> \/ \E e : events' = <<e>> /\ Elsewise(e)
      BY <2>2, OtherEvents DEF RebalanceSkips, RebalanceHolds, RebalanceToBlend
    <3> QED BY <3>1, NoHarvestTold
  <2> QED BY <1>1, <2>1, <2>2 DEF Rebalance
<1>2. ASSUME EmergencyUnwind \/ Manual \/ Pause \/ Unpause \/ Setter \/ Environment
      PROVE  FALSE
  <2>1. events' = <<>> \/ \E e : events' = <<e>> /\ Elsewise(e)
    <3>1. CASE EmergencyUnwind
      BY <3>1, OtherEvents DEF EmergencyUnwind
    <3>2. CASE Manual
      BY <3>2, OtherEvents DEF Manual, ManualToBlend, ManualFromBlend, ManualEvent
    <3>3. CASE Pause \/ Unpause
      BY <3>3, OtherEvents DEF Pause, Unpause, PauseSet
    <3>4. CASE Setter
      BY <3>4, OtherEvents DEF Setter, Configure, Reroute,
         SetMaxRebalanceAmount, SetMinRebalanceAmount, SetMinTotalUsdc, SetTargetRatioBps,
         SetRebalanceBandBps, SetCriticalLiquidFloorBps, SetRebalanceCooldownSecs,
         SetBlndTreasury, SetUsdcReserveTokenId
    <3>5. CASE Environment
      BY <3>5 DEF Environment, Trade, Accrue, WriteDown, SetStatus, Emit, Stray, Tick, World
    <3> QED BY <1>2, <3>1, <3>2, <3>3, <3>4, <3>5
  <2> QED BY <2>1, NoHarvestTold
<1> QED BY <1>1, <1>2 DEF Next, Handler

\* A harvest that Blend cut short says so.
LEMMA PartialTold ==
    ASSUME HarvestPartially
    PROVE  HasEvent("HarvestPartial")'
<1> DEFINE d == HarvestPartial(Routed)
<1>1. PICK e : events' = <<d>> \o <<e>>
  BY DEF HarvestPartially, HarvestEnds
<1>2. d.type = "HarvestPartial"
  BY DEF HarvestPartial
<1> HIDE DEF d
<1> QED BY <1>1, <1>2, JoinedEvents DEF HasEvent

\* A harvest that reached Blend leaves exactly the principal invested,
\* writes the principal down to what Blend still pays, and gives the whole
\* difference to the pool: no interest stays behind, no principal is donated.
THEOREM HarvestsReconcile == Spec => HarvestReconciles
<1>1. ASSUME HandlerInv, Next, Harvested', principal > 0, BlendHealthy,
             ~HasEvent("HarvestPartial")'
      PROVE  /\ principal' = Least(principal, funds.position)
             /\ funds'.position = principal'
             /\ Total' - Total = funds.position - principal'
  <2>1. HarvestRedeems
    <3>1. HarvestYield /\ principal # 0
      BY <1>1, HarvestsTellOfThemselves
    <3> QED BY <1>1, <3>1, PartialTold DEF HarvestYield, HarvestEmissions
  <2>2. /\ TypeOK /\ principal \in Nat /\ funds.liquid \in Nat
        /\ funds.delegated \in Nat /\ funds.position \in Nat
    BY <1>1, Accounts
  <2>3. Redeemed = funds.position
    BY <1>1, <2>2, RedeemedIsPaid, Accounts, WidthAssumption DEF Paid, Least
  <2>4. /\ Resupplied \in Nat /\ Interest \in Nat /\ Resupplied + Interest = Redeemed
        /\ HarvestFlow =
             [liquid |-> funds.liquid + Interest, delegated |-> funds.delegated,
              position |-> funds.position - Interest, usdc |-> funds.usdc]
    BY <2>2, HarvestResult
  <2>5. principal' = Resupplied /\ funds' = HarvestFlow
    BY <2>1 DEF HarvestRedeems
  <2>6. Resupplied = Least(principal, funds.position)
    BY <2>3 DEF Resupplied
  <2>7. /\ funds'.liquid = funds.liquid + Interest /\ funds'.delegated = funds.delegated
        /\ funds'.position = funds.position - Interest
    BY <2>4, <2>5
  <2>8. Total' - Total = Interest /\ funds.position - Interest = Resupplied
    <3>1. Total' = funds'.liquid + funds'.delegated /\ Total = funds.liquid + funds.delegated
      BY DEF Total
    <3>2. Resupplied \in Nat /\ Interest \in Nat /\ Resupplied + Interest = funds.position
      BY <2>3, <2>4
    <3> QED BY <2>2, <2>7, <3>1, <3>2
  <2> QED BY <2>2, <2>3, <2>4, <2>5, <2>6, <2>7, <2>8
<1>2. HandlerInv /\ [Next]_vars =>
        [Harvested' /\ principal > 0 /\ BlendHealthy /\ ~HasEvent("HarvestPartial")'
           => /\ principal' = Least(principal, funds.position)
              /\ funds'.position = principal'
              /\ Total' - Total = funds.position - principal']_vars
  BY <1>1
<1> QED BY <1>2, HandlerInvariant, PTL DEF Spec, HarvestReconciles

----------------------------------------------------------------------------
(* The width of the arithmetic.                                            *)

\* A share of a total, in basis points, is no larger than the whole.
LEMMA ShareOfTotal ==
    ASSUME NEW total \in Nat, NEW bps \in Nat, bps <= BPS_DEN
    PROVE  /\ total * bps \in Nat /\ total * bps <= total * BPS_DEN
           /\ MulDiv(total, bps, BPS_DEN) \in 0 .. total
<1>1. total * bps \in Nat /\ total * (BPS_DEN - bps) >= 0
  BY DEF BPS_DEN
<1>2. total * bps <= total * BPS_DEN
  BY <1>1 DEF BPS_DEN
<1>3. PICK x \in Nat : x = total * bps
  BY <1>1
<1>4. MulDiv(total, bps, BPS_DEN) = x \div BPS_DEN
  BY <1>3 DEF MulDiv
<1>5. x <= total * BPS_DEN
  BY <1>2, <1>3
<1>6. x \div BPS_DEN \in Nat /\ (x \div BPS_DEN) * BPS_DEN <= x
  BY Truncation
<1>7. x \div BPS_DEN <= total
  BY <1>5, <1>6 DEF BPS_DEN
<1> QED
  BY <1>1, <1>2, <1>4, <1>6, <1>7

\* The arithmetic copes with every pool that fits BPS_DEN times over.
LEMMA SmallPoolsAreComputable ==
    ASSUME TypeOK, Total > 0, Total * BPS_DEN <= I128_MAX
    PROVE  Computable
<1>1. Total \in Nat /\ funds.liquid \in Nat /\ funds.liquid <= Total
  BY DEF TypeOK, Funds, Total
<1>2. /\ cfg.target \in Nat /\ cfg.target <= BPS_DEN
      /\ cfg.band \in Nat /\ cfg.band <= BPS_DEN
  <2>1. cfg.target \in 1 .. BPS_DEN - 1 /\ cfg.band \in 0 .. BPS_DEN - 1
    BY DEF TypeOK, Config
  <2>2. \A t : t \in 0 .. BPS_DEN - 1 => t \in Nat /\ t <= BPS_DEN
    BY DEF BPS_DEN
  <2>3. \A t : t \in 1 .. BPS_DEN - 1 => t \in Nat /\ t <= BPS_DEN
    BY DEF BPS_DEN
  <2> QED BY <2>1, <2>2, <2>3
<1>3. /\ Total * cfg.target \in Nat /\ Total * cfg.target <= Total * BPS_DEN
      /\ Target(cfg, Total) \in 0 .. Total
  BY <1>1, <1>2, ShareOfTotal DEF Target
<1>4. /\ Total * cfg.band \in Nat /\ Total * cfg.band <= Total * BPS_DEN
      /\ Band(cfg, Total) \in 0 .. Total
  BY <1>1, <1>2, ShareOfTotal DEF Band
<1>5. Upper(cfg, Total) <= Total * BPS_DEN /\ Upper(cfg, Total) \in Nat
  BY <1>1, <1>3, <1>4 DEF Upper, BPS_DEN
<1>6. funds.liquid * BPS_DEN <= Total * BPS_DEN /\ funds.liquid * BPS_DEN \in Nat
  BY <1>1 DEF BPS_DEN
<1>7. Total * BPS_DEN \in Nat /\ I128_MAX \in Nat
  BY <1>1, WidthAssumption DEF BPS_DEN
<1> DEFINE top == Total * BPS_DEN
           share == Total * cfg.target
           width == Total * cfg.band
           upper == Upper(cfg, Total)
           liquid == funds.liquid * BPS_DEN
<1>8. /\ top \in Nat /\ share \in Nat /\ width \in Nat /\ upper \in Nat /\ liquid \in Nat
      /\ top <= I128_MAX /\ share <= top /\ width <= top /\ upper <= top /\ liquid <= top
  BY <1>3, <1>4, <1>5, <1>6, <1>7
<1>9. /\ ~(share > I128_MAX) /\ ~(width > I128_MAX)
      /\ ~(upper > I128_MAX) /\ ~(liquid > I128_MAX)
  <2> HIDE DEF top, share, width, upper, liquid
  <2> QED BY <1>7, <1>8
<1> QED
  BY <1>9 DEF Computable, Overflows

\* No pool is moved on a product beyond i128, and no pool that fits is
\* given up.
THEOREM DecisionsStayFit == Spec => DecisionsFit
<1>1. ASSUME Rebalance, funds' # funds
      PROVE  \A product \in {Total * cfg.target, Total * cfg.band, funds.liquid * BPS_DEN} :
                ~(product > I128_MAX)
  <2>1. Computable
    <3>1. RebalanceToBlend \/ RebalanceFromBlend
      BY <1>1, QuietSteps DEF Rebalance
    <3> QED BY <3>1 DEF RebalanceToBlend, RebalanceFromBlend, Reaches
  <2> QED BY <2>1 DEF Computable, Overflows
<1>2. ASSUME HandlerInv
      PROVE  \A product \in {Total * cfg.target, Total * cfg.band, funds.liquid * BPS_DEN} :
                ~(product > I128_MAX) => product <= I128_MAX
  <2>1. Total \in Nat /\ cfg.target \in Nat /\ cfg.band \in Nat /\ funds.liquid \in Nat
    BY <1>2, Accounts, ConfigRatios DEF TypeOK, Total
  <2>2. Total * cfg.target \in Nat /\ Total * cfg.band \in Nat /\ funds.liquid * BPS_DEN \in Nat
    BY <2>1 DEF BPS_DEN
  <2>3. \A x \in Nat : ~(x > I128_MAX) => x <= I128_MAX
    BY WidthAssumption
  <2> QED BY <2>2, <2>3
<1>3. HandlerInv /\ [Next]_vars =>
        [/\ Rebalance /\ funds' # funds =>
              \A product \in {Total * cfg.target, Total * cfg.band, funds.liquid * BPS_DEN} :
                 product <= I128_MAX
         /\ Total > 0 /\ Total * BPS_DEN <= I128_MAX => Computable]_vars
  BY <1>1, <1>2, SmallPoolsAreComputable, Accounts
<1> QED
  BY <1>3, HandlerInvariant, PTL DEF Spec, DecisionsFit

----------------------------------------------------------------------------
(* Where the emissions go.                                                 *)

\* What a claim does to the emissions left to claim and to the treasury.
LEMMA ClaimArrives ==
    ASSUME TypeOK, Claim
    PROVE  /\ Arrived = Routed
           /\ Arrived = blnd.claimable - blnd'.claimable
           /\ routing.reserveId = UsdcReserveId => blnd'.claimable = 0
<1>1. /\ blnd \in [claimable : Nat, paid : [Treasuries -> Nat]]
      /\ routing.treasury \in Treasuries
  BY DEF TypeOK, Routing
<1> DEFINE t == routing.treasury
           paid == [blnd.paid EXCEPT ![t] = @ + Routed]
<1>2. blnd' = [blnd EXCEPT !.claimable = @ - Routed, !.paid[t] = @ + Routed]
  BY DEF Claim
<1>3. blnd'.claimable = blnd.claimable - Routed /\ blnd'.paid = paid
  BY <1>1, <1>2
<1>4. paid[t] = blnd.paid[t] + Routed
  BY <1>1
<1>5. Routed \in Nat /\ blnd.claimable \in Nat /\ blnd.paid[t] \in Nat
  BY <1>1 DEF Routed
<1>6. Arrived = (blnd.paid[t] + Routed) - blnd.paid[t]
  <2>1. blnd'.paid[t] = blnd.paid[t] + Routed
    BY <1>3, <1>4, Zenon
  <2>2. Arrived = blnd'.paid[t] - blnd.paid[t]
    BY DEF Arrived
  <2> QED BY <2>1, <2>2, Zenon
<1>7. Arrived = Routed
  BY <1>5, <1>6
<1>8. blnd.claimable - blnd'.claimable = Routed
  BY <1>3, <1>5
<1>9. routing.reserveId = UsdcReserveId => Routed = blnd.claimable
  BY DEF Routed
<1> QED
  BY <1>3, <1>5, <1>7, <1>8, <1>9

\* What event e says of the emissions is n.
Reports(e, n) == e.type \in {"HarvestPartial", "HarvestCompleted"} => e.routed = n

\* The events of a harvest: one seen on the way, if any, and its end.
LEMMA HarvestEvents ==
    ASSUME NEW seen, NEW donated, NEW p, HarvestEnds(seen, donated, p),
           seen = <<>> \/ \E d : seen = <<d>>
    PROVE  \A i \in DOMAIN events' :
              \/ seen = <<events'[i]>>
              \/ Reports(events'[i], Routed) /\ events'[i].type # "HarvestPartial"
<1> DEFINE Ends(e) == Reports(e, Routed) /\ e.type # "HarvestPartial"
<1>1. /\ \A x, y : Ends(HarvestCompleted(x, Routed, y))
      /\ \A x : Ends(HarvestSkipped(x))
  BY DEF Reports, HarvestCompleted, HarvestSkipped
<1>2. PICK e : events' = seen \o <<e>> /\ Ends(e)
  <2> HIDE DEF Ends
  <2> QED BY <1>1 DEF HarvestEnds
<1>3. CASE seen = <<>>
  <2>1. events' = <<e>>
    BY <1>2, <1>3, JoinedEvents
  <2>2. \A i \in DOMAIN events' : events'[i] = e
    BY <2>1
  <2> QED BY <1>2, <2>2
<1>4. ASSUME NEW d, seen = <<d>>
      PROVE  \A i \in DOMAIN events' : seen = <<events'[i]>> \/ Ends(events'[i])
  <2>1. events' = <<d>> \o <<e>>
    BY <1>2, <1>4
  <2>2. \A i \in DOMAIN events' : events'[i] = d \/ events'[i] = e
    BY <2>1, JoinedEvents
  <2> QED BY <1>2, <1>4, <2>2
<1> QED BY <1>3, <1>4

\* Every way through a harvest claims, and reports what it claimed; only the
\* one that Blend cut short says so.
LEMMA HarvestsRoute ==
    ASSUME HarvestYield
    PROVE  /\ Claim
           /\ \A i \in DOMAIN events' : Reports(events'[i], Routed)
           /\ HarvestPartially \/ \A i \in DOMAIN events' : events'[i].type # "HarvestPartial"
<1>1. CASE HarvestEmissions
  <2>1. Claim /\ HarvestEnds(<<>>, 0, principal)
    BY <1>1 DEF HarvestEmissions
  <2>2. \A x : <<>> # <<x>>
    OBVIOUS
  <2> QED BY <2>1, <2>2, HarvestEvents
<1>2. CASE HarvestPartially
  <2> DEFINE d == HarvestPartial(Routed)
  <2>1. Claim /\ HarvestEnds(<<d>>, 0, principal)
    BY <1>2 DEF HarvestPartially
  <2>2. Reports(d, Routed)
    BY DEF Reports, HarvestPartial
  <2> HIDE DEF d
  <2>3. \A x : <<d>> = <<x>> => x = d
    OBVIOUS
  <2>4. \A i \in DOMAIN events' : Reports(events'[i], Routed)
    BY <2>1, <2>2, <2>3, HarvestEvents
  <2> QED BY <1>2, <2>1, <2>4
<1>3. CASE HarvestRedeems
  <2> DEFINE d == BadDebtDetected(principal, Redeemed)
  <2>1. Reports(d, Routed) /\ d.type # "HarvestPartial"
    BY DEF Reports, BadDebtDetected
  <2>2. PICK seen : Claim /\ HarvestEnds(seen, Interest, Resupplied) /\ (seen = <<>> \/ seen = <<d>>)
    BY <1>3 DEF HarvestRedeems
  <2> HIDE DEF d
  <2>3. \A x : (<<d>> = <<x>> => x = d) /\ <<>> # <<x>>
    OBVIOUS
  <2>4. \A i \in DOMAIN events' :
           Reports(events'[i], Routed) /\ events'[i].type # "HarvestPartial"
    BY <2>1, <2>2, <2>3, HarvestEvents
  <2> QED BY <2>2, <2>4
<1> QED BY <1>1, <1>2, <1>3 DEF HarvestYield

\* A claim survives whatever Blend does to the withdrawal after it: what
\* left Blend is with the treasury and in the events, nothing is left to
\* claim, and a harvest cut short has moved nothing else.
THEOREM EmissionsReachTreasury == Spec => EmissionsArrive
<1> DEFINE Tells == \A i \in DOMAIN events' :
                       events'[i].type \in {"HarvestPartial", "HarvestCompleted"} =>
                          events'[i].routed = Arrived
           Lands == /\ Arrived = blnd.claimable - blnd'.claimable
                    /\ routing.reserveId = UsdcReserveId => blnd'.claimable = 0
<1>1. ASSUME HandlerInv, HarvestYield
      PROVE  Lands /\ Tells /\ (HasEvent("HarvestPartial")' => UNCHANGED <<funds, principal>>)
  <2>1. TypeOK
    BY <1>1, Accounts
  <2>2. Lands /\ Arrived = Routed
    BY <1>1, <2>1, HarvestsRoute, ClaimArrives
  <2>3. Tells
    BY <1>1, <2>2, HarvestsRoute DEF Reports
  <2>4. HasEvent("HarvestPartial")' => HarvestPartially
    BY <1>1, HarvestsRoute DEF HasEvent
  <2> QED BY <2>2, <2>3, <2>4, QuietSteps
<1>2. ASSUME Next, ~HarvestYield
      PROVE  ~Harvested' /\ ~HasEvent("HarvestPartial")' /\ Tells
  <2>1. ~Harvested' /\ ~HasEvent("HarvestPartial")'
    BY <1>2, HarvestsTellOfThemselves
  <2> QED BY <2>1 DEF Harvested, HasEvent
<1>3. ASSUME HandlerInv, Next
      PROVE  /\ Harvested' => Lands
             /\ Tells
             /\ HasEvent("HarvestPartial")' => UNCHANGED <<funds, principal>>
  <2> HIDE DEF Lands, Tells
  <2> QED BY <1>1, <1>2, <1>3
<1>4. HandlerInv /\ [Next]_vars =>
        [/\ Harvested' => Lands
         /\ Tells
         /\ HasEvent("HarvestPartial")' => UNCHANGED <<funds, principal>>]_vars
  <2> HIDE DEF Lands, Tells
  <2> QED BY <1>3
<1> QED
  BY <1>4, HandlerInvariant, PTL DEF Spec, EmissionsArrive

=============================================================================
