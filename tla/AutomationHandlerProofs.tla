---------------------- MODULE AutomationHandlerProofs ----------------------
(***************************************************************************)
(* Theorems about AutomationHandler for every value of its constants, with *)
(* proofs checked by TLAPS.                                                *)
(***************************************************************************)
EXTENDS AutomationHandler, TLAPS

----------------------------------------------------------------------------
(* The policy.                                                             *)

\* Truncating division by BPS_DEN stays within the naturals.
LEMMA DivByBps == \A x \in Nat : x \div BPS_DEN \in Nat
  BY DEF BPS_DEN

\* What the constructor and the setters accept stays in the range of Config.
LEMMA ValidRatios ==
    ASSUME NEW t \in Nat, NEW b \in Nat, NEW f \in Nat
    PROVE  /\ ValidTarget(t) => t \in 1 .. BPS_DEN - 1
           /\ ValidBand(b) => b \in 0 .. BPS_DEN - 1
           /\ t < BPS_DEN /\ ValidFloor(f, t, b) => f \in 0 .. BPS_DEN - 1
<1> USE DEF BPS_DEN
<1>1. ValidTarget(t) => t \in 1 .. BPS_DEN - 1
  BY DEF ValidTarget
<1>2. ValidBand(b) => b \in 0 .. BPS_DEN - 1
  BY DEF ValidBand
<1>3. ASSUME t < BPS_DEN, f < LowerBandBps(t, b) PROVE f \in 0 .. BPS_DEN - 1
  <2>1. LowerBandBps(t, b) \in 0 .. t
    BY DEF LowerBandBps
  <2> QED
    BY <1>3, <2>1
<1> QED
  BY <1>1, <1>2, <1>3 DEF ValidFloor

\* The ratios of a valid configuration are numbers below one.
LEMMA ConfigRatios ==
    ASSUME NEW c \in Config
    PROVE  c.target \in Nat /\ c.band \in Nat /\ c.target < BPS_DEN
<1>1. c.target \in 1 .. BPS_DEN - 1
  BY DEF Config
<1>2. c.band \in 0 .. BPS_DEN - 1
  BY DEF Config
<1>3. \A t : t \in 1 .. BPS_DEN - 1 => t \in Nat /\ t < BPS_DEN
  BY DEF BPS_DEN
<1>4. \A b : b \in 0 .. BPS_DEN - 1 => b \in Nat
  BY DEF BPS_DEN
<1> QED
  BY <1>1, <1>2, <1>3, <1>4

\* Target and band of a pool are amounts.
LEMMA TargetAndBand ==
    ASSUME NEW c \in Config, NEW total \in Nat
    PROVE  Target(c, total) \in Nat /\ Band(c, total) \in Nat
<1>1. total * c.target \in Nat /\ total * c.band \in Nat
  BY DEF Config
<1> QED
  BY <1>1, DivByBps DEF Target, Band, MulDiv

\* What an over-liquid pool lends is a positive amount that it has.
LEMMA LendsSomething ==
    ASSUME TypeOK, Over
    PROVE  Clamp(cfg, NaturalOut) \in Nat \ {0} /\ Clamp(cfg, NaturalOut) <= funds.liquid
<1>1. Total \in Nat /\ funds.liquid \in Nat /\ cfg.maxCap \in Nat /\ cfg \in Config
  BY DEF TypeOK, Funds, Config, Total
<1>2. Target(cfg, Total) \in Nat /\ Band(cfg, Total) \in Nat
  BY <1>1, TargetAndBand
<1>3. NaturalOut \in Nat \ {0} /\ NaturalOut <= funds.liquid
  BY <1>1, <1>2 DEF Over, OverLiquid, Upper, NaturalOut, Surplus
<1> QED
  BY <1>1, <1>3 DEF Clamp

\* What a pool recalls is an amount, and no more than the principal.
LEMMA RecallsPrincipal ==
    ASSUME TypeOK, Clamp(cfg, NaturalIn) > 0
    PROVE  Clamp(cfg, NaturalIn) \in Nat \ {0} /\ Clamp(cfg, NaturalIn) <= principal
<1>1. Total \in Nat /\ funds.liquid \in Nat /\ cfg.maxCap \in Nat /\ cfg \in Config
      /\ principal \in Nat
  BY DEF TypeOK, Funds, Config, Total
<1>2. Target(cfg, Total) \in Nat
  BY <1>1, TargetAndBand
<1>3. NaturalIn \in Int /\ NaturalIn <= principal
  BY <1>1, <1>2 DEF NaturalIn, Recall, Least
<1> QED
  BY <1>1, <1>3 DEF Clamp

----------------------------------------------------------------------------
(* The money flows, field by field.                                        *)

\* What Blend pays for a withdrawal.
Paid(a) == Least(a, funds.position)

LEMMA PaidBounds ==
    ASSUME TypeOK, NEW a \in Nat
    PROVE  Paid(a) \in Nat /\ Paid(a) <= a /\ Paid(a) <= funds.position
<1>1. funds.position \in Nat
  BY DEF TypeOK, Funds
<1> QED
  BY <1>1 DEF Paid, Least

\* Lending moves the amount from the pool's liquid side to its delegated
\* side, and through the handler's hands on to Blend.
LEMMA ToBlendResult ==
    ASSUME TypeOK, NEW a \in Nat
    PROVE  ToBlendFlow(a) =
             [liquid |-> funds.liquid - a, delegated |-> funds.delegated + a,
              position |-> funds.position + a, usdc |-> funds.usdc]
<1>1. funds \in Funds
  BY DEF TypeOK
<1> QED
  BY <1>1 DEF Funds, ToBlendFlow, WithdrawToDelegate, BlendSupply, Booked

\* A recall returns the whole amount to the pool; what Blend does not pay
\* comes out of the handler's own USDC.
LEMMA FromBlendResult ==
    ASSUME TypeOK, NEW a \in Nat
    PROVE  FromBlendFlow(a) =
             [liquid |-> funds.liquid + a, delegated |-> funds.delegated - a,
              position |-> funds.position - Paid(a), usdc |-> funds.usdc + Paid(a) - a]
<1>1. funds \in Funds /\ Paid(a) \in Nat
  BY PaidBounds DEF TypeOK
<1> QED
  BY <1>1 DEF Funds, FromBlendFlow, DepositFromDelegate, BlendWithdraw, Paid, Booked

\* Withdrawing everything brings what Blend pays for the largest amount.
LEMMA RedeemedIsPaid ==
    ASSUME TypeOK
    PROVE  /\ Redeemed \in Nat /\ Redeemed = Paid(I128_MAX)
           /\ AllWithdrawn =
                [liquid |-> funds.liquid, delegated |-> funds.delegated,
                 position |-> funds.position - Redeemed, usdc |-> funds.usdc + Redeemed]
<1>1. funds \in Funds /\ Paid(I128_MAX) \in Nat
  BY PaidBounds, WidthAssumption DEF TypeOK
<1>2. AllWithdrawn = [liquid |-> funds.liquid, delegated |-> funds.delegated,
                      position |-> funds.position - Paid(I128_MAX),
                      usdc |-> funds.usdc + Paid(I128_MAX)]
  BY <1>1 DEF Funds, AllWithdrawn, BlendWithdraw, Paid, Booked
<1>3. Redeemed = Paid(I128_MAX)
  BY <1>1, <1>2 DEF Redeemed, Funds
<1> QED
  BY <1>1, <1>2, <1>3

\* The unwind returns at most the principal as principal and the rest as a
\* gift; the handler's own USDC is what it was.
LEMMA UnwindResult ==
    ASSUME TypeOK
    PROVE  UnwindFlow =
             [liquid |-> funds.liquid + Redeemed,
              delegated |-> funds.delegated - Least(Redeemed, principal),
              position |-> funds.position - Redeemed, usdc |-> funds.usdc]
<1>1. funds \in Funds /\ Redeemed \in Nat /\ Least(Redeemed, principal) \in Nat
  BY RedeemedIsPaid DEF TypeOK, Least
<1>2. AllWithdrawn = [liquid |-> funds.liquid, delegated |-> funds.delegated,
                      position |-> funds.position - Redeemed,
                      usdc |-> funds.usdc + Redeemed]
  BY RedeemedIsPaid
<1> QED
  BY <1>1, <1>2 DEF Funds, UnwindFlow, Donate, DepositFromDelegate, Booked

\* The harvest leaves the principal invested and gives the rest to the pool.
LEMMA HarvestResult ==
    ASSUME TypeOK
    PROVE  /\ Resupplied \in Nat /\ Interest \in Nat
           /\ Resupplied <= principal /\ Resupplied + Interest = Redeemed
           /\ HarvestFlow =
                [liquid |-> funds.liquid + Interest, delegated |-> funds.delegated,
                 position |-> funds.position - Interest, usdc |-> funds.usdc]
<1>1. funds \in Funds /\ Redeemed \in Nat /\ principal \in Nat
  BY RedeemedIsPaid DEF TypeOK
<1>2. /\ Resupplied \in Nat /\ Interest \in Nat
      /\ Resupplied <= principal /\ Resupplied + Interest = Redeemed
  BY <1>1 DEF Resupplied, Interest, Least
<1>3. AllWithdrawn = [liquid |-> funds.liquid, delegated |-> funds.delegated,
                      position |-> funds.position - Redeemed,
                      usdc |-> funds.usdc + Redeemed]
  BY RedeemedIsPaid
<1> QED
  BY <1>1, <1>2, <1>3 DEF Funds, HarvestFlow, Donate, BlendSupply, Booked

----------------------------------------------------------------------------
(* The inductive invariant.  The two safety invariants are inductive       *)
(* together with the types, given that the principal stays representable:  *)
(* the withdrawal of i128::MAX then brings the whole position whenever it  *)
(* brings less than the principal.                                         *)

HandlerInv ==
    /\ TypeOK
    /\ PrincipalWithinDelegated
    /\ PrincipalBacked
    /\ principal <= I128_MAX

LEMMA InitHandlerInv == Init => HandlerInv
<1> SUFFICES ASSUME Init PROVE HandlerInv
  OBVIOUS
<1> USE HandlerAssumption, WidthAssumption
<1>1. cfg \in Config
  <2>1. PICK t \in TargetBps, b \in BandBps, f \in FloorBps, m \in MinTotals, c \in Cooldowns :
           /\ ValidTarget(t) /\ ValidBand(b) /\ ValidFloor(f, t, b) /\ m >= 0
           /\ cfg = [target |-> t, band |-> b, floor |-> f, minTotal |-> m,
                     maxCap |-> 0, minFloor |-> 0, cooldown |-> c]
    BY DEF Init
  <2>2. t \in Nat /\ b \in Nat /\ f \in Nat /\ m \in Nat /\ c \in Nat
    BY <2>1
  <2>3. t \in 1 .. BPS_DEN - 1 /\ b \in 0 .. BPS_DEN - 1 /\ f \in 0 .. BPS_DEN - 1
    BY <2>1, <2>2, ValidRatios DEF ValidTarget
  <2> QED
    BY <2>1, <2>2, <2>3 DEF Config
<1>2. routing \in Routing
  BY DEF Init, Routing
<1>3. /\ funds \in Funds /\ principal = 0
      /\ funds.delegated = 0 /\ funds.position = 0
  BY DEF Init, Funds
<1>4. blnd \in [claimable : Nat, paid : [Treasuries -> Nat]]
  BY DEF Init
<1>5. status \in Nat /\ now \in Nat /\ lastRebalanceTs \in Nat /\ lastHarvestTs \in Nat
      /\ paused \in BOOLEAN /\ loss \in BOOLEAN
  BY DEF Init
<1> QED
  BY <1>1, <1>2, <1>3, <1>4, <1>5
  DEF HandlerInv, TypeOK, PrincipalWithinDelegated, PrincipalBacked

\* What a step that lends, recalls, harvests or unwinds does to the books,
\* for both ways there are to ask for it.
LEMMA LendStep ==
    ASSUME HandlerInv, NEW a \in Nat, Completes(ToBlendFlow(a)), principal + a <= I128_MAX,
           funds' = ToBlendFlow(a), principal' = principal + a, loss' = loss
    PROVE  /\ funds' \in Funds /\ principal' \in Nat /\ principal' <= I128_MAX
           /\ PrincipalWithinDelegated' /\ PrincipalBacked'
<1> USE DEF HandlerInv, PrincipalWithinDelegated, PrincipalBacked
<1>1. funds' \in Funds
  BY DEF Completes
<1>2. /\ funds.delegated \in Nat /\ funds.position \in Nat /\ principal \in Nat
      /\ loss \in BOOLEAN
  BY DEF TypeOK, Funds
<1>3. funds'.delegated = funds.delegated + a /\ funds'.position = funds.position + a
  BY ToBlendResult
<1> QED
  BY <1>1, <1>2, <1>3, WidthAssumption

LEMMA RecallStep ==
    ASSUME HandlerInv, NEW a \in Nat, a <= principal, Completes(FromBlendFlow(a)),
           funds' = FromBlendFlow(a), principal' = Debit(a), loss' = loss
    PROVE  /\ funds' \in Funds /\ principal' \in Nat /\ principal' <= I128_MAX
           /\ PrincipalWithinDelegated' /\ PrincipalBacked'
<1> USE DEF HandlerInv, PrincipalWithinDelegated, PrincipalBacked
<1>1. funds' \in Funds
  BY DEF Completes
<1>2. /\ funds.delegated \in Nat /\ funds.position \in Nat /\ principal \in Nat
      /\ loss \in BOOLEAN
  BY DEF TypeOK, Funds
<1>3. /\ funds'.delegated = funds.delegated - a
      /\ funds'.position = funds.position - Paid(a)
  BY FromBlendResult
<1>4. Paid(a) \in Nat /\ Paid(a) <= a
  BY PaidBounds
<1>5. principal' = principal - a
  BY <1>2 DEF Debit
<1> QED
  BY <1>1, <1>2, <1>3, <1>4, <1>5, WidthAssumption

LEMMA HarvestStep ==
    ASSUME HandlerInv, Completes(HarvestFlow), funds' = HarvestFlow, principal' = Resupplied
    PROVE  /\ funds' \in Funds /\ principal' \in Nat /\ principal' <= I128_MAX
           /\ PrincipalWithinDelegated' /\ PrincipalBacked'
<1> USE DEF HandlerInv, PrincipalWithinDelegated, PrincipalBacked
<1>1. funds' \in Funds
  BY DEF Completes
<1>2. funds.delegated \in Nat /\ funds.position \in Nat /\ principal \in Nat
  BY DEF TypeOK, Funds
<1>3. /\ Resupplied \in Nat /\ Resupplied <= principal /\ Interest \in Nat
      /\ Resupplied + Interest = Redeemed
      /\ funds'.delegated = funds.delegated
      /\ funds'.position = funds.position - Interest
  BY HarvestResult
<1>4. Redeemed <= funds.position
  BY RedeemedIsPaid, PaidBounds, WidthAssumption
<1> QED
  BY <1>1, <1>2, <1>3, <1>4, WidthAssumption

\* The rest of the state keeps its type where a step leaves it alone.
Elsewhere ==
    /\ lastRebalanceTs \in Nat /\ lastHarvestTs \in Nat /\ now \in Nat
    /\ paused \in BOOLEAN /\ loss \in BOOLEAN
    /\ cfg \in Config
    /\ routing \in Routing
    /\ status \in Nat
    /\ blnd \in [claimable : Nat, paid : [Treasuries -> Nat]]

LEMMA TypeOKParts == TypeOK <=> principal \in Nat /\ funds \in Funds /\ Elsewhere
  BY DEF TypeOK, Elsewhere

\* Claiming keeps the books on BLND in order.
LEMMA ClaimType ==
    ASSUME TypeOK, Claim
    PROVE  blnd' \in [claimable : Nat, paid : [Treasuries -> Nat]]
<1>1. /\ blnd \in [claimable : Nat, paid : [Treasuries -> Nat]]
      /\ routing.treasury \in Treasuries
  BY DEF TypeOK, Routing
<1>2. Routed \in Nat /\ Routed <= blnd.claimable
  BY <1>1 DEF Routed
<1>3. blnd' = [blnd EXCEPT !.claimable = @ - Routed,
                           !.paid[routing.treasury] = @ + Routed]
  BY DEF Claim
<1> DEFINE paid == [blnd.paid EXCEPT ![routing.treasury] = @ + Routed]
<1>4. paid \in [Treasuries -> Nat]
  BY <1>1, <1>2
<1>5. blnd' = [claimable |-> blnd.claimable - Routed, paid |-> paid]
  BY <1>1, <1>3
<1> QED
  BY <1>1, <1>2, <1>4, <1>5

\* Every setter leaves valid settings: those it does not check on its own
\* are amounts and times, and it rejects the ratios and ids it should.
LEMMA SettersKeepTypes ==
    ASSUME cfg \in Config, routing \in Routing, Setter
    PROVE  cfg' \in Config /\ routing' \in Routing
<1>1. cfg.target \in Nat /\ cfg.band \in Nat /\ cfg.target < BPS_DEN
  BY ConfigRatios
<1> USE HandlerAssumption
<1>2. CASE \/ \E a \in MaxCaps : SetMaxRebalanceAmount(a)
           \/ \E a \in MinFloors : SetMinRebalanceAmount(a)
           \/ \E a \in MinTotals : SetMinTotalUsdc(a)
           \/ \E secs \in Cooldowns : SetRebalanceCooldownSecs(secs)
  <2>1. CASE \E a \in MaxCaps : SetMaxRebalanceAmount(a)
    BY <2>1 DEF SetMaxRebalanceAmount, Configure, Config
  <2>2. CASE \E a \in MinFloors : SetMinRebalanceAmount(a)
    BY <2>2 DEF SetMinRebalanceAmount, Configure, Config
  <2>3. CASE \E a \in MinTotals : SetMinTotalUsdc(a)
    BY <2>3 DEF SetMinTotalUsdc, Configure, Config
  <2>4. CASE \E secs \in Cooldowns : SetRebalanceCooldownSecs(secs)
    BY <2>4 DEF SetRebalanceCooldownSecs, Configure, Config
  <2> QED
    BY <1>2, <2>1, <2>2, <2>3, <2>4
<1>3. ASSUME NEW bps \in TargetBps, SetTargetRatioBps(bps)
      PROVE  cfg' \in Config /\ routing' \in Routing
  <2>1. bps \in 1 .. BPS_DEN - 1
    BY <1>3, ValidRatios DEF SetTargetRatioBps
  <2> QED
    BY <1>3, <2>1 DEF SetTargetRatioBps, Configure, Config
<1>4. ASSUME NEW bps \in BandBps, SetRebalanceBandBps(bps)
      PROVE  cfg' \in Config /\ routing' \in Routing
  <2>1. bps \in 0 .. BPS_DEN - 1
    BY <1>4, ValidRatios DEF SetRebalanceBandBps
  <2> QED
    BY <1>4, <2>1 DEF SetRebalanceBandBps, Configure, Config
<1>5. ASSUME NEW bps \in FloorBps, SetCriticalLiquidFloorBps(bps)
      PROVE  cfg' \in Config /\ routing' \in Routing
  <2>1. bps \in 0 .. BPS_DEN - 1
    BY <1>1, <1>5, ValidRatios DEF SetCriticalLiquidFloorBps
  <2> QED
    BY <1>5, <2>1 DEF SetCriticalLiquidFloorBps, Configure, Config
<1>6. CASE \/ \E t \in Treasuries : SetBlndTreasury(t)
           \/ \E id \in ReserveIds : SetUsdcReserveTokenId(id)
  BY <1>6 DEF SetBlndTreasury, SetUsdcReserveTokenId, Reroute, Routing
<1> QED
  BY <1>2, <1>3, <1>4, <1>5, <1>6 DEF Setter

LEMMA NextHandlerInv == HandlerInv /\ [Next]_vars => HandlerInv'
<1> SUFFICES ASSUME HandlerInv, [Next]_vars PROVE HandlerInv'
  OBVIOUS
<1> USE HandlerAssumption, WidthAssumption
<1>a. TypeOK /\ Elsewhere /\ principal \in Nat /\ funds \in Funds
  BY TypeOKParts DEF HandlerInv
<1>b. SUFFICES /\ principal' \in Nat /\ funds' \in Funds /\ Elsewhere'
               /\ PrincipalWithinDelegated' /\ PrincipalBacked' /\ principal' <= I128_MAX
  BY DEF HandlerInv, TypeOK, Elsewhere
<1>1. CASE RebalanceToBlend
  <2>1. Clamp(cfg, NaturalOut) \in Nat
    BY <1>1, <1>a, LendsSomething DEF RebalanceToBlend
  <2>2. Elsewhere'
    BY <1>1, <1>a DEF RebalanceToBlend, Elsewhere
  <2> QED
    BY <1>1, <2>1, <2>2, LendStep DEF RebalanceToBlend
<1>2. CASE RebalanceFromBlend
  <2>1. Clamp(cfg, NaturalIn) \in Nat /\ Clamp(cfg, NaturalIn) <= principal
    BY <1>2, <1>a, RecallsPrincipal DEF RebalanceFromBlend
  <2>2. Elsewhere'
    BY <1>2, <1>a DEF RebalanceFromBlend, Elsewhere
  <2> QED
    BY <1>2, <2>1, <2>2, RecallStep DEF RebalanceFromBlend
<1>3. CASE RebalanceSkips \/ RebalanceHolds
  BY <1>3, <1>a DEF RebalanceSkips, RebalanceHolds, Elsewhere, handlerVars, worldVars,
     HandlerInv, PrincipalWithinDelegated, PrincipalBacked
<1>4. CASE HarvestEmissions \/ HarvestPartially
  <2>1. blnd' \in [claimable : Nat, paid : [Treasuries -> Nat]]
    BY <1>4, <1>a, ClaimType DEF HarvestEmissions, HarvestPartially
  <2>2. lastHarvestTs' \in Nat
    BY <1>4, <1>a DEF HarvestEmissions, HarvestPartially, HarvestEnds, Elsewhere
  <2> QED
    BY <1>4, <1>a, <2>1, <2>2 DEF HarvestEmissions, HarvestPartially, Elsewhere,
       HandlerInv, PrincipalWithinDelegated, PrincipalBacked
<1>5. CASE HarvestRedeems
  <2>1. blnd' \in [claimable : Nat, paid : [Treasuries -> Nat]]
    BY <1>5, <1>a, ClaimType DEF HarvestRedeems
  <2>2. lastHarvestTs' \in Nat
    BY <1>5, <1>a DEF HarvestRedeems, HarvestEnds, Elsewhere
  <2>3. Elsewhere'
    BY <1>5, <1>a, <2>1, <2>2 DEF HarvestRedeems, Elsewhere
  <2> QED
    BY <1>5, <2>3, HarvestStep DEF HarvestRedeems
<1>6. CASE EmergencyUnwind
  <2>1. Elsewhere'
    BY <1>6, <1>a DEF EmergencyUnwind, Elsewhere
  <2>2. funds' \in Funds
    BY <1>6, <1>a DEF EmergencyUnwind, Completes
  <2>3. principal' = 0
    BY <1>6 DEF EmergencyUnwind
  <2> QED
    BY <2>1, <2>2, <2>3 DEF PrincipalWithinDelegated, PrincipalBacked, Funds
<1>7. CASE Manual
  <2>1. PICK a \in ManualAmounts : ManualToBlend(a) \/ ManualFromBlend(a)
    BY <1>7 DEF Manual
  <2>2. a \in Nat
    BY <2>1 DEF ManualToBlend, ManualFromBlend
  <2>3. Elsewhere'
    BY <1>a, <2>1 DEF ManualToBlend, ManualFromBlend, Elsewhere
  <2>4. CASE ManualToBlend(a)
    BY <2>2, <2>3, <2>4, LendStep DEF ManualToBlend
  <2>5. CASE ManualFromBlend(a)
    BY <2>2, <2>3, <2>5, RecallStep DEF ManualFromBlend
  <2> QED
    BY <2>1, <2>4, <2>5
<1>8. CASE Pause \/ Unpause
  BY <1>8, <1>a DEF Pause, Unpause, PauseSet, Elsewhere, worldVars,
     HandlerInv, PrincipalWithinDelegated, PrincipalBacked
<1>9. CASE Setter
  <2>1. cfg' \in Config /\ routing' \in Routing
    BY <1>9, <1>a, SettersKeepTypes DEF Elsewhere
  <2>2. UNCHANGED <<principal, lastRebalanceTs, lastHarvestTs, paused, worldVars, loss>>
    BY <1>9 DEF Setter, Configure, Reroute,
       SetMaxRebalanceAmount, SetMinRebalanceAmount, SetMinTotalUsdc, SetTargetRatioBps,
       SetRebalanceBandBps, SetCriticalLiquidFloorBps, SetRebalanceCooldownSecs,
       SetBlndTreasury, SetUsdcReserveTokenId
  <2> QED
    BY <1>a, <2>1, <2>2 DEF Elsewhere, worldVars,
       HandlerInv, PrincipalWithinDelegated, PrincipalBacked
<1>10. CASE Environment
  <2>1. UNCHANGED handlerVars
    BY <1>10 DEF Environment, World, Trade, Accrue, WriteDown, SetStatus, Emit, Stray, Tick
  <2>2. status' \in Nat /\ now' \in Nat
    BY <1>10, <1>a DEF Environment, Trade, Accrue, WriteDown, SetStatus, Emit, Stray,
       Tick, Elsewhere
  <2>3. loss' \in BOOLEAN
    BY <1>10, <1>a DEF Environment, Trade, Accrue, WriteDown, SetStatus, Emit, Stray,
       Tick, Elsewhere
  <2>4. blnd' \in [claimable : Nat, paid : [Treasuries -> Nat]]
    BY <1>10, <1>a DEF Environment, Trade, Accrue, WriteDown, SetStatus, Emit, Stray,
       Tick, Elsewhere
  <2>5. /\ funds' \in Funds /\ funds'.delegated = funds.delegated
        /\ funds'.position >= funds.position \/ loss'
        /\ loss => loss'
    BY <1>10, <1>a DEF Environment, Trade, Accrue, WriteDown, SetStatus, Emit, Stray,
       Tick, Funds, Elsewhere
  <2> QED
    BY <1>a, <2>1, <2>2, <2>3, <2>4, <2>5 DEF handlerVars, Elsewhere, Funds,
       HandlerInv, PrincipalWithinDelegated, PrincipalBacked
<1>11. CASE UNCHANGED vars
  BY <1>11, <1>a DEF vars, handlerVars, worldVars, Elsewhere,
     HandlerInv, PrincipalWithinDelegated, PrincipalBacked
<1> QED
  BY <1>1, <1>2, <1>3, <1>4, <1>5, <1>6, <1>7, <1>8, <1>9, <1>10, <1>11
  DEF Next, Handler, Rebalance, HarvestYield

\* The inductive invariant holds in every reachable state.
THEOREM HandlerInvariant == Spec => []HandlerInv
  BY InitHandlerInv, NextHandlerInv, PTL DEF Spec

----------------------------------------------------------------------------
(* Safety.                                                                 *)

\* The handler's storage and the accounts it moves money between keep their
\* types: no account and no principal ever falls below zero.
THEOREM TypeCorrect == Spec => []TypeOK
<1>1. HandlerInv => TypeOK
  BY DEF HandlerInv
<1> QED
  BY <1>1, HandlerInvariant, PTL

\* principal_supplied never exceeds the pool's delegated counter, whatever
\* Blend writes down and in whatever order the entry points are called.
THEOREM PrincipalStaysWithinDelegated == Spec => []PrincipalWithinDelegated
<1>1. HandlerInv => PrincipalWithinDelegated
  BY DEF HandlerInv
<1> QED
  BY <1>1, HandlerInvariant, PTL

\* The position in Blend covers principal_supplied until Blend writes it
\* down, and again once a harvest or an unwind has noticed.
THEOREM PrincipalStaysBacked == Spec => []PrincipalBacked
<1>1. HandlerInv => PrincipalBacked
  BY DEF HandlerInv
<1> QED
  BY <1>1, HandlerInvariant, PTL

\* emergency_unwind is never blocked by the pool's accounting, and any part
\* of a backed principal can be recalled.
THEOREM WayHomeStaysOpen == Spec => []WayHomeOpen
<1>1. ASSUME HandlerInv PROVE WayHomeOpen
  <2>1. /\ TypeOK /\ funds.liquid \in Nat /\ funds.delegated \in Nat
        /\ funds.position \in Nat /\ funds.usdc \in Nat /\ principal \in Nat
        /\ principal <= funds.delegated /\ funds.position <= I128_MAX
    BY <1>1, WidthAssumption DEF HandlerInv, TypeOK, Funds, PrincipalWithinDelegated
  <2>2. Redeemed \in Nat /\ Redeemed <= funds.position
    BY <2>1, RedeemedIsPaid, PaidBounds, WidthAssumption
  <2>3. UnwindFlow \in Funds
    BY <2>1, <2>2, UnwindResult, WidthAssumption DEF Funds, Least
  <2>4. ASSUME ~loss, NEW a \in 1 .. principal PROVE FromBlendFlow(a) \in Funds
    <3>1. a \in Nat /\ a <= funds.position /\ a <= funds.delegated
      BY <1>1, <2>1, <2>4 DEF HandlerInv, PrincipalBacked
    <3>2. Paid(a) = a
      BY <2>1, <3>1 DEF Paid, Least
    <3> QED
      BY <2>1, <3>1, <3>2, FromBlendResult, WidthAssumption DEF Funds
  <2> QED
    BY <2>3, <2>4 DEF WayHomeOpen
<1> QED
  BY <1>1, HandlerInvariant, PTL

\* A rebalance never decides on a move that the contracts undo: from a
\* handler without USDC, with every write-down noticed and the amounts
\* within i128, the pool has what is lent, and Blend has what is recalled.
THEOREM RebalancesSucceed == Spec => []MovesAreFeasible
<1>1. ASSUME HandlerInv, NoResidue(funds), ~loss, Over,
             funds.position + funds.liquid <= I128_MAX
      PROVE  LET a == Clamp(cfg, NaturalOut)
             IN  Completes(ToBlendFlow(a)) /\ principal + a <= I128_MAX
  <2> DEFINE a == Clamp(cfg, NaturalOut)
  <2>1. /\ TypeOK /\ funds.liquid \in Nat /\ funds.delegated \in Nat
        /\ funds.position \in Nat /\ funds.usdc = 0 /\ principal \in Nat
        /\ principal <= funds.position
    BY <1>1, WidthAssumption DEF HandlerInv, TypeOK, Funds, NoResidue, PrincipalBacked
  <2>2. a \in Nat /\ a <= funds.liquid
    BY <1>1, <2>1, LendsSomething
  <2> HIDE DEF a
  <2>3. funds.position + a \in 0 .. I128_MAX /\ principal + a <= I128_MAX
    BY <1>1, <2>1, <2>2, WidthAssumption
  <2>4. ToBlendFlow(a) \in Funds /\ ToBlendFlow(a).usdc = 0
    BY <2>1, <2>2, <2>3, ToBlendResult DEF Funds
  <2> QED
    BY <2>3, <2>4 DEF Completes, NoResidue, a
<1>2. ASSUME HandlerInv, NoResidue(funds), ~loss, Clamp(cfg, NaturalIn) > 0
      PROVE  Completes(FromBlendFlow(Clamp(cfg, NaturalIn)))
  <2> DEFINE a == Clamp(cfg, NaturalIn)
  <2>1. /\ TypeOK /\ funds.liquid \in Nat /\ funds.delegated \in Nat
        /\ funds.position \in 0 .. I128_MAX /\ funds.position \in Nat
        /\ funds.usdc = 0 /\ principal \in Nat
        /\ principal <= funds.position /\ principal <= funds.delegated
    BY <1>2, WidthAssumption
    DEF HandlerInv, TypeOK, Funds, NoResidue, PrincipalBacked, PrincipalWithinDelegated
  <2>2. a \in Nat /\ a <= principal
    BY <1>2, <2>1, RecallsPrincipal
  <2> HIDE DEF a
  <2>3. Paid(a) = a
    BY <2>1, <2>2 DEF Paid, Least
  <2>4. funds.position - a \in 0 .. I128_MAX /\ funds.delegated - a \in Nat
    BY <2>1, <2>2, WidthAssumption
  <2>5. FromBlendFlow(a) =
          [liquid |-> funds.liquid + a, delegated |-> funds.delegated - a,
           position |-> funds.position - a, usdc |-> funds.usdc + a - a]
    BY <2>1, <2>2, <2>3, FromBlendResult, Zenon
  <2>6. funds.usdc + a - a = 0 /\ funds.liquid + a \in Nat
    BY <2>1, <2>2
  <2>7. FromBlendFlow(a) \in Funds /\ FromBlendFlow(a).usdc = 0
    BY <2>4, <2>5, <2>6 DEF Funds
  <2> QED
    BY <2>7 DEF Completes, NoResidue, a
<1>3. HandlerInv => MovesAreFeasible
  BY <1>1, <1>2 DEF MovesAreFeasible
<1> QED
  BY <1>3, HandlerInvariant, PTL

\* A handler without USDC ends every money flow without USDC, so that
\* assert_no_usdc_residue never rejects what the entry points themselves do.
THEOREM NoLeak == Spec => []NoEntryPointLeaks
<1>1. ASSUME HandlerInv, NoResidue(funds)
      PROVE  /\ \A a \in 1 .. funds.liquid : NoResidue(ToBlendFlow(a))
             /\ \A a \in 1 .. principal :
                   FromBlendFlow(a) \in Funds => NoResidue(FromBlendFlow(a))
             /\ NoResidue(UnwindFlow) /\ NoResidue(HarvestFlow)
  <2>1. TypeOK /\ funds.usdc = 0 /\ funds.liquid \in Nat /\ principal \in Nat
    BY <1>1 DEF HandlerInv, TypeOK, Funds, NoResidue
  <2>2. \A a \in 1 .. funds.liquid : NoResidue(ToBlendFlow(a))
    BY <2>1, ToBlendResult DEF NoResidue
  <2>3. ASSUME NEW a \in 1 .. principal, FromBlendFlow(a) \in Funds
        PROVE  NoResidue(FromBlendFlow(a))
    <3>1. FromBlendFlow(a).usdc = Paid(a) - a
      BY <2>1, FromBlendResult, PaidBounds
    <3>2. Paid(a) \in Nat /\ Paid(a) <= a /\ FromBlendFlow(a).usdc \in Nat
      BY <2>1, <2>3, PaidBounds DEF Funds
    <3> QED
      BY <2>1, <3>1, <3>2 DEF NoResidue
  <2>4. NoResidue(UnwindFlow) /\ NoResidue(HarvestFlow)
    BY <2>1, UnwindResult, HarvestResult DEF NoResidue
  <2> QED
    BY <2>2, <2>3, <2>4
<1>2. HandlerInv => NoEntryPointLeaks
  BY <1>1 DEF NoEntryPointLeaks
<1> QED
  BY <1>2, HandlerInvariant, PTL

=============================================================================
