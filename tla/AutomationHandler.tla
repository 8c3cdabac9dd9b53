------------------------- MODULE AutomationHandler -------------------------
(***************************************************************************)
(* The AutomationHandler contract with the two contracts whose money it    *)
(* moves: the Phoenix blended pool (liquid balance and delegated counter)  *)
(* and the Blend lending pool (the handler's b-token position).            *)
(*                                                                         *)
(* A Soroban invocation is atomic: an entry point that panics, returns an  *)
(* Err, or whose nested call reverts, leaves no trace.  An action is       *)
(* therefore one successful invocation; a failing one is the absence of a  *)
(* step.                                                                   *)
(*                                                                         *)
(* A definition X_Y is a faulty variant of X that the runs put in X's      *)
(* place, to show that a property notices the fault.                       *)
(***************************************************************************)
EXTENDS RebalancePolicy, Sequences

CONSTANTS
    TargetBps, BandBps, FloorBps,       \* ratios the admin tries
    MinTotals, MaxCaps, MinFloors,      \* amounts the admin tries
    Cooldowns,                          \* cooldowns the admin tries
    ManualAmounts,                      \* amounts of the manual entry points
    ReserveIds,                         \* reserve token ids the admin tries
    UsdcReserveId,                      \* the id that earns USDC's emissions
    Treasuries,                         \* addresses that may receive BLND
    Statuses,                           \* Blend pool statuses that occur
    InitLiquid,                         \* the pool's USDC at deployment
    MaxTotal,                           \* bound on the pool's USDC
    MaxInterest,                        \* bound on interest not yet harvested
    WriteDowns,                         \* what a write-down may leave of the position
    MaxStray,                           \* bound on USDC sent to the handler
    MaxBlnd,                            \* bound on BLND emissions
    MaxTime                             \* bound on the ledger timestamp

ASSUME HandlerAssumption ==
    /\ TargetBps \subseteq Nat /\ BandBps \subseteq Nat /\ FloorBps \subseteq Nat
    /\ MinTotals \subseteq Int /\ MaxCaps \subseteq Int /\ MinFloors \subseteq Int
    /\ Cooldowns \subseteq Nat /\ ManualAmounts \subseteq Int
    /\ ReserveIds \subseteq Nat /\ UsdcReserveId \in Nat
    /\ Statuses \subseteq Nat /\ InitLiquid \subseteq Nat
    /\ MaxTotal \in Nat /\ MaxInterest \in Nat /\ WriteDowns \subseteq Nat
    /\ MaxStray \in Nat /\ MaxBlnd \in Nat /\ MaxTime \in Nat /\ MaxTime < U64_MAX

VARIABLES
    \* storage of the handler
    principal,          \* principal_supplied
    lastRebalanceTs,
    lastHarvestTs,
    paused,
    cfg,                \* the tunables RebalancePolicy reads
    routing,            \* blnd_treasury and usdc_reserve_token_id
    \* the contracts around it
    funds,              \* liquid, delegated: the pool; position: Blend; usdc: the handler
    status,             \* Blend's PoolConfig.status
    blnd,               \* claimable emissions and what each treasury received
    now,                \* ledger timestamp
    \* observations
    events,             \* events of the latest handler invocation
    loss                \* Blend wrote the position down and no call noticed yet

handlerVars == <<principal, lastRebalanceTs, lastHarvestTs, paused, cfg, routing>>
worldVars == <<funds, status, blnd, now>>
vars == <<handlerVars, worldVars, events, loss>>

\* Ratios keep what the constructor demands of each of them alone.
Config == [target: 1 .. BPS_DEN - 1, band: 0 .. BPS_DEN - 1, floor: 0 .. BPS_DEN - 1,
           minTotal: Nat, maxCap: Nat, minFloor: Nat, cooldown: Nat]

\* The ids of b-tokens, which earn for suppliers, are odd.
Routing == [treasury: Treasuries, reserveId: {id \in Nat : id % 2 = 1}]

\* Blend values the position in i128.
Funds == [liquid: Nat, delegated: Nat, position: 0 .. I128_MAX, usdc: Nat]

TypeOK ==
    /\ principal \in Nat
    /\ lastRebalanceTs \in Nat /\ lastHarvestTs \in Nat /\ now \in Nat
    /\ paused \in BOOLEAN /\ loss \in BOOLEAN
    /\ cfg \in Config
    /\ routing \in Routing
    /\ funds \in Funds
    /\ status \in Nat
    /\ blnd \in [claimable: Nat, paid: [Treasuries -> Nat]]

BLEND_HEALTHY_STATUS_MAX == 3
BlendHealthy == status <= BLEND_HEALTHY_STATUS_MAX

Total == funds.liquid + funds.delegated

----------------------------------------------------------------------------
(* Nested calls.  Each moves USDC between accounts.  It reverts, and the   *)
(* invocation with it, when a balance or the pool's delegated counter      *)
(* would fall below zero, or the position outgrow its type: when the       *)
(* result is not in Funds.                                                 *)

\* The changes of the four accounts, in the order of the record.
Booked(f, toLiquid, toDelegated, toPosition, toHandler) ==
    [liquid    |-> f.liquid + toLiquid,
     delegated |-> f.delegated + toDelegated,
     position  |-> f.position + toPosition,
     usdc      |-> f.usdc + toHandler]

\* The pool hands liquid USDC to the handler and counts it as delegated.
WithdrawToDelegate(f, a) == Booked(f, -a, a, 0, a)

\* The pool takes delegated USDC back.
DepositFromDelegate(f, a) == Booked(f, a, -a, 0, -a)

\* The pool takes a donation to its liquidity providers.
Donate(f, a) == Booked(f, a, 0, 0, -a)

\* Blend's submit(Supply) takes exactly the amount.
BlendSupply(f, a) == Booked(f, 0, 0, a, -a)

\* Blend's submit(Withdraw) pays no more than the position is worth.
BlendWithdraw(f, a) == Booked(f, 0, 0, -Least(a, f.position), Least(a, f.position))

----------------------------------------------------------------------------
(* Money flow of the entry points, from the funds before the call.  The    *)
(* code skips nested calls with amount zero; they would change nothing.    *)

ToBlendFlow(a) == BlendSupply(WithdrawToDelegate(funds, a), a)

FromBlendFlow(a) == DepositFromDelegate(BlendWithdraw(funds, a), a)

\* Faulty variant.
Debit_Forgotten(a) == principal

\* principal_supplied after a recall: (principal - amount).max(0)
Debit(a) == IF principal > a THEN principal - a ELSE 0

\* i128::MAX asks for the whole position; the handler measures what came by
\* the growth of its own balance.
AllWithdrawn == BlendWithdraw(funds, I128_MAX)
Redeemed == AllWithdrawn.usdc - funds.usdc

\* Faulty variant.
UnwindFlow_DepositsAll == DepositFromDelegate(AllWithdrawn, Redeemed)

\* Faulty variant.
UnwindFlow_DonatesAll == Donate(AllWithdrawn, Redeemed)

\* emergency_unwind: deposit up to the principal, donate the rest.
UnwindFlow ==
    LET back == Least(Redeemed, principal)
    IN  Donate(DepositFromDelegate(AllWithdrawn, back), Redeemed - back)

\* Faulty variant.
Resupplied_Compounds == Redeemed

\* execute_harvest_yield: supply up to the principal again, donate the rest.
Resupplied == Least(principal, Redeemed)
Interest == Redeemed - Resupplied

\* Faulty variant.
HarvestFlow_KeepsInterest == BlendSupply(AllWithdrawn, Resupplied)

HarvestFlow == Donate(BlendSupply(AllWithdrawn, Resupplied), Interest)

NoResidue(f) == f.usdc = 0

\* The flow reverts nowhere, and passes assert_no_usdc_residue.
Completes(f) == f \in Funds /\ NoResidue(f)

----------------------------------------------------------------------------
(* Events, as in events.rs.                                                *)

RebalanceExecuted(dir, a, liquidAfter, delegatedAfter, principalAfter) ==
    [type |-> "RebalanceExecuted", direction |-> dir, amount |-> a,
     liquid |-> liquidAfter, delegated |-> delegatedAfter,
     principal |-> principalAfter]

CriticalRebalance(remaining) ==
    [type |-> "CriticalRebalance", bypassed |-> remaining]

CriticalBypassUnavailable == [type |-> "CriticalBypassUnavailable"]

HarvestPartial(routed) == [type |-> "HarvestPartial", routed |-> routed]

HarvestCompleted(donated, routed, principalAfter) ==
    [type |-> "HarvestCompleted", donated |-> donated, routed |-> routed,
     principal |-> principalAfter]

HarvestSkipped(reason) == [type |-> "HarvestSkipped", reason |-> reason]

BadDebtDetected(before, redeemable) ==
    [type |-> "BadDebtDetected", principal |-> before,
     redeemable |-> redeemable, shortfall |-> before - redeemable]

EmergencyUnwound(redeemed, before) ==
    [type |-> "EmergencyUnwound", redeemed |-> redeemed, principal |-> before]

PauseToggled(p) == [type |-> "PauseToggled", paused |-> p]

ConfigUpdated(field, value) ==
    [type |-> "ConfigUpdated", field |-> field, value |-> value]

AddressConfigUpdated(field, value) ==
    [type |-> "AddressConfigUpdated", field |-> field, value |-> value]

----------------------------------------------------------------------------
(* __constructor, once the pool holds InitLiquid and nothing is delegated. *)

Init ==
    /\ principal = 0 /\ lastRebalanceTs = 0 /\ lastHarvestTs = 0
    /\ paused = FALSE
    /\ \E t \in TargetBps, b \in BandBps, f \in FloorBps, m \in MinTotals, c \in Cooldowns :
          /\ ValidTarget(t) /\ ValidBand(b) /\ ValidFloor(f, t, b) /\ m >= 0
          /\ cfg = [target |-> t, band |-> b, floor |-> f, minTotal |-> m,
                    maxCap |-> 0, minFloor |-> 0, cooldown |-> c]
    /\ \E a \in Treasuries, r \in ReserveIds :
          r % 2 = 1 /\ routing = [treasury |-> a, reserveId |-> r]
    /\ \E l \in InitLiquid :
          funds = [liquid |-> l, delegated |-> 0, position |-> 0, usdc |-> 0]
    /\ status \in Statuses
    /\ blnd = [claimable |-> 0, paid |-> [t \in Treasuries |-> 0]]
    /\ now = 0
    /\ events = <<>> /\ loss = FALSE

----------------------------------------------------------------------------
(* execute_rebalance, dispatched by verify_xlm unless the handler is       *)
(* paused.                                                                 *)

\* Past the zero-pool check and the checked arithmetic.
Computable == Total > 0 /\ ~Overflows(cfg, funds.liquid, Total)

Bypassing ==
    /\ IsCritical(cfg, funds.liquid, Total)
    /\ CooldownActive(cfg, now, lastRebalanceTs)

Gate == GateOpen(cfg, funds.liquid, Total, now, lastRebalanceTs)
Over == OverLiquid(cfg, funds.liquid, Total)
Under == UnderLiquid(cfg, funds.liquid, Total)
NaturalOut == Surplus(cfg, funds.liquid, Total)
NaturalIn == Recall(cfg, funds.liquid, Total, principal)

\* Everything before the choice of a direction lets the call through.
Reaches ==
    /\ ~paused /\ BlendHealthy
    /\ Total >= cfg.minTotal
    /\ Computable
    /\ Gate

\* Faulty variant.
RebalanceSkips_Postpones ==
    /\ ~paused /\ BlendHealthy /\ Computable /\ ~Gate
    /\ lastRebalanceTs' = now
    /\ events' = <<>>
    /\ UNCHANGED <<principal, lastHarvestTs, paused, cfg, routing, worldVars, loss>>

\* The early returns: nothing is moved, the residue is not looked at.
RebalanceSkips ==
    /\ ~paused
    /\ \/ ~BlendHealthy
       \/ Total < cfg.minTotal
       \/ Computable /\ ~Gate
       \/ Computable /\ Over /\ Dust(cfg, NaturalOut)
       \/ Computable /\ Under /\ Dust(cfg, NaturalIn)
    /\ events' = <<>>
    /\ UNCHANGED <<handlerVars, worldVars, loss>>

RebalanceToBlend ==
    /\ Reaches /\ Over /\ ~Dust(cfg, NaturalOut)
    /\ LET a == Clamp(cfg, NaturalOut)
       IN  /\ Completes(ToBlendFlow(a)) /\ funds' = ToBlendFlow(a)
           /\ principal + a <= I128_MAX
           /\ principal' = principal + a
           /\ events' = <<RebalanceExecuted("toBlend", a, funds.liquid - a,
                                            funds.delegated + a, principal + a)>>
    /\ lastRebalanceTs' = now
    /\ UNCHANGED <<lastHarvestTs, paused, cfg, routing, status, blnd, now, loss>>

RebalanceFromBlend ==
    /\ Reaches /\ Under /\ ~Dust(cfg, NaturalIn)
    /\ LET a == Clamp(cfg, NaturalIn)
       IN  /\ a > 0
           /\ Completes(FromBlendFlow(a)) /\ funds' = FromBlendFlow(a)
           /\ principal' = Debit(a)
           /\ events' =
                <<RebalanceExecuted("fromBlend", a, funds.liquid + a,
                                    funds.delegated - a, Debit(a))>>
                \o (IF Bypassing
                    THEN <<CriticalRebalance(CooldownEnds(cfg, lastRebalanceTs) - now)>>
                    ELSE <<>>)
    /\ lastRebalanceTs' = now
    /\ UNCHANGED <<lastHarvestTs, paused, cfg, routing, status, blnd, now, loss>>

\* Faulty variant.
RebalanceHolds_SpendsCooldown ==
    /\ Reaches /\ ~Over /\ ~Under /\ NoResidue(funds)
    /\ lastRebalanceTs' = now
    /\ events' = <<>>
    /\ UNCHANGED <<principal, lastHarvestTs, paused, cfg, routing, worldVars, loss>>

\* Within the band, or nothing to pull back: the residue is checked, and a
\* bypass that had nothing to pull is announced.
RebalanceHolds ==
    /\ Reaches /\ ~Over
    /\ Under => ~Dust(cfg, NaturalIn) /\ Clamp(cfg, NaturalIn) = 0
    /\ NoResidue(funds)
    /\ events' = IF Under /\ Bypassing THEN <<CriticalBypassUnavailable>> ELSE <<>>
    /\ UNCHANGED <<handlerVars, worldVars, loss>>

----------------------------------------------------------------------------
(* execute_harvest_yield, dispatched the same way.  The claim pays first;  *)
(* it is rolled back only if the whole invocation is.                      *)

Routed == IF routing.reserveId = UsdcReserveId THEN blnd.claimable ELSE 0

Claim == blnd' = [blnd EXCEPT !.claimable = @ - Routed,
                              !.paid[routing.treasury] = @ + Routed]

\* Faulty variant.
HarvestEnds_OldPrincipal(seen, donated, principalAfter) ==
    /\ lastHarvestTs' = now
    /\ events' = seen \o <<HarvestCompleted(donated, Routed, principal)>>

\* work_done decides between HarvestCompleted and HarvestSkipped.
HarvestEnds(seen, donated, principalAfter) ==
    IF Routed > 0 \/ donated > 0
    THEN /\ lastHarvestTs' = now
         /\ events' = seen \o <<HarvestCompleted(donated, Routed, principalAfter)>>
    ELSE /\ UNCHANGED lastHarvestTs
         /\ events' = seen \o <<HarvestSkipped(
                IF ~BlendHealthy THEN "frozen"
                ELSE IF principal = 0 THEN "noprin" ELSE "noyield")>>

\* No principal to work with, or Blend is not usable: BLND only.
HarvestEmissions ==
    /\ ~paused
    /\ principal = 0 \/ ~BlendHealthy
    /\ Claim
    /\ HarvestEnds(<<>>, 0, principal)
    /\ NoResidue(funds)
    /\ UNCHANGED <<principal, lastRebalanceTs, paused, cfg, routing, funds, status, now, loss>>

\* Faulty variant.
HarvestPartially_UndoesClaim ==
    /\ ~paused
    /\ principal > 0 /\ BlendHealthy
    /\ HarvestEnds(<<HarvestPartial(Routed)>>, 0, principal)
    /\ NoResidue(funds)
    /\ UNCHANGED <<principal, lastRebalanceTs, paused, cfg, routing, worldVars, loss>>

\* try_submit(Withdraw) failed: the claim stands.
HarvestPartially ==
    /\ ~paused
    /\ principal > 0 /\ BlendHealthy
    /\ Claim
    /\ HarvestEnds(<<HarvestPartial(Routed)>>, 0, principal)
    /\ NoResidue(funds)
    /\ UNCHANGED <<principal, lastRebalanceTs, paused, cfg, routing, funds, status, now, loss>>

HarvestRedeems ==
    /\ ~paused
    /\ principal > 0 /\ BlendHealthy
    /\ Claim
    /\ Completes(HarvestFlow) /\ funds' = HarvestFlow
    /\ principal' = Resupplied
    /\ HarvestEnds(IF Redeemed < principal
                   THEN <<BadDebtDetected(principal, Redeemed)>> ELSE <<>>,
                   Interest, Resupplied)
    /\ loss' = FALSE
    /\ UNCHANGED <<lastRebalanceTs, paused, cfg, routing, status, now>>

----------------------------------------------------------------------------
(* Entry points of the admin that move money.                              *)

EmergencyUnwind ==
    /\ IF principal > 0
       THEN /\ Completes(UnwindFlow) /\ funds' = UnwindFlow
            /\ events' = <<EmergencyUnwound(Redeemed, principal)>>
            /\ loss' = FALSE
       ELSE /\ NoResidue(funds)
            /\ events' = <<EmergencyUnwound(0, 0)>>
            /\ UNCHANGED <<funds, loss>>
    /\ principal' = 0
    /\ UNCHANGED <<lastRebalanceTs, lastHarvestTs, paused, cfg, routing, status, blnd, now>>

\* The event's pool figures are read back after the transfer.
ManualEvent(dir, a) ==
    events' = <<RebalanceExecuted(dir, a, funds'.liquid, funds'.delegated, principal')>>

\* Faulty variant.
ManualToBlend_EvenPaused(a) ==
    /\ a > 0 /\ BlendHealthy
    /\ Completes(ToBlendFlow(a)) /\ funds' = ToBlendFlow(a)
    /\ principal' = principal + a
    /\ ManualEvent("toBlend", a)
    /\ UNCHANGED <<lastRebalanceTs, lastHarvestTs, paused, cfg, routing, status, blnd, now, loss>>

ManualToBlend(a) ==
    /\ a > 0 /\ ~paused /\ BlendHealthy
    /\ Completes(ToBlendFlow(a)) /\ funds' = ToBlendFlow(a)
    /\ principal + a <= I128_MAX
    /\ principal' = principal + a
    /\ ManualEvent("toBlend", a)
    /\ UNCHANGED <<lastRebalanceTs, lastHarvestTs, paused, cfg, routing, status, blnd, now, loss>>

ManualFromBlend(a) ==
    /\ a > 0 /\ ~paused /\ a <= principal
    /\ Completes(FromBlendFlow(a)) /\ funds' = FromBlendFlow(a)
    /\ principal' = Debit(a)
    /\ ManualEvent("fromBlend", a)
    /\ UNCHANGED <<lastRebalanceTs, lastHarvestTs, paused, cfg, routing, status, blnd, now, loss>>

----------------------------------------------------------------------------
(* Entry points of the admin that change a setting.                        *)

PauseSet(p) ==
    /\ paused' = p
    /\ events' = <<PauseToggled(p)>>
    /\ UNCHANGED <<principal, lastRebalanceTs, lastHarvestTs, cfg, routing, worldVars, loss>>

Pause == PauseSet(TRUE)
Unpause == PauseSet(FALSE)

\* What every setter of a tunable does once its check passed.
Configure(field, value, new) ==
    /\ cfg' = new
    /\ events' = <<ConfigUpdated(field, value)>>
    /\ UNCHANGED <<principal, lastRebalanceTs, lastHarvestTs, paused, routing, worldVars, loss>>

SetMaxRebalanceAmount(a) ==
    a >= 0 /\ Configure("max_reb", a, [cfg EXCEPT !.maxCap = a])

\* Faulty variant.
SetMinRebalanceAmount_Unchecked(a) ==
    Configure("min_reb", a, [cfg EXCEPT !.minFloor = a])

SetMinRebalanceAmount(a) ==
    a >= 0 /\ Configure("min_reb", a, [cfg EXCEPT !.minFloor = a])

SetMinTotalUsdc(a) ==
    a >= 0 /\ Configure("min_tot", a, [cfg EXCEPT !.minTotal = a])

SetTargetRatioBps(bps) ==
    ValidTarget(bps) /\ Configure("target", bps, [cfg EXCEPT !.target = bps])

SetRebalanceBandBps(bps) ==
    ValidBand(bps) /\ Configure("band", bps, [cfg EXCEPT !.band = bps])

SetCriticalLiquidFloorBps(bps) ==
    /\ ValidFloor(bps, cfg.target, cfg.band)
    /\ Configure("crit_bps", bps, [cfg EXCEPT !.floor = bps])

SetRebalanceCooldownSecs(secs) ==
    Configure("cooldown", secs, [cfg EXCEPT !.cooldown = secs])

Reroute(new, event) ==
    /\ routing' = new
    /\ events' = <<event>>
    /\ UNCHANGED <<principal, lastRebalanceTs, lastHarvestTs, paused, cfg, worldVars, loss>>

SetBlndTreasury(t) ==
    Reroute([routing EXCEPT !.treasury = t], AddressConfigUpdated("treasury", t))

SetUsdcReserveTokenId(id) ==
    id % 2 = 1 /\ Reroute([routing EXCEPT !.reserveId = id], ConfigUpdated("usdc_id", id))

----------------------------------------------------------------------------
(* The world outside: traders and liquidity providers of the blended pool, *)
(* Blend, senders of USDC, and time.                                       *)

World == events' = <<>> /\ UNCHANGED handlerVars

\* A swap or a liquidity change leaves the pool with l liquid USDC.
Trade(l) ==
    /\ World
    /\ l # funds.liquid /\ l + funds.delegated <= MaxTotal
    /\ funds' = [funds EXCEPT !.liquid = l]
    /\ UNCHANGED <<status, blnd, now, loss>>

\* Interest; the bound leaves room to donate it.
Accrue ==
    /\ World
    /\ 0 < funds.position /\ funds.position < I128_MAX /\ funds.position - principal < MaxInterest
    /\ Total + funds.position - principal < MaxTotal
    /\ funds' = [funds EXCEPT !.position = @ + 1]
    /\ UNCHANGED <<status, blnd, now, loss>>

\* Blend socialises bad debt.
WriteDown(p) ==
    /\ World
    /\ p < funds.position
    /\ funds' = [funds EXCEPT !.position = p]
    /\ loss' = TRUE
    /\ UNCHANGED <<status, blnd, now>>

SetStatus(s) ==
    /\ World
    /\ status' = s
    /\ UNCHANGED <<funds, blnd, now, loss>>

Emit ==
    /\ World
    /\ \A t \in Treasuries : blnd.claimable + blnd.paid[t] < MaxBlnd
    /\ blnd' = [blnd EXCEPT !.claimable = @ + 1]
    /\ UNCHANGED <<funds, status, now, loss>>

\* Somebody transfers USDC to the handler's address.
Stray ==
    /\ World
    /\ funds.usdc < MaxStray
    /\ funds' = [funds EXCEPT !.usdc = @ + 1]
    /\ UNCHANGED <<status, blnd, now, loss>>

Tick ==
    /\ World
    /\ now < MaxTime
    /\ now' = now + 1
    /\ UNCHANGED <<funds, status, blnd, loss>>

----------------------------------------------------------------------------

Rebalance ==
    RebalanceSkips \/ RebalanceToBlend \/ RebalanceFromBlend \/ RebalanceHolds

HarvestYield == HarvestEmissions \/ HarvestPartially \/ HarvestRedeems

Manual == \E a \in ManualAmounts : ManualToBlend(a) \/ ManualFromBlend(a)

Setter ==
    \/ \E a \in MaxCaps : SetMaxRebalanceAmount(a)
    \/ \E a \in MinFloors : SetMinRebalanceAmount(a)
    \/ \E a \in MinTotals : SetMinTotalUsdc(a)
    \/ \E bps \in TargetBps : SetTargetRatioBps(bps)
    \/ \E bps \in BandBps : SetRebalanceBandBps(bps)
    \/ \E bps \in FloorBps : SetCriticalLiquidFloorBps(bps)
    \/ \E secs \in Cooldowns : SetRebalanceCooldownSecs(secs)
    \/ \E t \in Treasuries : SetBlndTreasury(t)
    \/ \E id \in ReserveIds : SetUsdcReserveTokenId(id)

Handler == Rebalance \/ HarvestYield \/ EmergencyUnwind \/ Manual \/ Pause \/ Unpause \/ Setter

Environment ==
    \/ \E l \in 0 .. MaxTotal : Trade(l)
    \/ Accrue
    \/ \E p \in WriteDowns : WriteDown(p)
    \/ \E s \in Statuses : SetStatus(s)
    \/ Emit \/ Stray \/ Tick

Next == Handler \/ Environment

Spec == Init /\ [][Next]_vars

----------------------------------------------------------------------------
(* Invariants.                                                             *)

\* The pool's delegated counter covers the handler's principal, so that no
\* deposit_from_delegate of principal underflows the counter.  The two are
\* kept by different contracts and diverge after a write-down.
PrincipalWithinDelegated == principal <= funds.delegated

\* As long as Blend has written nothing down, or the handler has noticed,
\* the position is worth at least the principal.  Harvests and unwinds
\* reconcile the two, partial recalls keep them apart.
PrincipalBacked == ~loss => funds.position >= principal

\* Money can come home: emergency_unwind is never blocked by the pool's
\* accounting whatever Blend pays out, and while the principal is backed any
\* part of it can be recalled.
WayHomeOpen ==
    /\ UnwindFlow \in Funds
    /\ ~loss => \A a \in 1 .. principal : FromBlendFlow(a) \in Funds

\* The residue check never rejects a call for something the call did: from
\* a handler without USDC, every money flow ends without USDC.
NoEntryPointLeaks ==
    NoResidue(funds) =>
        /\ \A a \in 1 .. funds.liquid : NoResidue(ToBlendFlow(a))
        /\ \A a \in 1 .. principal :
              FromBlendFlow(a) \in Funds => NoResidue(FromBlendFlow(a))
        /\ NoResidue(UnwindFlow) /\ NoResidue(HarvestFlow)

\* What a rebalance decides to move, the contracts can move: from a handler
\* without USDC, with every write-down noticed and the sum of the amounts
\* within i128, the decision is never one that the nested calls or the
\* checks after them undo.
MovesAreFeasible ==
    NoResidue(funds) /\ ~loss /\ Computable =>
        /\ Over /\ funds.position + funds.liquid <= I128_MAX =>
              LET a == Clamp(cfg, NaturalOut)
              IN  Completes(ToBlendFlow(a)) /\ principal + a <= I128_MAX
        /\ Under /\ Clamp(cfg, NaturalIn) > 0 =>
              Completes(FromBlendFlow(Clamp(cfg, NaturalIn)))

\* An operator reading the events sees the pool as it is: a rebalance
\* predicts the pool's figures from what it read before its nested calls,
\* and the prediction is what the calls left behind.
EventsTellTheTruth ==
    \A i \in DOMAIN events :
        /\ events[i].type = "RebalanceExecuted" =>
              /\ events[i].liquid = funds.liquid
              /\ events[i].delegated = funds.delegated
              /\ events[i].principal = principal
        /\ events[i].type = "HarvestCompleted" => events[i].principal = principal
        /\ events[i].type = "BadDebtDetected" =>
              events[i].shortfall > 0 /\ funds.position = events[i].redeemable

----------------------------------------------------------------------------
(* Action properties.                                                      *)

\* Inside the cooldown the only automatic move is a recall of liquidity to
\* a pool whose exact liquid share is below the critical floor; the code
\* decides with truncated ratios.
CooldownProtects ==
    [][Rebalance /\ funds' # funds /\ now < lastRebalanceTs + cfg.cooldown
        => /\ funds'.liquid > funds.liquid
           /\ funds.liquid * BPS_DEN < cfg.floor * Total]_vars

\* Calls that move nothing, manual calls, harvests and unwinds do not spend
\* the cooldown window.
CooldownIsForMoves ==
    [][lastRebalanceTs' # lastRebalanceTs
        => /\ lastRebalanceTs' = now
           /\ Rebalance /\ funds' # funds]_vars

\* How far the liquid share is from its exact target, in 1/BPS_DEN units.
Drift == funds.liquid * BPS_DEN - Total * cfg.target
Distance == IF Drift < 0 THEN -Drift ELSE Drift

\* An automatic move leaves the pool's total alone and brings the pool
\* closer to the exact target without crossing it, or to within the one
\* unit lost to truncation; so it cannot swing the pool across the band.
RebalanceConverges ==
    [][Rebalance /\ funds' # funds
        => /\ Total' = Total
           /\ \/ Distance' < BPS_DEN
              \/ Distance' < Distance /\ (Drift' < 0 <=> Drift < 0)]_vars

\* A pool too large for the arithmetic is left alone, and never moved on a
\* product that does not fit into i128; and none is too large as long as
\* BPS_DEN times its total fits.
DecisionsFit ==
    [][/\ Rebalance /\ funds' # funds =>
             \A product \in {Total * cfg.target, Total * cfg.band, funds.liquid * BPS_DEN} :
                product <= I128_MAX
       /\ Total > 0 /\ Total * BPS_DEN <= I128_MAX => Computable]_vars

HasEvent(type) == \E i \in DOMAIN events : events[i].type = type
Harvested == HasEvent("HarvestCompleted") \/ HasEvent("HarvestSkipped")

\* A harvest that reached Blend leaves exactly the principal invested,
\* writes the principal down to what Blend still pays, and gives the whole
\* difference to the pool: no interest stays behind, no principal is
\* donated.
HarvestReconciles ==
    [][Harvested' /\ principal > 0 /\ BlendHealthy /\ ~HasEvent("HarvestPartial")'
        => /\ principal' = Least(principal, funds.position)
           /\ funds'.position = principal'
           /\ Total' - Total = funds.position - principal']_vars

\* What a step pays to the treasury.
Arrived == blnd'.paid[routing.treasury] - blnd.paid[routing.treasury]

\* A harvest's claim survives whatever Blend does to the withdrawal after
\* it: on every way through, emissions that left Blend have arrived at the
\* treasury, none is left to claim, and the events report what arrived.  A
\* harvest cut short by the withdrawal has moved nothing else.
EmissionsArrive ==
    [][/\ Harvested' =>
             /\ Arrived = blnd.claimable - blnd'.claimable
             /\ routing.reserveId = UsdcReserveId => blnd'.claimable = 0
       /\ \A i \in DOMAIN events' :
             events'[i].type \in {"HarvestPartial", "HarvestCompleted"} =>
                events'[i].routed = Arrived
       /\ HasEvent("HarvestPartial")' => UNCHANGED <<funds, principal>>]_vars

\* What the pool counts as delegated and the handler does not as principal.
Unreturned == funds.delegated - principal

\* The two books part only over a loss, by its amount, and only once: when
\* a harvest or an unwind takes notice of a write-down.  Interest, partial
\* recalls and manual moves keep their distance.
BooksDriftByLosses ==
    [][Unreturned' # Unreturned
        => loss /\ ~loss' /\ Unreturned' = Unreturned + (principal - funds.position)]_vars

\* While paused no invocation moves money, except the unwind.
PauseFreezes ==
    [][paused /\ events' # <<>> /\ funds' # funds
        => HasEvent("EmergencyUnwound")' /\ principal' = 0]_vars

\* The promise to the pool, with the handler's state mapped onto it.
Custody == INSTANCE DelegatedCustody WITH
    liquid <- funds.liquid, lent <- funds.delegated,
    owed <- principal, invested <- funds.position, held <- funds.usdc

KeepsCustody == Custody!Spec

----------------------------------------------------------------------------
(* Statements of the documentation, checked against the code.              *)

\* "By the setter invariant" the critical floor lies strictly below the
\* lower band (tests.rs, and the guards of the constructor and of
\* set_critical_liquid_floor_bps): whatever the admin sets next.
FloorBelowLowerBand == cfg.floor = 0 \/ ValidFloor(cfg.floor, cfg.target, cfg.band)

\* A bypass that is warranted and has nothing to pull back is announced, so
\* that operators can tell it from a rebalance that had nothing to do
\* (contract.rs, on CriticalBypassUnavailable).
CriticalNeverSilent ==
    [][Rebalance /\ BlendHealthy /\ Total >= cfg.minTotal /\ Under /\ Bypassing
            /\ NaturalIn = 0
        => HasEvent("CriticalBypassUnavailable")']_vars

\* emergency_unwind drains the entire Blend USDC position (contract.rs).
UnwindDrains == HasEvent("EmergencyUnwound") => funds.position = 0

\* The delegated portion of the pool is the principal parked in Blend
\* (README.md).
DelegatedIsPrincipal == funds.delegated = principal

\* Capping a recall at the principal guards it against write-downs
\* (README.md): a recall the policy asks for is one Blend can pay.
RecallIsPaid ==
    Reaches /\ Under /\ ~Dust(cfg, NaturalIn) => Clamp(cfg, NaturalIn) <= funds.position

=============================================================================
