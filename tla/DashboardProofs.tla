-------------------------- MODULE DashboardProofs --------------------------
(***************************************************************************)
(* How far the dashboard's prediction can be from what the handler does,   *)
(* for all amounts and settings.  The page's band is never narrower than   *)
(* the handler's, and wider by one unit at most.                           *)
(***************************************************************************)
EXTENDS Dashboard, AutomationHandlerStepProofs

\* Truncating a sum and truncating its parts differ by at most one.
LEMMA TruncatedSum ==
  ASSUME NEW x \in Nat, NEW y \in Nat
  PROVE  (x + y) \div BPS_DEN \in {x \div BPS_DEN + y \div BPS_DEN,
                                   x \div BPS_DEN + y \div BPS_DEN + 1}
  BY SMTT(30) DEF BPS_DEN

\* And so for a difference.
LEMMA TruncatedDifference ==
  ASSUME NEW x \in Nat, NEW y \in Nat, y <= x
  PROVE  (x - y) \div BPS_DEN \in {x \div BPS_DEN - y \div BPS_DEN,
                                   x \div BPS_DEN - y \div BPS_DEN - 1}
  BY SMTT(30) DEF BPS_DEN

\* The page's band against the handler's.
LEMMA PageBand ==
  ASSUME TypeOK
  PROVE  /\ Target(cfg, Total) \in Nat /\ Band(cfg, Total) \in Nat
         /\ PageUpper \in {Upper(cfg, Total), Upper(cfg, Total) + 1}
         /\ \/ PageLower \in {Lower(cfg, Total), Lower(cfg, Total) - 1}
            \/ PageLower = 0 /\ Lower(cfg, Total) <= 0
<1> DEFINE x == Total * cfg.target
           y == Total * cfg.band
<1>1. /\ Total \in Nat /\ cfg \in Config /\ cfg.target \in Nat /\ cfg.band \in Nat
  BY DEF TypeOK, Funds, Config, Total
<1>2. x \in Nat /\ y \in Nat
  BY <1>1
<1>3. Target(cfg, Total) \in Nat /\ Band(cfg, Total) \in Nat
  BY <1>1, TargetAndBand
<1>4. Target(cfg, Total) = x \div BPS_DEN /\ Band(cfg, Total) = y \div BPS_DEN
  BY DEF Target, Band, MulDiv
<1>5. PageUpper = (x + y) \div BPS_DEN
  <2>1. Total * (cfg.target + cfg.band) = x + y
    BY <1>1
  <2> QED BY <2>1 DEF PageUpper, MulDiv
<1>6. CASE cfg.target > cfg.band
  <2>1. Total * (cfg.target - cfg.band) = x - y /\ y <= x
    BY <1>1, <1>6
  <2>2. PageLower = (x - y) \div BPS_DEN
    BY <1>6, <2>1 DEF PageLower, MulDiv
  <2> HIDE DEF x, y
  <2> QED
    BY <1>2, <1>3, <1>4, <1>5, <2>1, <2>2, TruncatedSum, TruncatedDifference DEF Upper, Lower
<1>7. CASE ~ (cfg.target > cfg.band)
  <2>1. x <= y
    BY <1>1, <1>7
  <2>2. PageLower = 0
    BY <1>7 DEF PageLower
  <2> HIDE DEF x, y
  <2>3. x \div BPS_DEN <= y \div BPS_DEN
    BY <1>2, <2>1 DEF BPS_DEN
  <2> QED
    BY <1>2, <1>3, <1>4, <1>5, <2>2, <2>3, TruncatedSum DEF Upper, Lower
<1> QED BY <1>6, <1>7

\* What a rebalance does, next to what the page predicts.
LEMMA RebalancePredicted ==
  ASSUME HandlerInv, Rebalance
  PROVE  \/ Moved = Predicted
         \/ Moved = 0 /\ now < lastRebalanceTs + cfg.cooldown
         \/ Predicted = 0 /\ funds.liquid \in {PageLower, PageUpper}
<1> DEFINE liq == funds.liquid
           T == Target(cfg, Total)
           B == Band(cfg, Total)
<1>1. /\ TypeOK /\ liq \in Nat /\ T \in Nat /\ B \in Nat /\ principal \in Nat
      /\ PageUpper \in {T + B, T + B + 1}
      /\ \/ PageLower \in {T - B, T - B - 1}
         \/ PageLower = 0 /\ T - B <= 0
  BY Accounts, PageBand DEF Upper, Lower
<1>2. /\ Over <=> liq > T + B
      /\ Under <=> liq < T - B
      /\ NaturalOut = PageSurplus /\ NaturalIn = PageRecall
  BY DEF Over, OverLiquid, Under, UnderLiquid, Upper, Lower, NaturalOut, Surplus,
         NaturalIn, Recall, PageSurplus, PageRecall
<1>3. /\ cfg.minFloor \in Nat /\ cfg.cooldown \in Nat /\ cfg.minTotal \in Nat
      /\ lastRebalanceTs \in Nat /\ now \in Nat /\ status \in Nat /\ Total \in Nat
  BY <1>1 DEF TypeOK, Config, Funds, Total
<1>4. /\ Worth(PageSurplus) = IF Dust(cfg, NaturalOut) THEN 0 ELSE Clamp(cfg, NaturalOut)
      /\ Worth(PageRecall) = IF Dust(cfg, NaturalIn) THEN 0 ELSE Clamp(cfg, NaturalIn)
  <2>1. PageSurplus \in Int /\ PageRecall \in Int
    BY <1>1 DEF PageSurplus, PageRecall, Least
  <2> QED BY <1>2, <1>3, <2>1 DEF Worth, Dust
<1> HIDE DEF T, B
<1>5. CASE RebalanceSkips
  <2>1. Moved = 0
    BY <1>1, <1>5, QuietSteps DEF Moved
  <2>2. CASE ~BlendHealthy \/ Total < cfg.minTotal
    BY <1>3, <2>1, <2>2 DEF BlendHealthy, BLEND_HEALTHY_STATUS_MAX, Predicted, PageSeesNoCall
  <2>3. CASE Computable /\ ~Gate
    <3>1. now < Least(lastRebalanceTs + cfg.cooldown, U64_MAX)
      BY <2>3 DEF Gate, GateOpen, CooldownActive, CooldownEnds
    <3>2. now < lastRebalanceTs + cfg.cooldown
      BY <1>3, <3>1, WidthAssumption DEF Least
    <3> QED BY <2>1, <3>2
  <2>4. CASE Over /\ Dust(cfg, NaturalOut)
    <3>1. ~ (liq < PageLower)
      BY <1>1, <1>2, <2>4
    <3>2. Worth(PageSurplus) = 0
      BY <1>4, <2>4
    <3> QED BY <2>1, <3>1, <3>2 DEF Predicted
  <2>5. CASE Under /\ Dust(cfg, NaturalIn)
    <3>1. ~ (liq > PageUpper)
      BY <1>1, <1>2, <2>5
    <3>2. Worth(PageRecall) = 0
      BY <1>4, <2>5
    <3>3. Predicted \in {0, -0}
      BY <3>1, <3>2, Zenon DEF Predicted
    <3> QED BY <2>1, <3>3
  <2> QED BY <1>5, <2>2, <2>3, <2>4, <2>5 DEF RebalanceSkips
<1>6. ASSUME Reaches PROVE ~PageSeesNoCall
  BY <1>3, <1>6 DEF Reaches, BlendHealthy, BLEND_HEALTHY_STATUS_MAX, PageSeesNoCall
<1>7. CASE RebalanceToBlend
  <2>1. Reaches /\ Over /\ ~Dust(cfg, NaturalOut)
    BY <1>7 DEF RebalanceToBlend
  <2>2. Clamp(cfg, NaturalOut) \in Nat
    BY <1>1, <2>1, LendsSomething
  <2>3. Moved = Clamp(cfg, NaturalOut)
    BY <1>1, <1>7, <2>2, ToBlendResult DEF RebalanceToBlend, Moved
  <2>4. CASE liq > PageUpper
    BY <1>4, <1>6, <2>1, <2>3, <2>4 DEF Predicted
  <2>5. CASE ~ (liq > PageUpper)
    <3>1. liq = PageUpper /\ ~ (liq < PageLower)
      BY <1>1, <1>2, <2>1, <2>5
    <3> QED BY <1>6, <2>1, <2>5, <3>1 DEF Predicted
  <2> QED BY <2>4, <2>5
<1>8. CASE RebalanceFromBlend
  <2>1. Reaches /\ Under /\ ~Dust(cfg, NaturalIn) /\ Clamp(cfg, NaturalIn) > 0
    BY <1>8 DEF RebalanceFromBlend
  <2>2. Clamp(cfg, NaturalIn) \in Nat
    BY <1>1, <2>1, RecallsPrincipal
  <2>3. Moved = -Clamp(cfg, NaturalIn)
    BY <1>1, <1>8, <2>2, FromBlendResult DEF RebalanceFromBlend, Moved
  <2>4. ~ (liq > PageUpper)
    BY <1>1, <1>2, <2>1
  <2>5. CASE liq < PageLower
    BY <1>4, <1>6, <2>1, <2>3, <2>4, <2>5 DEF Predicted
  <2>6. CASE ~ (liq < PageLower)
    <3>1. liq = PageLower
      BY <1>1, <1>2, <2>1, <2>6
    <3> QED BY <1>6, <2>1, <2>4, <2>6, <3>1 DEF Predicted
  <2> QED BY <2>5, <2>6
<1>9. CASE RebalanceHolds
  <2>1. /\ Moved = 0 /\ Reaches /\ ~Over
        /\ Under => ~Dust(cfg, NaturalIn) /\ Clamp(cfg, NaturalIn) = 0
    BY <1>1, <1>9, QuietSteps DEF RebalanceHolds, Moved
  <2>2. ~ (liq > PageUpper) /\ (liq < PageLower => Under)
    BY <1>1, <1>2, <2>1
  <2> QED BY <1>4, <1>6, <2>1, <2>2 DEF Predicted
<1> QED BY <1>5, <1>7, <1>8, <1>9 DEF Rebalance

\* The page is wrong only by the cooldown it does not know of, and by the
\* unit it rounds differently.
THEOREM PredictionHolds == Spec => PredictionIsClose
<1>1. HandlerInv /\ [Next]_vars =>
        [Rebalance =>
          \/ Moved = Predicted
          \/ Moved = 0 /\ now < lastRebalanceTs + cfg.cooldown
          \/ Predicted = 0 /\ funds.liquid \in {PageLower, PageUpper}]_vars
  BY RebalancePredicted
<1> QED BY <1>1, HandlerInvariant, PTL DEF Spec, PredictionIsClose

=============================================================================
