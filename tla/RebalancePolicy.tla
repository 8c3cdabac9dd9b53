-------------------------- MODULE RebalancePolicy --------------------------
(***************************************************************************)
(* The arithmetic of execute_rebalance (contracts/automation-handler/src/  *)
(* contract.rs): where the liquid USDC of the blended pool stands against  *)
(* its target, and how much of it one rebalance may move.  Amounts are     *)
(* i128, ratios basis points, division truncates.                          *)
(*                                                                         *)
(* A configuration c is a record with the handler's tunables:              *)
(*   target, band, floor : basis points;                                   *)
(*   minTotal            : below this pool size nothing is moved;          *)
(*   maxCap              : most USDC moved by a call, 0 means no limit;    *)
(*   minFloor            : least USDC worth moving;                        *)
(*   cooldown            : seconds between two rebalances.                 *)
(***************************************************************************)
EXTENDS Integers

CONSTANTS
    I128_MAX,   \* the largest amount the contract's arithmetic represents
    U64_MAX     \* the largest timestamp

ASSUME WidthAssumption == I128_MAX \in Nat /\ U64_MAX \in Nat

BPS_DEN == 10000

\* The smaller of two amounts.
Least(a, b) == IF a <= b THEN a ELSE b

\* mul_div where no intermediate product overflows (see Overflows).
MulDiv(a, b, c) == (a * b) \div c

Target(c, total) == MulDiv(total, c.target, BPS_DEN)
Band(c, total) == MulDiv(total, c.band, BPS_DEN)
Upper(c, total) == Target(c, total) + Band(c, total)

\* target_liquid.saturating_sub(band) saturates at i128::MIN, never at zero.
Lower(c, total) == Target(c, total) - Band(c, total)

LiquidRatio(liquid, total) == MulDiv(liquid, BPS_DEN, total)

\* Faulty variant.
Overflows_ForgetsRatio(c, liquid, total) ==
    \/ total * c.target > I128_MAX
    \/ total * c.band > I128_MAX
    \/ Upper(c, total) > I128_MAX

\* The products and the sum execute_rebalance checks; any of them ends the
\* call with OtherInvocationError.
Overflows(c, liquid, total) ==
    \/ total * c.target > I128_MAX
    \/ total * c.band > I128_MAX
    \/ Upper(c, total) > I128_MAX
    \/ liquid * BPS_DEN > I128_MAX

\* now < last_ts.saturating_add(cooldown)
CooldownEnds(c, lastTs) == Least(lastTs + c.cooldown, U64_MAX)
CooldownActive(c, now, lastTs) == now < CooldownEnds(c, lastTs)

\* Faulty variant.
IsCritical_AnyShortage(c, liquid, total) ==
    c.floor > 0 /\ liquid < Target(c, total)

\* The critical-low bypass: disabled by a zero floor, and confined to the
\* side where liquidity is pulled back from Blend.
IsCritical(c, liquid, total) ==
    /\ c.floor > 0
    /\ LiquidRatio(liquid, total) < c.floor
    /\ liquid < Target(c, total)

\* The cooldown gate is open, or the bypass opens it.
GateOpen(c, liquid, total, now, lastTs) ==
    CooldownActive(c, now, lastTs) => IsCritical(c, liquid, total)

OverLiquid(c, liquid, total) == liquid > Upper(c, total)
UnderLiquid(c, liquid, total) == liquid < Lower(c, total)

\* What a rebalance in each direction would move before the scope limits.
Surplus(c, liquid, total) == liquid - Target(c, total)

\* Faulty variant.
Recall_Everything(c, liquid, total, principal) == principal

\* Faulty variant.
Recall_Uncapped(c, liquid, total, principal) == Target(c, total) - liquid

Recall(c, liquid, total, principal) ==
    Least(Target(c, total) - liquid, principal)

\* The per-call limit: 0 stands for "unlimited".
Clamp(c, amount) ==
    IF c.maxCap > 0 /\ amount > c.maxCap THEN c.maxCap ELSE amount

\* The dust floor: moving less than this is not worth a call.
Dust(c, amount) == amount < c.minFloor

\* What the constructor accepts.  max/min rebalance amounts start at 0.
LowerBandBps(target, band) == IF target >= band THEN target - band ELSE 0

ValidTarget(bps) == bps > 0 /\ bps < BPS_DEN
ValidBand(bps) == bps < BPS_DEN
ValidFloor(floor, target, band) == floor < LowerBandBps(target, band)

=============================================================================
