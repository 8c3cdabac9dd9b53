------------------------- MODULE DelegatedCustody --------------------------
(***************************************************************************)
(* What the blended pool may rely on when it makes the handler its         *)
(* delegate: every USDC the handler takes is in Blend, on its way, or      *)
(* back; taking and returning leave the liquidity providers' claim as it   *)
(* was, and only income ever raises it.  The handler alone never lowers    *)
(* it.                                                                     *)
(***************************************************************************)
EXTENDS Integers

VARIABLES
    liquid,     \* USDC in the pool
    lent,       \* USDC the pool counts as delegated
    owed,       \* what the handler owes the pool by its own books
    invested,   \* what the position in Blend is worth
    held        \* USDC at the handler

custodyVars == <<liquid, lent, owed, invested, held>>

\* What the liquidity providers are told they have, and what there is.
Claim == liquid + lent
Assets == liquid + invested + held

Amounts ==
    liquid \in Nat /\ lent \in Nat /\ owed \in Nat /\ invested \in Nat /\ held \in Nat

\* Before the first delegation everything is in the pool.
Init == Amounts /\ lent = 0 /\ owed = 0 /\ invested = 0 /\ held = 0

\* The pool lends: a debt, an entry in the pool's books, and an investment
\* of the same size.
Lend ==
    /\ liquid' < liquid
    /\ lent' - lent = liquid - liquid'
    /\ owed' - owed = liquid - liquid'
    /\ Assets' = Assets
    /\ held' = 0

\* The handler returns debt, or income, or both.  Income is what exceeds the
\* debt, and nothing else raises the claim; debt is forgiven only when Blend
\* lost it.
Return ==
    LET repaid == lent - lent'
        income == Claim' - Claim
    IN  /\ repaid >= 0 /\ income >= 0
        /\ income > 0 => income <= invested + held - owed
        /\ owed' <= owed - repaid
        /\ owed' < owed - repaid => invested < owed
        /\ Assets' = Assets
        /\ held' = 0

\* Traders move the pool's own USDC, Blend revalues the position, and
\* anybody may send USDC to the handler.
Outside ==
    /\ UNCHANGED <<lent, owed>>
    /\ \/ UNCHANGED <<invested, held>>
       \/ UNCHANGED <<liquid, held>>
       \/ UNCHANGED <<liquid, invested>> /\ held' > held

Next == Amounts' /\ (Lend \/ Return \/ Outside)

Spec == Init /\ [][Next]_custodyVars

=============================================================================
