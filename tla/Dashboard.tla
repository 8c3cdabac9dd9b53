----------------------------- MODULE Dashboard -----------------------------
(***************************************************************************)
(* The "predicted next Rebalance" line of the dashboard (frontend/app.js,  *)
(* predictAction): computed in the browser from what the page has read of  *)
(* the pool, the handler and Blend, here from one and the same state.  The *)
(* page keeps nothing, so the module adds no action to AutomationHandler.  *)
(***************************************************************************)
EXTENDS AutomationHandler

\* The band, truncated after target and width are added or subtracted; the
\* handler truncates each of them.
PageUpper == MulDiv(Total, cfg.target + cfg.band, BPS_DEN)
PageLower ==
    IF cfg.target > cfg.band THEN MulDiv(Total, cfg.target - cfg.band, BPS_DEN) ELSE 0

\* "blocked (paused)", "blocked (Blend unhealthy)", "no-op (below floor)"
PageSeesNoCall == paused \/ status > 3 \/ Total < cfg.minTotal

PageSurplus == funds.liquid - Target(cfg, Total)
PageRecall == Least(Target(cfg, Total) - funds.liquid, principal)

\* Faulty variant.
Worth_Clamped(amount) ==
    IF Clamp(cfg, amount) >= cfg.minFloor THEN Clamp(cfg, amount) ELSE 0

\* The amount shown, unless it is "no-op (dust)".
Worth(amount) == IF amount >= cfg.minFloor THEN Clamp(cfg, amount) ELSE 0

\* The USDC the page expects to leave the pool for Blend; negative for the
\* way back, zero for every verdict without a move.
Predicted ==
    IF PageSeesNoCall THEN 0
    ELSE IF funds.liquid > PageUpper THEN Worth(PageSurplus)
    ELSE IF funds.liquid < PageLower THEN -Worth(PageRecall)
    ELSE 0

----------------------------------------------------------------------------
(* Action properties.                                                      *)

\* The USDC a step takes from the pool.
Moved == funds.liquid - funds'.liquid

\* "Shows exactly what the handler would do" (frontend/README.md), with two
\* exceptions: the handler does nothing, because the cooldown the page does
\* not know of is running; or it moves although the page expects nothing, at
\* a pool on the very edge of the page's band, by the one unit the page
\* rounds differently.  It is about rebalances that come back Ok: where one
\* reverts (overflow, stray USDC, a loss nobody noticed), the page may show
\* a move all the same.
PredictionIsClose ==
    [][Rebalance =>
        \/ Moved = Predicted
        \/ Moved = 0 /\ now < lastRebalanceTs + cfg.cooldown
        \/ Predicted = 0 /\ funds.liquid \in {PageLower, PageUpper}]_vars

=============================================================================
