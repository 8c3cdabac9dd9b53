----------------------------- MODULE MCVerifyXlm -----------------------------
(***************************************************************************)
(* Instances of VerifyXlm for TLC.                                         *)
(***************************************************************************)
EXTENDS VerifyXlm

NoAmounts == {}
Unanimous == {[numerator |-> 1, denominator |-> 1]}

\* No property of these runs reads the events of the handler, and no action
\* does: states that differ in them only are the same.
ButEvents ==
    <<principal, lastRebalanceTs, lastHarvestTs, paused, cfg, routing,
      worldVars, loss, registryVars, pipeVars>>

=============================================================================
