# Phoenix Blend Pool: a TLA+ model

This directory models the automation that parks idle USDC of a Phoenix blended
pool in the Blend lending pool. It holds TLA+ modules, TLC configurations, and
theorems whose proofs TLAPS checks. Paths are relative to the repository.

## The system

| Component | State | Operations | Talks to |
|---|---|---|---|
| automation handler, `contracts/automation-handler` | `principal_supplied`, last rebalance and harvest times, pause flag, ten settings, the seen event ids, admin | `verify_xlm` (runs `execute_rebalance` or `execute_harvest_yield`), `emergency_unwind`, `manual_to_blend`, `manual_from_blend`, `pause`, `unpause`, nine setters, ownership, upgrade | blended pool, Blend, the USDC token, verification contract |
| blended pool (another repository) | liquid USDC, delegated counter | `withdraw_to_delegate`, `deposit_from_delegate`, `donate`, swaps and liquidity changes | called by handler and traders |
| Blend pool (another repository) | the handler's b-token position, status, BLND emissions | `submit` (Supply, Withdraw), `claim`, `get_config` | called by handler |
| signer registry, `contracts/ed25519-security` | weight history per signer, total weight history, signer list, threshold | `add_signer`, `remove_signer`, `set_threshold`, lookups at a ledger | called by verification contract |
| quorum verification, `contracts/ed25519-verification` | address of the registry | `verify`, `check_one` | registry |
| circuit, `components/circuit` | none | maps a pool event to `Rebalance`, a cron tick to `HarvestYield`, drops the rest | operators |
| aggregator, `components/aggregator` | none | one submission per envelope; its callbacks do nothing | handler |
| dashboard, `frontend/app.js` | caches of what it read | `predictAction`, wallet transactions | RPC |
| deployment, `Taskfile.yml`, `taskfiles/`, `warpdrive.toml` | | scripts and configuration | |

A pool event or a cron tick reaches every operator's circuit; the operators
sign the resulting envelope; the aggregator submits it with the signatures to
`verify_xlm`; the handler verifies, then moves money between pool and Blend.
The admin calls the other entry points directly. Traders, liquidity providers
and Blend change the pool and the position between any two of these calls.

What makes it hard:

* **Two sets of books.** The handler counts `principal_supplied`, the pool
  counts what it delegated, and Blend values the position. No call updates all
  three from the same source; a write-down in Blend changes one silently.
* **Atomicity by rollback.** A failed nested call undoes the whole invocation,
  except under `try_submit` in the harvest, where a failure must not undo the
  claim that came before it.
* **A decision made of five truncated or saturating quantities** (target, band,
  ratio, end of the cooldown, limits), with settings that change independently.
* **No retries.** An event that finds the cooldown active is used up. Nobody
  repeats it. The system relies on the next event.
* **Submissions by anybody.** `verify_xlm` needs no caller's authorisation:
  signatures that exist may arrive late, twice, out of order, in any batch and
  with any reference block. The mark of seen events and the age of the reference
  block are the only limits.
* **A set of signers that changes while envelopes are under way.** Weights and
  their total live in separate histories, each pruned on its own pushes, and are
  read at a past ledger, while the threshold is today's.
* **An echo.** The handler's own moves make the pool emit events on the stream
  that triggers the handler.

## Modules

| Module | Models | Kind |
|---|---|---|
| `RebalancePolicy` | arithmetic of `execute_rebalance`, validity of settings | operators |
| `AutomationHandler` | the handler with the pool and Blend around it | specification |
| `DelegatedCustody` | what the pool may rely on when it delegates | abstract specification |
| `RebalanceLiveness` | the handler answering pool events one by one, with every disturbance, while time passes | specification |
| `SignerRegistry` | `ed25519-security`: weights, total, list, threshold, histories | specification |
| `QuorumVerification` | `ed25519-verification`: `verify` and `check_one` over the registry | operators and invariants |
| `VerifyXlm` | circuit, operators, aggregator, `verify_xlm`, composed with the handler, the registry and verification | specification |
| `TriggeredAutomation` | at most one matching action per trigger | abstract specification |
| `Dashboard` | `predictAction` of the web page, next to the handler | operators and action properties |
| `MCAutomationHandler`, `MCQuorumVerification`, `MCVerifyXlm` | values for the configurations | instances for TLC |
| `AutomationHandlerProofs` | lemmas on policy and money flows, the inductive invariant, safety | proofs |
| `AutomationHandlerStepProofs` | action properties, events, refinement of `DelegatedCustody` | proofs |
| `DashboardProofs` | the prediction against the decision | proofs |
| `SignerRegistryProofs` | histories, sums of weights, the sorted list | proofs |
| `QuorumVerificationProofs` | what an accepted batch means | proofs |
| `TriggeredAutomationProofs` | what the abstract promise amounts to | proofs |
| `VerifyXlmProofs` | the pipeline runs the handler and keeps the promise | proofs |
| `VerifyXlmQuorumProofs` | the pipeline runs the registry; a quorum stands behind every action | proofs |

### How `AutomationHandler` corresponds to the code

An action is one *successful* invocation. Soroban rolls an invocation back when
it panics, returns an error, or a nested call reverts, so a failing one is the
absence of a step. Checks that make an invocation fail are therefore guards.

* `principal`, `lastRebalanceTs`, `lastHarvestTs`, `paused`, `cfg` and
  `routing` are the instance storage of `storage.rs`. `funds` has the four
  balances that matter: the pool's liquid USDC and delegated counter, the value
  of the position in Blend, and the handler's own USDC.
* A money flow such as `UnwindFlow` composes the nested calls in the order of
  the code. `Completes` says that no balance fell below zero on the way and that
  `assert_no_usdc_residue` accepts the result. Because every intermediate
  balance of these flows is bounded below by its final value or by zero, looking
  at the result is enough.
* `execute_rebalance` is four actions, one per way out: `RebalanceSkips` (the
  early returns, which do not look at the residue), `RebalanceToBlend`,
  `RebalanceFromBlend`, and `RebalanceHolds` (within the band, or nothing to
  pull back). `execute_harvest_yield` is three: `HarvestEmissions` (claim only),
  `HarvestPartially` (`try_submit` failed), `HarvestRedeems`.
* The pause check of `verify_xlm` and its dispatch are part of those actions.
  Signatures, deduplication and the age of the reference block decide *whether*
  an event runs; here any event may run at any time, and `VerifyXlm` adds them.
* `events` holds the events of the latest invocation; steps outside the handler
  clear it. `loss` is a history variable: Blend wrote the position down and no
  harvest or unwind has taken notice. No guard reads either.
* `Trade`, `Accrue`, `WriteDown`, `SetStatus`, `Emit`, `Stray` and `Tick` are the
  world outside, from the way `externals.rs` and the comments of `contract.rs`
  use it. `WriteDown` may leave any value of a given set, so it also covers
  losses to rounding in Blend. `Stray` is a transfer of USDC to the handler.

Constants bound the amounts, times and settings. `I128_MAX` and `U64_MAX` are
parameters so that a small instance can reach the overflow and saturation paths.

### How the other modules correspond to the code

* **`SignerRegistry`.** `weightHist`, `totalHist`, `allSigners` and `threshold`
  are the contract's storage; `past` is an observation, the weights with which
  each ledger ended. `Reweigh` is what `add_signer` and `remove_signer` share:
  two pushes, one checked subtraction, one checked addition. `Place`, `Inserted`
  and `Removed` are the two loops over the list, which stop at the first key that
  is not smaller. Keys are numbers, ordered as their bytes are.
  The history itself, `vec_history` of the shared crate, is not in the
  repository. The model takes from it what the contract relies on: the latest
  entry at or before a ledger governs it, a push of the same ledger replaces its
  entry, and an entry may be dropped only if a later one governs every ledger of
  the last `HISTORY_CUTOFF`. *When* such entries are dropped is left open. That
  an entry exactly `HISTORY_CUTOFF` ledgers old still counts (`warpdrive_shared`
  decides it) is an assumption of everything said about the edge of the window.
* **`QuorumVerification`.** `verify` and `check_one` change nothing, so they are
  operators, and the properties speak of every batch in every state of the
  registry. A signature is good (the key's owner signed this envelope), bad, or
  all zero. The required weight combines the total of the reference ledger with
  the threshold of today, as `required_weight_at` does. `CheckOne` has both
  branches of `check_one`: the weight at a reference, and with `NoReference`
  (the code's `None`) the weight of today.
* **`VerifyXlm`.** `feed` is what has happened, in order, with the operators who
  have signed a response to each entry; the position stands for the event id.
  Operators sign when they like, registered or not, as `warpdrive` runs the
  circuit on every node. `Submitted` takes *any* batch over the signatures that
  exist with *any* reference, at any time: a lost submission is one that never
  happens, a repeated or delayed one happens again or later. The aggregator's
  callbacks ignore the outcome, so nothing else is to be modelled of them. The
  reference block is not part of the signed envelope, so the model lets a
  submitter choose it. `Execute` is `verify_xlm`: its guards are the checks in
  any order (a refusal leaves no trace), the executor's step is a step of
  `AutomationHandler`, the event is marked and the pool's own event for the move
  is appended (`Echo`). One clock serves as ledger sequence and ledger
  timestamp. Trades and liquidity changes append their event; a donation appends
  one that calls for nothing, as `is_relevant_event` drops it, although
  `frontend/README.md` lists donations among the sources of rebalances.
* **`Dashboard`.** The page reads pool, handler and Blend by separate calls; the
  model lets it read one state, so that what is left to err is its arithmetic
  and what it does not look at.

### Faulty variants

A definition `X_Y` is a faulty version of `X`: a forgotten debit, a missing
pause check, an unwind that treats principal as income. Each property of a
passing run fails when the listed variant takes the place of the original; this
is how we know that the property says something about the code.

## Runs

| Run | Configuration | Question | Result |
|---|---|---|---|
| `funds` | `Funds.cfg` | Do the three sets of books stay consistent under every order of calls and disturbances? Is `DelegatedCustody` implemented? | holds, about 474 000 states |
| `cooldown` | `Cooldown.cfg` | Is the decision right for all settings the setters reach? How far can the dashboard's prediction be off? | holds, about 219 000 states |
| `liveness` | `Liveness.cfg` | Does the pool settle if events keep being answered and disturbances end? | holds, about 371 000 states |
| `registry` | `Registry.cfg` | Does the registry remember past ledgers rightly, and does verify accept quorums, all of them and nothing else? | holds, about 20 000 states |
| `retired` | `Retired.cfg` | Can operators who have gone still act? Can late signatures still be used? | holds, about 181 000 states |
| `pipeline` | `Pipeline.cfg` | Does each occurrence lead to at most one action, the right one, and the echo to none? | holds, about 568 000 states |
| `floor_stale` | `FloorStale.cfg` | Is the critical floor below the lower band whatever the admin sets? | violated |
| `silent_bypass` | `SilentBypass.cfg` | Is an impossible bypass always announced? | violated |
| `unwind_leftover` | `UnwindLeftover.cfg` | Does `emergency_unwind` drain the whole position? | violated |
| `delegated_drift` | `DelegatedDrift.cfg` | Is the delegated portion the principal in Blend? | violated |
| `short_recall` | `ShortRecall.cfg` | Does the cap at the principal protect a recall from write-downs? | violated |
| `checked_today` | `CheckedToday.cfg` | Can a signature that `check_one` accepts without a reference join any recent batch? | violated |

### What the passing runs show

`funds` fixes one configuration without cooldown (target 50%, band 10%) and
lets everything else vary. `PrincipalWithinDelegated` and `WayHomeOpen` say that
the pool's counter never stands in the way of money coming home, although a
harvest shrinks the principal and not the counter. `PrincipalBacked` ties
principal and position together until Blend writes the position down.
`HarvestReconciles` says what a harvest must achieve from any state, including
after a loss and after partial recalls. `BooksDriftByLosses` says when the pool's
counter and the principal part at all: when a harvest or an unwind notices a
write-down, and by its amount. `NoEntryPointLeaks` separates the two
reasons for a residue: a call's own doing, which is excluded, and somebody
else's transfer, which is not. `EventsTellTheTruth` compares the figures in
events, some computed before the nested calls, with the state after them.
`EmissionsArrive` follows the BLND: on every way through a harvest, also the one
where the withdrawal from Blend fails after the claim, what left Blend is with
the treasury and in the events, none is left to claim, and a harvest cut short
has moved nothing else. `PauseFreezes` covers every entry point. `KeepsCustody`
is the refinement.

`cooldown` varies the settings (valid and refused ones), the time, and amounts
up to the width of `I128_MAX`, here small enough that products overflow.
`CooldownProtects` compares the truncated decision with exact arithmetic: a move
inside the cooldown is a recall to a pool exactly below the floor.
`RebalanceConverges` compares each move with the exact target. `MovesAreFeasible`
says that a decision is never undone by the calls that carry it out, unless
there is stray USDC, a loss nobody has noticed, or no room left in `i128`: an
amount too large for the pool or for Blend would make the handler fail again at
every event. `DecisionsFit` holds the checked arithmetic to its purpose, in both
directions: no move rests on a product that does not fit into `i128`, and no pool
is given up as too large while `BPS_DEN` times its total fits.
`PredictionIsClose` compares the page's prediction with the step that follows:
it errs by the cooldown, which it does not know of, or on the edge of the band,
which it rounds once where the handler rounds twice.

`liveness` has pool events answered one by one, each once, in a system whose
admin, traders, Blend and senders of USDC interfere at any time. `Settles`: if
answers keep coming and interference ends, the pool ends up in its band, or with
nothing to move, or in a condition in which no move *can* succeed. These
conditions (`Blocked`) are part of what the run shows, since the code offers no
way out of them by itself: a pause, an unhealthy Blend, a recall beyond the
position after a write-down that no harvest has noticed, and USDC on the
handler's account, which makes every move revert in `assert_no_usdc_residue` and
which no entry point takes out. Without any one of them, or any one of the ways
to be `Idle`, the property fails.

`registry` adds, re-weighs and removes signers in every order over three
ledgers, with histories pruned as early as they may be or later.
`WindowIsFaithful` and `PrunedFailsClosed` compare every lookup, of any age, with
what the ledger ended with. `RemovalNeverTraps` keeps the admin able to remove
anybody. In the same states every batch of up to three signatures is put to
`verify`: `AcceptedIsQuorate` says what an accepted one means, counted apart from
the code and against the past itself; `EveryoneIsEnough`, `CountNeverTraps` and
`CheckedSignatureNeverHurts` say what must not be refused; the last holds for a
check with the reference of the batch, and for one without a reference only as
long as the batch is for the current ledger (run `checked_today` shows what
happens otherwise). `QuorumsMeet` says
what a super-majority is for: two quorums of one ledger share a signer. It needs
more than half of the total to be *required*, which a fraction above one half does
not ensure, since it is rounded down: two thirds of a total of two are one, and
then either of two signers is enough. `RefusalsAreFinal` looks at steps: whatever
the admin does to the signers and whatever is pruned, what `verify` refuses for a
closed ledger it goes on refusing, until the threshold is changed.

`retired` follows one occurrence while two operators join, sign, leave and ledgers
close. `QuorumStood`: whoever makes the handler act was a quorum at a ledger of
the last `MAX_REFERENCE_BLOCK_AGE`. `LateQuorumCounts`: what a quorum of today
has signed can always be submitted successfully as far as verification goes,
however old the occurrence is. `MovesAreWarranted` is what the pool's liquidity
providers care about: but for the handler's admin, the delegated counter moves only
in answer to a trader's occurrence and the principal only to that or the schedule,
once for each, while not paused and with a recent quorum behind it. It is checked
here, where operators retire, and in `pipeline`, where several occurrences and
write-downs let harvests change the principal.

`pipeline` runs three triggers of different kinds, with their echoes, through
one operator. `KeepsPromise` is the refinement of `TriggeredAutomation`: a
submission repeated after its event was marked, two submissions overtaking each
other, and events nobody signed are all in it.

### Bounds, and why they are enough

* Six USDC in the pool (`MaxTotal`), two of interest, write-downs to 0, 1 or 3:
  positions above, at and below the principal occur in every combination with
  partial recalls; a larger pool repeats the same comparisons. The theorems below
  hold for all amounts.
* One unit of stray USDC and of BLND: the code compares both with zero only.
* Manual amounts -1, 1, 3: refused, partial, and up to everything.
* `cooldown` has four USDC, times 0 to 2, a cooldown of 2 and `U64_MAX` 3:
  before, at and after the end of the window, and a window that ends at the
  saturation point. A longer clock would add nothing, as only the distance from
  the last rebalance is read. `I128_MAX` 35 000 is below 10 000 times the
  largest pool and above that of the others, so both sides of the overflow check
  occur.
* `TargetBps` and `BandBps` of `cooldown` contain the refused values 0 and
  10000. The floor 2600 is valid with the band 1000 and refused with 6000;
  widening the band after setting it leaves the stale floor above the lower band
  that run `floor_stale` shows, and `CooldownProtects` covers that state too.
* `liveness` has three USDC, a cap of one, a dust floor of two, a cooldown of
  two, and one answer outstanding at a time: a move towards the band takes
  several answers, some of which find the cooldown active.
* Two signers with weights 0 (refused), 1 and 2, and `WEIGHT_MAX` 3: equal and
  unequal weights, one signer or both a quorum, and totals at and beyond the
  width. Three ledgers and a cutoff of one: a lookup at the edge of the window
  and one beyond it. Batches of three over two keys: repeated keys, in and out
  of order. Thresholds 1/2 and 2/3 round differently; 1/0, 0/1 and 3/2 are refused.
* `retired` needs two operators and three ledgers, so that a set can be retired
  for longer than the accepted age of one; its one occurrence cannot reach a
  harvest that changes the principal. `pipeline` needs several occurrences and one
  operator. `HISTORY_CUTOFF` equals `MAX_REFERENCE_BLOCK_AGE` in both, as the
  two constants do in the code (200 each, although the comment at
  `contract.rs:41` puts the age "well below" the retention).
* The configurations of the pipeline leave out the settings and manual moves of
  the handler, which `funds` and `cooldown` cover; unwinds, pauses, trades,
  interest and write-downs remain. They use the view `ButEvents`: the handler's
  event list is read by no action and no property of these runs, so states that
  differ in it only are explored once.

### Fairness

`RebalanceLiveness` assumes weak fairness of `Time` and of nothing else. That
rebalances happen is not something the code ensures: only swaps and liquidity
changes trigger one, operators may fail to sign, a submission may be lost, the
aggregator's callbacks do nothing, and an answer that reverts or finds the
cooldown active is not repeated. So that events keep being answered is the
premise of `Settles` (`[]<><<Answer>>`), not a fairness condition, and an answer
there may be any outcome of `verify_xlm`: a move, a no-op, or a revert
(`Reverts`). Nothing says that an answer comes when it would find something to
do: that follows, since time passes, no-ops leave the cooldown alone, and answers
never end.

`due` counts events not yet answered. The events themselves come from traders,
who need not stop: `PoolEvent` is a trade, or a pair of trades that cancel out
(`Churn`). The other premise is that disturbances end. A `Disturbance` is any
interference by the admin (moves, settings, unwind, pause), by Blend (interest,
write-downs, status) or by senders of USDC, and a trade that leaves the pool
unsettled. Before that they occur in any number and order, and whatever they
leave behind is a state `Settles` starts from. Harvests happen at any time and
need not happen at all. Emissions of BLND and calls that change nothing are left
out, as no rebalance reads them.

When the bounded clock is at its end, `Recede` lowers the last rebalance time by
one in place of raising the clock; the code reads only the difference.

### Where code and documentation disagree

* `set_target_ratio_bps` and `set_rebalance_band_bps` do not check the critical
  floor, which `tests.rs` takes to be below the lower band "by the setter
  invariant". A floor at or above the lower band makes the bypass overlap the
  normal window.
* With a dust floor set and no principal, an impossible bypass returns at the
  dust check. The event that is meant for this case is not emitted.
* `emergency_unwind` does nothing when the principal is zero, even if interest
  is still in Blend. It is documented as draining the entire position.
* After a write-down the pool's delegated counter keeps the loss. It no longer
  is "the principal currently parked in Blend", and targets are computed from it.
* `check_one` without a reference block is documented as a check before
  aggregation, by today's weights. `verify` counts the weights of the batch's
  reference block: the signature of somebody who joined since passes the check
  and makes `verify` refuse the whole batch.
* The dashboard's prediction is said to show "exactly what the handler would do"
  (`frontend/README.md`). It does not read the cooldown, nor whether the call would
  revert; `PredictionIsClose` says how far it can be off. There is no run of its
  own for it.
* The cap at `principal_supplied` is said to guard against write-downs, but the
  principal does not know of a write-down until a harvest.

## Theorems

All proofs are checked by TLAPS. They assume what the modules state as named
assumptions about their constants (`HandlerAssumption`, `WidthAssumption`,
`RegistryAssumption`, `BatchAssumption`, `PipelineAssumption`): amounts, settings,
weights and bounds are numbers of the right sign, there is at least one key, and
time stays below `U64_MAX`. Nothing else is assumed of the constants, and the
numbers of signers, ledgers, signatures and occurrences are arbitrary.

**The handler.** `AutomationHandlerProofs` first describes each money flow field
by field (`ToBlendResult` to `HarvestResult`). The inductive invariant `HandlerInv`
is `TypeOK`, `PrincipalWithinDelegated`, `PrincipalBacked`, and
`principal <= I128_MAX`. The last conjunct is what makes it inductive: the
harvest asks Blend for `i128::MAX`, and only if the principal fits below that
does "less than the principal came back" mean that the whole position came back.
The types say more than that amounts are natural: `TypeOK` keeps each ratio in
the range the constructor demands, the reserve token id odd, and the position
within `i128` (`SettersKeepTypes` has a step per setter). From the invariant follow
`TypeCorrect`, `PrincipalStaysWithinDelegated`, `PrincipalStaysBacked`,
`WayHomeStaysOpen`, `NoLeak`, and `RebalancesSucceed`: a lent amount is at most
the liquid part (`LendsSomething`), a recalled one at most the principal
(`RecallsPrincipal`), which the counter and, without a loss, the position cover.

`AutomationHandlerStepProofs` proves about steps:

* `HandlerKeepsCustody`: every step of the handler is a `Lend`, a `Return`, or a
  stutter of `DelegatedCustody`; every step of the environment is `Outside`.
* `PauseHolds` and `CooldownSpentByMoves`, by cases over all actions.
* `MovesConverge`: the exact target lies less than one unit above the truncated
  one (`TargetIsExact`), and a step at most the whole way to the truncated target
  approaches the exact one (`StepTowardsZero`).
* `CooldownHolds`: a truncated ratio below the floor means an exact one below it
  (`BelowQuotient`); saturation does not end a cooldown early (`TimeBound`).
* `BooksDriftOnlyByLosses`: each move keeps the distance of the two books
  (`MovesKeepDistance`), since the harvest and the unwind, where they differ, bring
  back less than the principal only by emptying the position (`BringsAll`). So, as
  long as there is no loss, the counter *is* the principal
  (`DelegatedIsPrincipalWithoutLoss`): what run `delegated_drift` refutes holds
  until the first write-down.
* `EventsAreTrue`: the figures computed before the nested calls are what the
  calls leave behind.
* `EmissionsReachTreasury`: every way through a harvest claims (`HarvestsRoute`),
  what a claim takes arrives (`ClaimArrives`), and its events say so
  (`HarvestEvents`).
* `DecisionsStayFit`: what moves has passed the check of the products, and target
  and width are at most the total (`ShareOfTotal`), so a pool that fits passes
  (`SmallPoolsAreComputable`).
* `HarvestsReconcile`: only a harvest says that it was one
  (`HarvestsTellOfThemselves`), and asking Blend for `i128::MAX` brings the whole
  position, which is an `i128` (`Funds`).

`DashboardProofs` shows `PredictionHolds`: target and width truncated apart and
together differ by at most one unit, so page and handler choose the same
direction except at `PageLower` or `PageUpper`.

**The registry.** A lookup is described once for each thing a push does
(`LookupPushed`, `LookupKept`, `PushedLookups`): in the window it is unchanged,
beyond it unchanged or zero. `SumsTo` states a sum by its running sums, so that
changing one weight shifts them (`SumShift`) without any induction; where the
least of something is needed, `LeastNatural` provides it. The inductive
invariant `RegistryInv` is `TypeOK`, `WindowIsFaithful`, `PrunedFailsClosed` and
`ListIsComplete`: the window alone is not inductive, since the next push reads
the old total, and the list needs the weights. `HistoriesStayFaithful`,
`PruningFailsClosed`, `RemovalsPass` and `ListStaysComplete` follow.

**Verification.** `QuorumInv` adds that every total, and the sum of the weights
of every past ledger, fits into `u64`; without the second part, a pruned total
would say nothing of the weights still readable at that ledger. `BatchSum` turns
the running sum over an ascending batch into the sum of its members' weights,
`SumMonotone` and `SumExists` compare and provide sums. `AcceptedAreQuorums`,
`CountsFit`, `EveryoneSuffices` and `CheckedSignaturesHelp` follow for batches
of any length; for the last, `CheckSeesWeight` shows that the two kinds of
reference it speaks of read the weight that `verify` counts. For
`QuorumsAlwaysMeet`, two batches without a common signer share out the weights
of one past ledger (`ReadsLedger`), so their counts together are no more than
its total (`SharesSum`). For `RefusalsStayFinal`, a step says of a closed ledger
what the state before said, or zero (`StepForgets`): a total of zero requires
nothing and is refused, and a batch with a weight of zero is refused, so what is
accepted after a step has the same weights and the same count (`CountedAlike`)
before it.

**The pipeline.** `PipelineRunsHandler` and `PipelineRunsRegistry` show that the
composition takes only steps of its parts, so every theorem above holds of it
(`PipelineKeepsBooks` says so for the books). `PipelineKeepsPromise` is the
refinement of `TriggeredAutomation`; its invariant `PipelineInv` adds to the
types that only occurrences which call for something are signed, which together
with "an accepted batch is not empty" excludes the echo. `EveryActHasItsTrigger`
draws the conclusion: actions are counted by occurrences. `QuorumAlwaysStood`
joins `AcceptedAreQuorums` with the deduplication and the age check: whenever
the operators make the handler act, a quorum of a recent ledger had signed this
event. `OnlyWarrantedMoves` turns this round: every step that changes a book is
the admin's or such an action (`OthersKeepBooks`), of the kind its occurrence
calls for (`ExecuteIsWarranted`). `LateQuorumsCount` is the other direction, for
batches long enough for everybody (`N <= MaxBatch`; the contract sets no limit):
`ListExists` arranges the members of a quorum in order, by a smallest
counterexample, and `QuorumVerifies` shows that `verify` accepts them.

Every invariant and action property of the passing runs is a theorem. Only
model-checked: `Settles`, which is liveness under fairness, and the six
statements of the documentation, which the code violates.

## Not modelled

* Two-step transfer of the admin role: `propose_admin` and `accept_admin` only
  call the shared crate, whose code is not in the repository. Every entry point
  of an admin here is called by whoever is admin.
* Contract upgrade (it replaces the program), TTL extension and archival (the
  ledger restores entries before they are read), views.
* Blend's and the pool's internals: shares, b-token rates, utilisation. They
  appear as changes of balances and as calls that may fail. Whether Blend refuses
  a supply at statuses 2 and 3 is answered twice: yes by `externals.rs:68`, no by
  `contract.rs:24` and `tests.rs:1286`. The model lets it succeed. A refusal only
  takes steps away, so the safety results hold either way.
* XDR, SEP-53 hashing, ed25519 and formatting. An envelope is the event it is
  about, a signature is good or not.
* Error codes: which check refuses an envelope first. All refusals leave the
  state as it was.
* Dashboard rendering, RPC reads and wallet calls, deployment scripts.

## Plan

Done: the handler with custody and liveness, the registry, verification, the
pipeline with its composition and promise, the dashboard's prediction, and a
theorem for every safety property of the runs. Left: ownership, once the shared
crate's source is at hand, and Blend's own accounting, should its source be.
