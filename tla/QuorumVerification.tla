------------------------- MODULE QuorumVerification -------------------------
(***************************************************************************)
(* The ed25519-verification contract: whether a batch of signatures over   *)
(* an envelope carries the weight the registry requires at a reference     *)
(* ledger.  It keeps no state but its configuration; verify and check_one  *)
(* read the registry, so the module is about every state the registry can  *)
(* reach.                                                                  *)
(*                                                                         *)
(* A signature is "good" when the key's owner signed this envelope, "bad"  *)
(* when not (the host's ed25519_verify traps), and "zero" when all its     *)
(* bytes are zero.  All failures are alike: the caller gets no approval.   *)
(***************************************************************************)
EXTENDS SignerRegistry

CONSTANT MaxBatch       \* bound on the length of a batch

ASSUME BatchAssumption == MaxBatch \in Nat

Signatures == {"good", "bad", "zero"}

Batch(S) == UNION {[1 .. n -> S] : n \in 0 .. MaxBatch}

\* A reference may lie ahead of the ledger; verify does not mind.
References == 0 .. ledger + 1

----------------------------------------------------------------------------

\* verify_ed25519_prehashed returns normally.
Genuine(sig) == sig \notin {"zero", "bad"}

\* check_one's reference_block = None; a ledger is never negative.
NoReference == -1

\* Faulty variant.
CheckOne_Today(sig, key, ref) ==
    IF Genuine(sig) THEN Latest(weightHist[key]) ELSE 0

\* check_one: the weight of a signer, or zero for a refusal.
CheckOne(sig, key, ref) ==
    IF ~Genuine(sig) THEN 0
    ELSE IF ref = NoReference THEN Latest(weightHist[key])
    ELSE SignerWeightAt(key, ref)

\* The weight counted when the first i signers have passed.
Counted(keys, r) ==
    LET total[i \in 0 .. Len(keys)] ==
            IF i = 0 THEN 0 ELSE total[i - 1] + SignerWeightAt(keys[i], r)
    IN  total

\* Faulty variant.
InOrder_Loosely(keys) == \A i \in 2 .. Len(keys) : keys[i] >= keys[i - 1]

\* Strictly ascending, so that nobody is counted twice.
InOrder(keys) == \A i \in 2 .. Len(keys) : keys[i] > keys[i - 1]

\* verify returns Ok.
Verifies(sigs, keys, r) ==
    /\ Len(sigs) > 0 /\ Len(sigs) = Len(keys)
    /\ RequiredWeightAt(r) > 0
    /\ InOrder(keys)
    /\ \A i \in DOMAIN keys :
          /\ Genuine(sigs[i]) /\ SignerWeightAt(keys[i], r) > 0
          /\ Counted(keys, r)[i] <= WEIGHT_MAX
    /\ Counted(keys, r)[Len(keys)] >= RequiredWeightAt(r)

AllGood(keys) == [i \in DOMAIN keys |-> "good"]

----------------------------------------------------------------------------
(* Invariants.                                                             *)

\* The weights w of the signers in Q, and nobody else's.
Of(Q, w) == [k \in Signers |-> IF k \in Q THEN w[k] ELSE 0]

\* The signers in Q carried, at ledger r, the share of the weight that makes
\* a quorum today.
Quorate(Q, r) ==
    \E total \in 1 .. WEIGHT_MAX, carried \in 1 .. WEIGHT_MAX :
        /\ SumsTo(past[r], total) /\ SumsTo(Of(Q, past[r]), carried)
        /\ 0 < Required(total) /\ Required(total) <= carried

\* What verify accepts, a quorum of the reference ledger has signed: each
\* signer counted once, with the weight it had then, against the total of
\* then, and all of them signed.  It holds for every past reference, within
\* the histories' window or not.
AcceptedIsQuorate ==
    \A keys \in Batch(Signers), sigs \in Batch(Signatures), r \in Ledgers :
        Verifies(sigs, keys, r) =>
            /\ \A i \in DOMAIN keys : sigs[i] = "good"
            /\ Quorate({keys[i] : i \in DOMAIN keys}, r)

\* Counting a batch in order never overflows u64: the sum of the signers'
\* weights never did.
CountNeverTraps ==
    \A keys \in Batch(Signers), r \in References :
        InOrder(keys) => Counted(keys, r)[Len(keys)] <= WEIGHT_MAX

\* Whenever a quorum is required at all, the signers list_signers shows are
\* one, in the order verify demands.
EveryoneIsEnough ==
    RequiredWeightAt(ledger) > 0 => Verifies(AllGood(allSigners), allSigners, ledger)

\* An accepted batch stays accepted when a signature is put in at its place.
CanJoin(keys, k, r) ==
    Verifies(AllGood(keys), keys, r) =>
        Verifies(AllGood(Inserted(keys, k)), Inserted(keys, k), r)

\* The references to check_one that look at the weights verify counts at r:
\* r itself, and none at all as long as r is not a closed ledger.
Alike(r) == {r} \cup {ref \in {NoReference} : r >= ledger}

\* A signature that passed check_one, with the reference of the batch or
\* with none while that is the current ledger, never spoils an accepted
\* batch it joins: verify refuses a batch for one signer without weight.
CheckedSignatureNeverHurts ==
    \A keys \in Batch(Signers), k \in Signers, r \in References :
        \A ref \in Alike(r) :
            CheckOne("good", k, ref) > 0 => CanJoin(keys, k, r)

\* The signers who are enough at reference r, in order.
Quorums(r) == {keys \in Batch(Signers) : Verifies(AllGood(keys), keys, r)}

\* Where more than half of the total is required (the super-majority of
\* OPERATORS.md), any two quorums share a signer, so that no two envelopes
\* that exclude each other pass without somebody having signed both.  The
\* premise is about the weight required and not the fraction: rounded down,
\* two thirds of a total of two are one.
QuorumsMeet ==
    \A r \in References :
        2 * RequiredWeightAt(r) > TotalWeightAt(r) =>
            \A a, b \in Quorums(r) : \E i \in DOMAIN a, j \in DOMAIN b : a[i] = b[j]

----------------------------------------------------------------------------
(* Action properties.                                                      *)

\* Nothing the admin does to the signers, and no pruning, makes a quorum of
\* a closed ledger out of signers who were none: only a new threshold can.
RefusalsAreFinal ==
    [][threshold' = threshold =>
        \A r \in 0 .. ledger - 1 : \A keys \in Batch(Signers) :
            Verifies(AllGood(keys), keys, r)' => Verifies(AllGood(keys), keys, r)]_vars

----------------------------------------------------------------------------
(* Statements of the documentation, checked against the code.              *)

\* check_one is there "for pre-validation before aggregation", and "uses
\* current weights" unless told otherwise (README.md of the contract): what
\* passed it that way can join a batch for any recent reference.
PrevalidationHolds ==
    \A keys \in Batch(Signers), k \in Signers :
        CheckOne("good", k, NoReference) > 0 =>
            \A r \in 0 .. ledger : r + HISTORY_CUTOFF >= ledger => CanJoin(keys, k, r)

=============================================================================
