--------------------------- MODULE SignerRegistry ---------------------------
(***************************************************************************)
(* The ed25519-security contract: the operators' public keys, the weight   *)
(* of each, and the fraction of the total weight that makes a quorum.      *)
(* Weights and their total are kept as histories, so that a signature can  *)
(* be judged by the signer set of the ledger it was made at.               *)
(*                                                                         *)
(* The histories themselves are the shared crate's vec_history, which the  *)
(* repository uses and does not contain.  A history is modelled as the     *)
(* function from the ledgers it has an entry for to the values, and its    *)
(* promise as: the latest entry at or before a ledger governs it, a push   *)
(* replaces an entry of the same ledger, and old entries may be dropped as *)
(* long as each of the last HISTORY_CUTOFF ledgers keeps the entry that    *)
(* governs it.                                                             *)
(*                                                                         *)
(* Only the admin may call, an unauthorised call fails, and an action is   *)
(* one successful invocation.                                              *)
(***************************************************************************)
EXTENDS Integers, Sequences

CONSTANTS
    N,                  \* the keys are 1 .. N, in the order of their bytes
    Weights,            \* weights the admin tries
    Thresholds,         \* fractions the admin tries
    HISTORY_CUTOFF,     \* ledgers a history must reach back
    WEIGHT_MAX,         \* u64::MAX
    MaxLedger           \* bound on the ledger sequence

ASSUME RegistryAssumption ==
    /\ N \in Nat \ {0}
    /\ Weights \subseteq Nat
    /\ Thresholds \subseteq [numerator : Nat, denominator : Nat]
    /\ HISTORY_CUTOFF \in Nat /\ WEIGHT_MAX \in Nat /\ MaxLedger \in Nat

VARIABLES
    ledger,             \* sequence number of the current ledger
    weightHist,         \* SignerWeightHist(key)
    totalHist,          \* TotalWeightHist
    allSigners,         \* AllSigners, a sorted list
    threshold,
    past                \* observation: the weights each ledger so far ended with

vars == <<ledger, weightHist, totalHist, allSigners, threshold, past>>

Signers == 1 .. N
Ledgers == 0 .. ledger

IsHistory(h) == h \in [DOMAIN h -> Nat] /\ DOMAIN h \subseteq Ledgers
NoHistory == [l \in {} |-> 0]

ValidThreshold(t) ==
    /\ t.denominator > 0 /\ t.numerator > 0
    /\ t.numerator <= t.denominator

TypeOK ==
    /\ ledger \in Nat
    /\ weightHist = [k \in Signers |-> weightHist[k]]
    /\ \A k \in Signers : IsHistory(weightHist[k])
    /\ IsHistory(totalHist)
    /\ allSigners \in Seq(Signers)
    /\ threshold \in [numerator : Nat, denominator : Nat] /\ ValidThreshold(threshold)
    /\ past \in [Ledgers -> [Signers -> Nat]]

----------------------------------------------------------------------------
(* Histories.                                                              *)

\* The entry at ledger l governs ledger r.
Governs(h, l, r) == l <= r /\ \A m \in DOMAIN h : m <= r => m <= l

\* lookup_at: what a ledger without a governing entry reads is zero.
LookupAt(h, r) ==
    IF \E l \in DOMAIN h : Governs(h, l, r)
    THEN h[CHOOSE l \in DOMAIN h : Governs(h, l, r)]
    ELSE 0

\* No entry is ever later than the current ledger.
Latest(h) == LookupAt(h, ledger)

Pushed(h, v) == [l \in DOMAIN h \cup {ledger} |-> IF l = ledger THEN v ELSE h[l]]

Kept(h, first) == [l \in {m \in DOMAIN h : m >= first} |-> h[l]]

\* An entry all entries before which may be dropped.
Droppable(h, l) == l \in DOMAIN h /\ l + HISTORY_CUTOFF <= ledger

\* Faulty variant.
Pushes_DropsByAge(h, v) ==
    LET p == Pushed(h, v)
    IN  {p} \cup {Kept(p, l) : l \in {m \in 0 .. ledger : m + HISTORY_CUTOFF <= ledger}}

\* What push may leave of a history.
Pushes(h, v) ==
    LET p == Pushed(h, v)
    IN  {p} \cup {Kept(p, l) : l \in {m \in DOMAIN p : Droppable(p, m)}}

----------------------------------------------------------------------------
(* The list of signers.  Both loops stop at the first key that is not      *)
(* smaller, which is right only because the list is sorted.                *)

\* The place of key k, or the one after the last.
Place(s, k) ==
    CHOOSE p \in 1 .. Len(s) + 1 :
        /\ p <= Len(s) => s[p] >= k
        /\ \A i \in 1 .. p - 1 : s[i] < k

HasAt(s, p, k) == p <= Len(s) /\ s[p] = k

\* Faulty variant.
Inserted_AtEnd(s, k) ==
    IF HasAt(s, Place(s, k), k) THEN s ELSE Append(s, k)

Inserted(s, k) ==
    LET p == Place(s, k)
    IN  IF HasAt(s, p, k) THEN s
        ELSE [i \in 1 .. Len(s) + 1 |->
                IF i < p THEN s[i] ELSE IF i = p THEN k ELSE s[i - 1]]

Removed(s, k) ==
    LET p == Place(s, k)
    IN  IF HasAt(s, p, k)
        THEN [i \in 1 .. Len(s) - 1 |-> IF i < p THEN s[i] ELSE s[i + 1]]
        ELSE s

----------------------------------------------------------------------------

Init ==
    /\ ledger = 0
    /\ weightHist = [k \in Signers |-> NoHistory]
    /\ totalHist = NoHistory
    /\ allSigners = <<>>
    /\ threshold \in {t \in Thresholds : ValidThreshold(t)}
    /\ past = [l \in {0} |-> [k \in Signers |-> 0]]

\* Faulty variant.
Reweigh_Wraps(k, old, new) ==
    /\ \E h \in Pushes(weightHist[k], new) : weightHist' = [weightHist EXCEPT ![k] = h]
    /\ totalHist' \in Pushes(totalHist, (Latest(totalHist) - old + new) % (WEIGHT_MAX + 1))
    /\ past' = [past EXCEPT ![ledger][k] = new]
    /\ UNCHANGED <<ledger, threshold>>

\* A signer's weight changes from old to new, and the total with it; the
\* subtraction and the addition are checked.
Reweigh(k, old, new) ==
    LET rest == Latest(totalHist) - old
    IN  /\ rest >= 0 /\ rest + new <= WEIGHT_MAX
        /\ \E h \in Pushes(weightHist[k], new) : weightHist' = [weightHist EXCEPT ![k] = h]
        /\ totalHist' \in Pushes(totalHist, rest + new)
        /\ past' = [past EXCEPT ![ledger][k] = new]
        /\ UNCHANGED <<ledger, threshold>>

\* Faulty variant.
AddSigner_KeepsOldWeight(k, w) ==
    /\ w > 0
    /\ Reweigh(k, 0, w)
    /\ allSigners' = IF Latest(weightHist[k]) > 0 THEN allSigners ELSE Inserted(allSigners, k)

\* add_signer: a new signer, or a new weight for a known one.
AddSigner(k, w) ==
    /\ w > 0
    /\ Reweigh(k, Latest(weightHist[k]), w)
    /\ allSigners' = IF Latest(weightHist[k]) > 0 THEN allSigners ELSE Inserted(allSigners, k)

\* Faulty variant.
RemoveSigner_KeepsWeight(k) ==
    /\ Latest(weightHist[k]) > 0
    /\ totalHist' \in Pushes(totalHist, Latest(totalHist) - Latest(weightHist[k]))
    /\ allSigners' = Removed(allSigners, k)
    /\ UNCHANGED <<ledger, weightHist, threshold, past>>

\* remove_signer; for an unknown key it changes nothing.
RemoveSigner(k) ==
    /\ Latest(weightHist[k]) > 0
    /\ Reweigh(k, Latest(weightHist[k]), 0)
    /\ allSigners' = Removed(allSigners, k)

\* Faulty variant.
SetThreshold_Unchecked(t) ==
    /\ threshold' = t
    /\ UNCHANGED <<ledger, weightHist, totalHist, allSigners, past>>

SetThreshold(t) ==
    /\ ValidThreshold(t)
    /\ threshold' = t
    /\ UNCHANGED <<ledger, weightHist, totalHist, allSigners, past>>

\* A ledger closes; the next one starts with the weights it leaves.
Close ==
    /\ ledger < MaxLedger
    /\ ledger' = ledger + 1
    /\ past' = [l \in 0 .. ledger + 1 |-> IF l <= ledger THEN past[l] ELSE past[ledger]]
    /\ UNCHANGED <<weightHist, totalHist, allSigners, threshold>>

Administer ==
    \/ \E k \in Signers, w \in Weights : AddSigner(k, w)
    \/ \E k \in Signers : RemoveSigner(k)
    \/ \E t \in Thresholds : SetThreshold(t)

Next == Administer \/ Close

Spec == Init /\ [][Next]_vars

----------------------------------------------------------------------------
(* Queries.                                                                *)

SignerWeightAt(k, r) == LookupAt(weightHist[k], r)
TotalWeightAt(r) == LookupAt(totalHist, r)

\* Rounded down; the product is taken in u128 and does not overflow.
Required(total) == (total * threshold.numerator) \div threshold.denominator

\* Faulty variant.
RequiredWeightAt_Today(r) == Required(Latest(totalHist))

RequiredWeightAt(r) == Required(TotalWeightAt(r))

----------------------------------------------------------------------------
(* Invariants.                                                             *)

\* t is the sum of the weights w: p[k] is the sum of w[1], ..., w[k].
SumsTo(w, t) ==
    \E p \in [Signers -> 0 .. t] :
        /\ p[1] = w[1] /\ p[N] = t
        /\ \A k \in 2 .. N : p[k] = p[k - 1] + w[k]

\* The ledgers a history must be able to answer for.
Window == {r \in Ledgers : r + HISTORY_CUTOFF >= ledger}

\* For every ledger of the window the registry knows each signer's weight
\* and their exact sum, whatever was added, re-weighted, removed and pruned
\* since.  The weights and the total live in separate histories, each pruned
\* at times of its own.
WindowIsFaithful ==
    \A r \in Window :
        /\ \A k \in Signers : SignerWeightAt(k, r) = past[r][k]
        /\ SumsTo(past[r], TotalWeightAt(r))

\* Beyond the window a lookup may have been pruned to zero, and is exact
\* otherwise: an old ledger never shows a signer a weight it did not have,
\* nor a total, and so a quorum, smaller than it was; a total of zero is
\* refused by verify.
PrunedFailsClosed ==
    \A r \in Ledgers :
        /\ \A k \in Signers : SignerWeightAt(k, r) \in {0, past[r][k]}
        /\ TotalWeightAt(r) # 0 => SumsTo(past[r], TotalWeightAt(r))

\* The admin can remove or re-weight any signer: the checked subtraction
\* from the total does not trap.
RemovalNeverTraps ==
    \A k \in Signers : Latest(weightHist[k]) <= Latest(totalHist)

\* list_signers shows exactly the signers that count, each once, in order.
ListIsComplete ==
    /\ \A k \in Signers :
          Latest(weightHist[k]) > 0 <=> \E i \in DOMAIN allSigners : allSigners[i] = k
    /\ \A i, j \in DOMAIN allSigners : i < j => allSigners[i] < allSigners[j]

=============================================================================
