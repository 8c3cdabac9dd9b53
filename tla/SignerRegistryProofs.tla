------------------------ MODULE SignerRegistryProofs ------------------------
(***************************************************************************)
(* The registry's invariants, for any number of signers and any bounds.    *)
(*                                                                         *)
(* The inductive invariant RegistryInv says of each history that its       *)
(* lookups agree with the observed past: exactly within the window, and    *)
(* beyond it exactly or with zero.  A push changes the lookup of the       *)
(* current ledger only, and a pruning that keeps an entry old enough can   *)
(* only turn lookups before that entry into zero.  That the totals are     *)
(* sums is kept by shifting the running sums from the changed signer on.   *)
(***************************************************************************)
EXTENDS SignerRegistry, FiniteSetTheorems, TLAPS

----------------------------------------------------------------------------
(* Least elements, which stand in for induction.                           *)

\* Every non-empty set of naturals has a least element.
LEMMA LeastNatural ==
  ASSUME NEW S \in SUBSET Nat, NEW n \in S
  PROVE  \E m \in S : \A k \in S : m <= k
<1> DEFINE Below(m) == S \cap 0 .. m
           T == {Below(m) : m \in S}
           R == StrictSubsetOrdering(Nat)
<1>1. IsWellFoundedOn(R, FiniteSubsetsOf(Nat))
  BY FS_StrictSubsetOrderingWellFounded
<1>2. T \subseteq FiniteSubsetsOf(Nat) /\ T # {}
  <2>1. ASSUME NEW m \in S PROVE Below(m) \in FiniteSubsetsOf(Nat)
    <3>1. m \in Int BY SMT
    <3>2. IsFiniteSet(0 .. m) BY <3>1, FS_Interval
    <3>3. IsFiniteSet(Below(m)) BY <3>2, FS_Subset, Zenon
    <3> QED BY <3>3, Zenon DEF FiniteSubsetsOf
  <2> QED BY <2>1, Zenon
<1>3. PICK x \in T : \A y \in T : ~ (<<y, x>> \in R)
  <2> HIDE DEF R, T
  <2> QED BY <1>1, <1>2, WFMin, Zenon
<1>4. PICK m \in S : x = Below(m)
  BY Zenon
<1>5. ASSUME NEW k \in S, k < m PROVE FALSE
  <2>1. Below(k) \subseteq Below(m) /\ m \in Below(m) /\ m \notin Below(k)
    BY <1>5, SMT
  <2>2. Below(k) \in SUBSET Nat /\ Below(m) \in SUBSET Nat
    BY SMT
  <2>3. <<Below(k), Below(m)>> \in R
    BY <2>1, <2>2, Zenon DEF StrictSubsetOrdering
  <2> QED BY <2>3, <1>3, <1>4, Zenon
<1> QED BY <1>5, SMT

----------------------------------------------------------------------------
(* Histories.                                                              *)

\* The entry that governs a ledger is what a lookup finds.
LEMMA LookupGoverned ==
  ASSUME NEW h, DOMAIN h \subseteq Int, NEW r \in Int,
         NEW l \in DOMAIN h, Governs(h, l, r)
  PROVE  LookupAt(h, r) = h[l]
<1> DEFINE c == CHOOSE m \in DOMAIN h : Governs(h, m, r)
<1>1. c \in DOMAIN h /\ Governs(h, c, r)
  BY Zenon
<1>2. c = l
  <2> HIDE DEF c
  <2> QED BY <1>1, SMT DEF Governs
<1> QED BY <1>2, Zenon DEF LookupAt

\* Lookups are naturals.
LEMMA LookupType ==
  ASSUME NEW h, h \in [DOMAIN h -> Nat], NEW r
  PROVE  LookupAt(h, r) \in Nat
<1>1. CASE \E l \in DOMAIN h : Governs(h, l, r)
  <2> DEFINE c == CHOOSE m \in DOMAIN h : Governs(h, m, r)
  <2>1. c \in DOMAIN h
    BY <1>1, Zenon
  <2>2. LookupAt(h, r) = h[c]
    BY <1>1, Zenon DEF LookupAt
  <2> HIDE DEF c
  <2> QED BY <2>1, <2>2, SMT
<1>2. CASE ~ \E l \in DOMAIN h : Governs(h, l, r)
  BY <1>2, SMT DEF LookupAt
<1> QED BY <1>1, <1>2

\* Two histories with the same governing entry answer alike.
LEMMA LookupAlike ==
  ASSUME NEW g, NEW h, DOMAIN g \subseteq Int, DOMAIN h \subseteq Int, NEW r \in Int,
         \A l \in DOMAIN g : Governs(g, l, r) =>
            l \in DOMAIN h /\ Governs(h, l, r) /\ h[l] = g[l],
         \A l \in DOMAIN h : Governs(h, l, r) => l \in DOMAIN g /\ Governs(g, l, r)
  PROVE  LookupAt(g, r) = LookupAt(h, r)
<1>1. CASE \E l \in DOMAIN g : Governs(g, l, r)
  <2>1. PICK l \in DOMAIN g : Governs(g, l, r)
    BY <1>1
  <2>2. LookupAt(g, r) = g[l]
    BY <2>1, LookupGoverned
  <2>3. LookupAt(h, r) = h[l]
    BY <2>1, LookupGoverned
  <2> QED BY <2>1, <2>2, <2>3
<1>2. CASE ~ \E l \in DOMAIN g : Governs(g, l, r)
  <2>1. ~ \E l \in DOMAIN h : Governs(h, l, r)
    BY <1>2
  <2> QED BY <1>2, <2>1, Zenon DEF LookupAt
<1> QED BY <1>1, <1>2

\* A push is seen by the lookup of the current ledger and by no earlier one.
LEMMA LookupPushed ==
  ASSUME ledger \in Nat, NEW h, IsHistory(h), NEW v \in Nat, NEW r \in Ledgers
  PROVE  LookupAt(Pushed(h, v), r) = IF r = ledger THEN v ELSE LookupAt(h, r)
<1> DEFINE p == Pushed(h, v)
<1>1. /\ DOMAIN p = DOMAIN h \cup {ledger} /\ DOMAIN p \subseteq Int
      /\ DOMAIN h \subseteq 0 .. ledger /\ r \in Int
      /\ p[ledger] = v
      /\ \A l \in DOMAIN h : l # ledger => p[l] = h[l]
  BY DEF Pushed, IsHistory, Ledgers
<1> HIDE DEF p
<1>2. CASE r = ledger
  <2>1. ledger \in DOMAIN p /\ Governs(p, ledger, r)
    BY <1>1, <1>2 DEF Governs
  <2> QED BY <2>1, <1>1, <1>2, LookupGoverned DEF p
<1>3. CASE r # ledger
  <2>0. r < ledger
    BY <1>3 DEF Ledgers
  <2>1. \A l \in DOMAIN p : Governs(p, l, r) => l \in DOMAIN h /\ Governs(h, l, r) /\ h[l] = p[l]
    BY <1>1, <2>0 DEF Governs
  <2>2. \A l \in DOMAIN h : Governs(h, l, r) => l \in DOMAIN p /\ Governs(p, l, r)
    BY <1>1, <2>0 DEF Governs
  <2>3. LookupAt(p, r) = LookupAt(h, r)
    BY <2>1, <2>2, <1>1, LookupAlike
  <2> QED BY <2>3, <1>3 DEF p
<1> QED BY <1>2, <1>3

\* Dropping the entries before one that stays turns the lookups before it
\* into zero and leaves the others alone.
LEMMA LookupKept ==
  ASSUME NEW h, DOMAIN h \subseteq Int, NEW c \in DOMAIN h, NEW r \in Int
  PROVE  LookupAt(Kept(h, c), r) = IF r >= c THEN LookupAt(h, r) ELSE 0
<1> DEFINE q == Kept(h, c)
<1>1. /\ DOMAIN q = {m \in DOMAIN h : m >= c} /\ DOMAIN q \subseteq Int
      /\ \A l \in DOMAIN q : q[l] = h[l]
  BY DEF Kept
<1> HIDE DEF q
<1>2. CASE r >= c
  <2>1. \A l \in DOMAIN q : Governs(q, l, r) => l \in DOMAIN h /\ Governs(h, l, r) /\ h[l] = q[l]
    BY <1>1, <1>2, SMT DEF Governs
  <2>2. \A l \in DOMAIN h : Governs(h, l, r) => l \in DOMAIN q /\ Governs(q, l, r)
    BY <1>1, <1>2, SMT DEF Governs
  <2>3. LookupAt(q, r) = LookupAt(h, r)
    BY <2>1, <2>2, <1>1, LookupAlike
  <2> QED BY <2>3, <1>2 DEF q
<1>3. CASE ~ (r >= c)
  <2>1. ~ \E l \in DOMAIN q : Governs(q, l, r)
    BY <1>1, <1>3 DEF Governs
  <2> QED BY <2>1, <1>3, Zenon DEF LookupAt, q
<1> QED BY <1>2, <1>3

\* What a push leaves of a history: the new value now, and before now what
\* was there, or zero where the history need not reach.
LEMMA PushedLookups ==
  ASSUME ledger \in Nat, HISTORY_CUTOFF \in Nat,
         NEW h, IsHistory(h), NEW v \in Nat, NEW q \in Pushes(h, v)
  PROVE  /\ IsHistory(q)
         /\ LookupAt(q, ledger) = v
         /\ \A r \in Ledgers : r # ledger =>
               /\ LookupAt(q, r) \in {0, LookupAt(h, r)}
               /\ r \in Window => LookupAt(q, r) = LookupAt(h, r)
<1> DEFINE p == Pushed(h, v)
<1>1. IsHistory(p)
  BY DEF Pushed, IsHistory, Ledgers
<1>2. \A r \in Ledgers : LookupAt(p, r) = IF r = ledger THEN v ELSE LookupAt(h, r)
  BY LookupPushed
<1>3. CASE q = p
  BY <1>1, <1>2, <1>3 DEF Ledgers
<1>4. CASE \E c \in DOMAIN p : Droppable(p, c) /\ q = Kept(p, c)
  <2>1. PICK c \in DOMAIN p : c + HISTORY_CUTOFF <= ledger /\ q = Kept(p, c)
    BY <1>4 DEF Droppable
  <2> HIDE DEF p
  <2>2. DOMAIN p \subseteq 0 .. ledger /\ DOMAIN p \subseteq Int /\ c \in Int
    BY <1>1 DEF IsHistory, Ledgers
  <2>3. IsHistory(q)
    BY <1>1, <2>1 DEF IsHistory, Kept
  <2>4. \A r \in Ledgers : LookupAt(q, r) = IF r >= c THEN LookupAt(p, r) ELSE 0
    BY <2>1, <2>2, LookupKept DEF Ledgers
  <2>5. ledger \in Ledgers /\ ledger >= c
    BY <2>1, <2>2 DEF Ledgers
  <2>6. \A r \in Window : r >= c
    BY <2>1, <2>2 DEF Window, Ledgers
  <2> QED BY <1>2, <2>3, <2>4, <2>5, <2>6
<1> QED BY <1>3, <1>4, Zenon DEF Pushes

\* A history has nothing to say of the ledger to come yet.
LEMMA LookupNext ==
  ASSUME ledger \in Nat, NEW h, IsHistory(h)
  PROVE  LookupAt(h, ledger + 1) = LookupAt(h, ledger)
<1>1. DOMAIN h \subseteq Int /\ \A l \in DOMAIN h : l <= ledger
  BY DEF IsHistory, Ledgers
<1>2. \A l \in DOMAIN h : Governs(h, l, ledger + 1) <=> Governs(h, l, ledger)
  BY <1>1 DEF Governs
<1>3. CASE \E l \in DOMAIN h : Governs(h, l, ledger)
  <2>1. PICK l \in DOMAIN h : Governs(h, l, ledger)
    BY <1>3
  <2>2. LookupAt(h, ledger) = h[l]
    BY <1>1, <2>1, LookupGoverned
  <2>3. LookupAt(h, ledger + 1) = h[l]
    BY <1>1, <1>2, <2>1, LookupGoverned
  <2> QED BY <2>2, <2>3
<1>4. CASE ~ \E l \in DOMAIN h : Governs(h, l, ledger)
  <2>1. ~ \E l \in DOMAIN h : Governs(h, l, ledger + 1)
    BY <1>2, <1>4
  <2> QED BY <1>4, <2>1, Zenon DEF LookupAt
<1> QED BY <1>3, <1>4

----------------------------------------------------------------------------
(* Sums.                                                                   *)

\* Running sums grow, and leave room for each weight they contain.
LEMMA RunningSums ==
  ASSUME N \in Nat \ {0}, NEW w \in [Signers -> Nat], NEW t \in Nat,
         NEW p \in [Signers -> 0 .. t],
         p[1] = w[1], \A k \in 2 .. N : p[k] = p[k - 1] + w[k]
  PROVE  /\ \A i, j \in Signers : i <= j => p[i] <= p[j]
         /\ \A k \in Signers : w[k] <= p[k]
         /\ \A i, k \in Signers : i < k => p[i] + w[k] <= p[k]
<1>0. /\ 1 \in Signers /\ \A k \in Signers : k \in Nat /\ 1 <= k /\ k <= N
      /\ \A k \in Signers : k # 1 => k \in 2 .. N /\ k - 1 \in Signers
      /\ \A k \in Signers : p[k] \in Nat /\ w[k] \in Nat
  BY DEF Signers
<1>1. ASSUME NEW i \in Signers, NEW j \in Signers, i <= j, p[j] < p[i]
      PROVE  FALSE
  <2> DEFINE S == {m \in Signers : i <= m /\ p[m] < p[i]}
  <2>1. S \in SUBSET Nat /\ j \in S
    BY <1>0, <1>1
  <2>2. PICK m \in S : \A n \in S : m <= n
    <3> HIDE DEF S
    <3> QED BY <2>1, LeastNatural
  <2>3. m \in Signers /\ i <= m /\ p[m] < p[i] /\ m # i
    BY <1>0, <2>2
  <2>4. m - 1 \in Signers /\ i <= m - 1 /\ p[m] = p[m - 1] + w[m]
    BY <1>0, <2>3
  <2>5. m - 1 \notin S
    BY <1>0, <2>2, <2>3
  <2>6. p[m - 1] >= p[i]
    BY <1>0, <2>4, <2>5
  <2> QED BY <1>0, <2>3, <2>4, <2>6
<1>2. \A i, j \in Signers : i <= j => p[i] <= p[j]
  BY <1>0, <1>1
<1>3. \A k \in Signers : w[k] <= p[k]
  BY <1>0
<1>4. ASSUME NEW i \in Signers, NEW k \in Signers, i < k
      PROVE  p[i] + w[k] <= p[k]
  <2>1. k - 1 \in Signers /\ i <= k - 1 /\ p[k] = p[k - 1] + w[k]
    BY <1>0, <1>4
  <2>2. p[i] <= p[k - 1]
    BY <1>2, <2>1
  <2> QED BY <1>0, <2>1, <2>2
<1> QED BY <1>2, <1>3, <1>4

\* Changing one weight changes the sum by as much.
LEMMA SumShift ==
  ASSUME N \in Nat \ {0}, NEW w \in [Signers -> Nat], NEW t \in Nat, SumsTo(w, t),
         NEW k \in Signers, NEW v \in Nat
  PROVE  w[k] <= t /\ SumsTo([w EXCEPT ![k] = v], t - w[k] + v)
<1>1. PICK p \in [Signers -> 0 .. t] :
        /\ p[1] = w[1] /\ p[N] = t
        /\ \A i \in 2 .. N : p[i] = p[i - 1] + w[i]
  BY DEF SumsTo
<1>2. /\ \A i, j \in Signers : i <= j => p[i] <= p[j]
      /\ \A i \in Signers : w[i] <= p[i]
      /\ \A i, j \in Signers : i < j => p[i] + w[j] <= p[j]
  BY <1>1, RunningSums
<1>3. /\ 1 \in Signers /\ N \in Signers /\ k \in Int /\ 1 <= k /\ k <= N
      /\ \A i \in Signers : i \in Int /\ p[i] \in Nat /\ p[i] <= t /\ w[i] \in Nat
      /\ \A i \in 2 .. N : i \in Signers /\ i - 1 \in Signers
  BY DEF Signers
<1>4. w[k] <= t
  BY <1>2, <1>3
<1> DEFINE q == [i \in Signers |-> IF i < k THEN p[i] ELSE p[i] - w[k] + v]
           u == [w EXCEPT ![k] = v]
<1>5. q \in [Signers -> 0 .. t - w[k] + v]
  <2>1. ASSUME NEW i \in Signers PROVE q[i] \in 0 .. t - w[k] + v
    <3>1. CASE i < k
      <4>1. p[i] + w[k] <= p[k]
        BY <1>2, <3>1
      <4> QED BY <4>1, <1>3, <3>1
    <3>2. CASE ~ (i < k)
      <4>1. w[k] <= p[k] /\ p[k] <= p[i]
        BY <1>2, <1>3, <3>2
      <4> QED BY <4>1, <1>3, <3>2
    <3> QED BY <3>1, <3>2
  <2> QED BY <2>1
<1>6. q[1] = u[1]
  BY <1>1, <1>3
<1>7. q[N] = t - w[k] + v
  BY <1>1, <1>3
<1>8. ASSUME NEW i \in 2 .. N PROVE q[i] = q[i - 1] + u[i]
  <2>1. /\ i \in Signers /\ i - 1 \in Signers /\ p[i] = p[i - 1] + w[i] /\ i \in Int
        /\ p[i] \in Nat /\ p[i - 1] \in Nat /\ w[i] \in Nat /\ w[k] \in Nat
    BY <1>1, <1>3
  <2>2. CASE i < k
    BY <2>1, <2>2, <1>3
  <2>3. CASE i = k
    BY <2>1, <2>3, <1>3
  <2>4. CASE i > k
    BY <2>1, <2>4, <1>3
  <2> QED BY <2>1, <2>2, <2>3, <2>4, <1>3
<1>9. SumsTo(u, t - w[k] + v)
  <2> HIDE DEF q, u
  <2> QED BY <1>5, <1>6, <1>7, <1>8 DEF SumsTo
<1> QED BY <1>4, <1>9

\* No weights, no total.
LEMMA SumZero ==
  ASSUME N \in Nat \ {0}
  PROVE  SumsTo([k \in Signers |-> 0], 0)
<1> DEFINE z == [k \in Signers |-> 0]
<1>1. z \in [Signers -> 0 .. 0] /\ z[1] = z[1] /\ z[N] = 0
  BY DEF Signers
<1>2. \A k \in 2 .. N : z[k] = z[k - 1] + z[k]
  BY DEF Signers
<1> QED BY <1>1, <1>2, Zenon DEF SumsTo

----------------------------------------------------------------------------
(* The list of signers.                                                    *)

Ascending(s) == \A i, j \in DOMAIN s : i < j => s[i] < s[j]
Listed(s, k) == \E i \in DOMAIN s : s[i] = k

\* A function from 1 .. n is a sequence.
LEMMA Sequences1 ==
  ASSUME NEW S, NEW n \in Nat, NEW f \in [1 .. n -> S]
  PROVE  f \in Seq(S) /\ Len(f) = n /\ DOMAIN f = 1 .. n
OBVIOUS

\* The search finds a place, and in a sorted list the keys before it are
\* smaller and those after it larger.
LEMMA PlaceFound ==
  ASSUME N \in Nat \ {0}, NEW s \in Seq(Signers), NEW k \in Signers
  PROVE  /\ Place(s, k) \in 1 .. Len(s) + 1
         /\ Place(s, k) <= Len(s) => s[Place(s, k)] >= k
         /\ \A i \in 1 .. Place(s, k) - 1 : s[i] < k
<1> DEFINE T == {i \in 1 .. Len(s) + 1 : i <= Len(s) => s[i] >= k}
<1>0. /\ Len(s) \in Nat /\ k \in Int
      /\ \A i \in 1 .. Len(s) : s[i] \in Int
  BY DEF Signers
<1>1. T \in SUBSET Nat /\ Len(s) + 1 \in T
  BY <1>0
<1>2. PICK p \in T : \A i \in T : p <= i
  <2> HIDE DEF T
  <2> QED BY <1>1, LeastNatural
<1>3. p \in 1 .. Len(s) + 1 /\ (p <= Len(s) => s[p] >= k)
  BY <1>2
<1>4. ASSUME NEW i \in 1 .. p - 1 PROVE s[i] < k
  <2>1. i \in 1 .. Len(s) /\ i < p
    BY <1>0, <1>3
  <2>2. i \notin T
    BY <1>0, <1>2, <1>3, <2>1
  <2> QED BY <1>0, <2>1, <2>2
<1>5. \E q \in 1 .. Len(s) + 1 :
        (q <= Len(s) => s[q] >= k) /\ \A i \in 1 .. q - 1 : s[i] < k
  BY <1>3, <1>4
<1> QED BY <1>5, Zenon DEF Place

\* A sorted list has the key at its place or not at all.
LEMMA PlaceDecides ==
  ASSUME N \in Nat \ {0}, NEW s \in Seq(Signers), Ascending(s), NEW k \in Signers
  PROVE  /\ HasAt(s, Place(s, k), k) <=> Listed(s, k)
         /\ \A i \in DOMAIN s : i > Place(s, k) => s[i] > k
         /\ ~ Listed(s, k) => \A i \in DOMAIN s : i >= Place(s, k) => s[i] > k
<1> DEFINE p == Place(s, k)
<1>1. /\ p \in 1 .. Len(s) + 1
      /\ p <= Len(s) => s[p] >= k
      /\ \A i \in 1 .. p - 1 : s[i] < k
  BY PlaceFound
<1> HIDE DEF p
<1>2. /\ Len(s) \in Nat /\ DOMAIN s = 1 .. Len(s) /\ k \in Int
      /\ \A i \in DOMAIN s : s[i] \in Int
  BY DEF Signers
<1>3. \A i \in DOMAIN s : i > p => s[i] > k
  BY <1>1, <1>2 DEF Ascending
<1>4. HasAt(s, p, k) => Listed(s, k)
  BY <1>1, <1>2 DEF HasAt, Listed
<1>5. Listed(s, k) => HasAt(s, p, k)
  BY <1>1, <1>2, <1>3 DEF HasAt, Listed
<1>6. ~ Listed(s, k) => \A i \in DOMAIN s : i >= p => s[i] > k
  BY <1>1, <1>2, <1>3 DEF Listed
<1> QED BY <1>3, <1>4, <1>5, <1>6 DEF p

\* Inserting keeps the list sorted and adds the key, once.
LEMMA InsertedList ==
  ASSUME N \in Nat \ {0}, NEW s \in Seq(Signers), Ascending(s), NEW k \in Signers
  PROVE  /\ Inserted(s, k) \in Seq(Signers)
         /\ Ascending(Inserted(s, k))
         /\ \A j \in Signers : Listed(Inserted(s, k), j) <=> j = k \/ Listed(s, j)
<1> DEFINE p == Place(s, k)
<1>1. CASE Listed(s, k)
  <2>1. Inserted(s, k) = s
    BY <1>1, PlaceDecides DEF Inserted
  <2> QED BY <1>1, <2>1
<1>2. CASE ~ Listed(s, k)
  <2> DEFINE f == [i \in 1 .. Len(s) + 1 |->
                     IF i < p THEN s[i] ELSE IF i = p THEN k ELSE s[i - 1]]
  <2>1. Inserted(s, k) = f
    BY <1>2, PlaceDecides DEF Inserted
  <2>2. /\ p \in 1 .. Len(s) + 1
        /\ \A i \in 1 .. p - 1 : s[i] < k
        /\ \A i \in DOMAIN s : i >= p => s[i] > k
    BY <1>2, PlaceFound, PlaceDecides
  <2> HIDE DEF p
  <2>3. Len(s) \in Nat /\ DOMAIN s = 1 .. Len(s) /\ k \in Int /\ s \in [DOMAIN s -> Signers]
    BY DEF Signers
  <2>4. f \in [1 .. Len(s) + 1 -> Signers]
    BY <2>2, <2>3
  <2>5. f \in Seq(Signers) /\ DOMAIN f = 1 .. Len(s) + 1
    <3> HIDE DEF f
    <3> QED BY <2>3, <2>4, Sequences1
  <2>6. ASSUME NEW i \in DOMAIN f, NEW j \in DOMAIN f, i < j PROVE f[i] < f[j]
    <3>1. /\ i \in Int /\ j \in Int /\ \A m \in DOMAIN s : s[m] \in Int
          /\ \A m, n \in DOMAIN s : m < n => s[m] < s[n]
      BY <2>3, <2>5 DEF Ascending, Signers
    <3>2. CASE j < p
      BY <3>1, <3>2, <2>2, <2>3, <2>5, <2>6
    <3>3. CASE j = p
      BY <3>1, <3>3, <2>2, <2>3, <2>5, <2>6
    <3>4. CASE j > p
      BY <3>1, <3>4, <2>2, <2>3, <2>5, <2>6
    <3> QED BY <3>1, <3>2, <3>3, <3>4, <2>2
  <2>7. ASSUME NEW j \in Signers PROVE Listed(f, j) <=> j = k \/ Listed(s, j)
    <3>1. Listed(f, j) => j = k \/ Listed(s, j)
      BY <2>2, <2>3, <2>5 DEF Listed
    <3>2. j = k => Listed(f, j)
      BY <2>2, <2>3, <2>5 DEF Listed
    <3>3. ASSUME NEW i \in DOMAIN s PROVE Listed(f, s[i])
      <4>1. CASE i < p
        <5>1. i \in DOMAIN f /\ f[i] = s[i]
          BY <2>2, <2>3, <2>5, <4>1
        <5> QED BY <5>1 DEF Listed
      <4>2. CASE i >= p
        <5>1. i + 1 \in DOMAIN f /\ f[i + 1] = s[i]
          BY <2>2, <2>3, <2>5, <4>2
        <5> QED BY <5>1 DEF Listed
      <4> QED BY <4>1, <4>2, <2>2, <2>3
    <3> QED BY <3>1, <3>2, <3>3 DEF Listed
  <2> HIDE DEF f
  <2> QED BY <2>1, <2>5, <2>6, <2>7 DEF Ascending
<1> QED BY <1>1, <1>2

\* Removing keeps the list sorted and takes the key out.
LEMMA RemovedList ==
  ASSUME N \in Nat \ {0}, NEW s \in Seq(Signers), Ascending(s), NEW k \in Signers
  PROVE  /\ Removed(s, k) \in Seq(Signers)
         /\ Ascending(Removed(s, k))
         /\ \A j \in Signers : Listed(Removed(s, k), j) <=> j # k /\ Listed(s, j)
<1> DEFINE p == Place(s, k)
<1>1. CASE ~ Listed(s, k)
  <2>1. Removed(s, k) = s
    BY <1>1, PlaceDecides DEF Removed
  <2> QED BY <1>1, <2>1
<1>2. CASE Listed(s, k)
  <2> DEFINE f == [i \in 1 .. Len(s) - 1 |-> IF i < p THEN s[i] ELSE s[i + 1]]
  <2>1. Removed(s, k) = f /\ HasAt(s, p, k)
    BY <1>2, PlaceDecides DEF Removed
  <2>2. /\ p \in 1 .. Len(s) /\ s[p] = k
        /\ \A i \in 1 .. p - 1 : s[i] < k
        /\ \A i \in DOMAIN s : i > p => s[i] > k
    BY <2>1, PlaceFound, PlaceDecides DEF HasAt
  <2> HIDE DEF p
  <2>3. /\ Len(s) \in Nat /\ DOMAIN s = 1 .. Len(s) /\ k \in Int /\ s \in [DOMAIN s -> Signers]
        /\ Len(s) - 1 \in Nat
    BY <2>2 DEF Signers
  <2>4. f \in [1 .. Len(s) - 1 -> Signers]
    BY <2>2, <2>3
  <2>5. f \in Seq(Signers) /\ DOMAIN f = 1 .. Len(s) - 1
    <3> HIDE DEF f
    <3> QED BY <2>3, <2>4, Sequences1
  <2>6. ASSUME NEW i \in DOMAIN f, NEW j \in DOMAIN f, i < j PROVE f[i] < f[j]
    <3>1. /\ i \in Int /\ j \in Int /\ \A m \in DOMAIN s : s[m] \in Int
          /\ \A m, n \in DOMAIN s : m < n => s[m] < s[n]
      BY <2>3, <2>5 DEF Ascending, Signers
    <3> QED BY <3>1, <2>2, <2>3, <2>5, <2>6
  <2>7. ASSUME NEW j \in Signers PROVE Listed(f, j) <=> j # k /\ Listed(s, j)
    <3>1. Listed(f, j) => j # k /\ Listed(s, j)
      BY <2>2, <2>3, <2>5 DEF Listed
    <3>2. ASSUME NEW i \in DOMAIN s, s[i] # k PROVE Listed(f, s[i])
      <4>1. CASE i < p
        <5>1. i \in DOMAIN f /\ f[i] = s[i]
          BY <2>2, <2>3, <2>5, <4>1
        <5> QED BY <5>1 DEF Listed
      <4>2. CASE i > p
        <5>1. i - 1 \in DOMAIN f /\ f[i - 1] = s[i]
          BY <2>2, <2>3, <2>5, <4>2
        <5> QED BY <5>1 DEF Listed
      <4> QED BY <4>1, <4>2, <3>2, <2>2, <2>3
    <3> QED BY <3>1, <3>2 DEF Listed
  <2> HIDE DEF f
  <2> QED BY <2>1, <2>5, <2>6, <2>7 DEF Ascending
<1> QED BY <1>1, <1>2

----------------------------------------------------------------------------
(* The invariant.                                                          *)

RegistryInv == TypeOK /\ WindowIsFaithful /\ PrunedFailsClosed /\ ListIsComplete

\* A re-weighting leaves the observed past as it was, but for the weight of
\* this signer now, and every history of naturals.
LEMMA ReweighTypes ==
  ASSUME TypeOK, NEW k \in Signers, NEW old \in Nat, NEW v \in Nat, Reweigh(k, old, v)
  PROVE  /\ ledger' = ledger /\ threshold' = threshold
         /\ past' \in [Ledgers -> [Signers -> Nat]]
         /\ past'[ledger] = [past[ledger] EXCEPT ![k] = v]
         /\ \A r \in Ledgers : r # ledger => past'[r] = past[r]
         /\ weightHist' = [j \in Signers |-> weightHist'[j]]
         /\ weightHist'[k] \in Pushes(weightHist[k], v)
         /\ \A j \in Signers : j # k => weightHist'[j] = weightHist[j]
         /\ Latest(totalHist) - old + v \in Nat
         /\ totalHist' \in Pushes(totalHist, Latest(totalHist) - old + v)
<1>1. ledger \in Nat /\ ledger \in Ledgers /\ past \in [Ledgers -> [Signers -> Nat]]
  BY DEF TypeOK, Ledgers
<1>2. PICK h \in Pushes(weightHist[k], v) : weightHist' = [weightHist EXCEPT ![k] = h]
  BY DEF Reweigh
<1>3. weightHist = [j \in Signers |-> weightHist[j]]
  BY DEF TypeOK
<1>4. /\ weightHist' = [j \in Signers |-> weightHist'[j]]
      /\ weightHist'[k] = h
      /\ \A j \in Signers : j # k => weightHist'[j] = weightHist[j]
  BY <1>2, <1>3
<1>5. past' = [past EXCEPT ![ledger] = [past[ledger] EXCEPT ![k] = v]]
  BY <1>1 DEF Reweigh
<1>6. Latest(totalHist) \in Nat
  BY LookupType DEF TypeOK, IsHistory, Latest
<1>7. /\ ledger' = ledger /\ threshold' = threshold
      /\ Latest(totalHist) - old + v \in Nat
      /\ totalHist' \in Pushes(totalHist, Latest(totalHist) - old + v)
  BY <1>6 DEF Reweigh
<1> QED BY <1>1, <1>2, <1>4, <1>5, <1>7

\* A re-weighting by what the signer has keeps the histories true.
LEMMA ReweighKeeps ==
  ASSUME TypeOK, WindowIsFaithful, PrunedFailsClosed,
         NEW k \in Signers, NEW v \in Nat, Reweigh(k, Latest(weightHist[k]), v),
         allSigners' \in Seq(Signers)
  PROVE  /\ TypeOK' /\ WindowIsFaithful' /\ PrunedFailsClosed'
         /\ \A j \in Signers :
               Latest(weightHist[j])' = IF j = k THEN v ELSE Latest(weightHist[j])
<1> DEFINE old == Latest(weightHist[k])
           total == Latest(totalHist) - old + v
<1>1. /\ ledger \in Nat /\ HISTORY_CUTOFF \in Nat /\ N \in Nat \ {0}
      /\ ledger \in Ledgers /\ ledger \in Window /\ Window \subseteq Ledgers
      /\ past \in [Ledgers -> [Signers -> Nat]]
      /\ \A j \in Signers : IsHistory(weightHist[j])
      /\ IsHistory(totalHist)
  BY RegistryAssumption DEF TypeOK, Ledgers, Window
<1>2. old \in Nat /\ old = past[ledger][k]
  BY <1>1, LookupType DEF IsHistory, Latest, WindowIsFaithful, SignerWeightAt
<1>3. /\ ledger' = ledger /\ threshold' = threshold
      /\ past' \in [Ledgers -> [Signers -> Nat]]
      /\ past'[ledger] = [past[ledger] EXCEPT ![k] = v]
      /\ \A r \in Ledgers : r # ledger => past'[r] = past[r]
      /\ weightHist' = [j \in Signers |-> weightHist'[j]]
      /\ weightHist'[k] \in Pushes(weightHist[k], v)
      /\ \A j \in Signers : j # k => weightHist'[j] = weightHist[j]
      /\ total \in Nat
      /\ totalHist' \in Pushes(totalHist, total)
  BY <1>2, ReweighTypes
<1>4. /\ IsHistory(weightHist'[k])
      /\ LookupAt(weightHist'[k], ledger) = v
      /\ \A r \in Ledgers : r # ledger =>
            /\ LookupAt(weightHist'[k], r) \in {0, LookupAt(weightHist[k], r)}
            /\ r \in Window => LookupAt(weightHist'[k], r) = LookupAt(weightHist[k], r)
  <2> HIDE DEF total, old
  <2> QED BY <1>1, <1>3, PushedLookups
<1>5. /\ IsHistory(totalHist')
      /\ LookupAt(totalHist', ledger) = total
      /\ \A r \in Ledgers : r # ledger =>
            /\ LookupAt(totalHist', r) \in {0, LookupAt(totalHist, r)}
            /\ r \in Window => LookupAt(totalHist', r) = LookupAt(totalHist, r)
  <2> HIDE DEF total, old
  <2> QED BY <1>1, <1>3, PushedLookups
<1>6. Ledgers' = Ledgers /\ Window' = Window
  BY <1>3 DEF Ledgers, Window
<1>7. TypeOK'
  <2>1. \A j \in Signers : IsHistory(weightHist'[j])
    BY <1>1, <1>3, <1>4
  <2>2. \A h : IsHistory(h)' <=> IsHistory(h')
    BY <1>6 DEF IsHistory
  <2>3. (\A j \in Signers : IsHistory(weightHist[j]))' /\ IsHistory(totalHist)'
    BY <2>1, <1>5, <1>6 DEF IsHistory, Signers
  <2>4. (threshold \in [numerator : Nat, denominator : Nat] /\ ValidThreshold(threshold))'
    BY <1>3 DEF TypeOK, ValidThreshold
  <2> QED BY <2>3, <2>4, <1>1, <1>3, <1>6 DEF TypeOK, Signers
<1>8. ASSUME NEW r \in Ledgers, r # ledger, NEW j \in Signers
      PROVE  /\ LookupAt(weightHist'[j], r) \in {0, past'[r][j]}
             /\ r \in Window => LookupAt(weightHist'[j], r) = past'[r][j]
  <2>1. /\ LookupAt(weightHist[j], r) \in {0, past[r][j]}
        /\ r \in Window => LookupAt(weightHist[j], r) = past[r][j]
    BY <1>8, Zenon DEF WindowIsFaithful, PrunedFailsClosed, SignerWeightAt
  <2>2. past'[r] = past[r]
    BY <1>3, <1>8
  <2>3. CASE j = k
    <3>1. /\ LookupAt(weightHist'[j], r) \in {0, LookupAt(weightHist[j], r)}
          /\ r \in Window => LookupAt(weightHist'[j], r) = LookupAt(weightHist[j], r)
      BY <1>4, <1>8, <2>3
    <3> QED BY <2>1, <2>2, <3>1
  <2>4. CASE j # k
    BY <1>3, <2>1, <2>2, <2>4
  <2> QED BY <2>3, <2>4
<1>9. ASSUME NEW j \in Signers
      PROVE  LookupAt(weightHist'[j], ledger) = past'[ledger][j]
  <2>1. LookupAt(weightHist[j], ledger) = past[ledger][j]
    BY <1>1, Zenon DEF WindowIsFaithful, SignerWeightAt
  <2>2. past[ledger] \in [Signers -> Nat]
    BY <1>1
  <2>3. CASE j = k
    BY <1>3, <1>4, <2>2, <2>3
  <2>4. CASE j # k
    BY <1>3, <2>1, <2>2, <2>4
  <2> QED BY <2>3, <2>4
<1>10. SumsTo(past'[ledger], LookupAt(totalHist', ledger))
  <2>1. SumsTo(past[ledger], Latest(totalHist))
    BY <1>1 DEF WindowIsFaithful, TotalWeightAt, Latest
  <2>2. past[ledger] \in [Signers -> Nat] /\ Latest(totalHist) \in Nat
    BY <1>1, LookupType DEF IsHistory, Latest
  <2>3. SumsTo([past[ledger] EXCEPT ![k] = v], Latest(totalHist) - past[ledger][k] + v)
    BY <1>1, <2>1, <2>2, SumShift
  <2> QED BY <2>3, <1>2, <1>3, <1>5
<1>11. \A r \in Ledgers : r # ledger =>
        /\ LookupAt(totalHist', r) # 0 => SumsTo(past'[r], LookupAt(totalHist', r))
        /\ r \in Window => SumsTo(past'[r], LookupAt(totalHist', r))
  BY <1>3, <1>5, Zenon DEF WindowIsFaithful, PrunedFailsClosed, TotalWeightAt
<1>12. WindowIsFaithful'
  <2>1. \A r \in Window :
          /\ \A j \in Signers : LookupAt(weightHist'[j], r) = past'[r][j]
          /\ SumsTo(past'[r], LookupAt(totalHist', r))
    BY <1>1, <1>8, <1>9, <1>10, <1>11, Zenon
  <2> QED BY <2>1, <1>6, Zenon DEF WindowIsFaithful, SignerWeightAt, TotalWeightAt, Signers, SumsTo
<1>13. PrunedFailsClosed'
  <2>1. \A r \in Ledgers :
          /\ \A j \in Signers : LookupAt(weightHist'[j], r) \in {0, past'[r][j]}
          /\ LookupAt(totalHist', r) # 0 => SumsTo(past'[r], LookupAt(totalHist', r))
    BY <1>8, <1>9, <1>10, <1>11
  <2> QED BY <2>1, <1>6, Zenon DEF PrunedFailsClosed, SignerWeightAt, TotalWeightAt, Signers, SumsTo
<1>14. \A j \in Signers :
        Latest(weightHist[j])' = IF j = k THEN v ELSE Latest(weightHist[j])
  BY <1>3, <1>4 DEF Latest
<1> QED BY <1>7, <1>12, <1>13, <1>14

\* Initially nothing is known of the only ledger, and nothing was.
LEMMA RegistryInit ==
  ASSUME Init
  PROVE  RegistryInv
<1>1. ledger = 0 /\ Ledgers = {0} /\ N \in Nat \ {0}
  BY RegistryAssumption DEF Init, Ledgers
<1>2. \A r : LookupAt(NoHistory, r) = 0
  BY DEF NoHistory, LookupAt
<1>3. IsHistory(NoHistory)
  BY DEF IsHistory, NoHistory
<1>4. \A k \in Signers : weightHist[k] = NoHistory
  BY DEF Init
<1>5. TypeOK
  <2>1. threshold \in [numerator : Nat, denominator : Nat] /\ ValidThreshold(threshold)
    BY RegistryAssumption DEF Init
  <2>2. past \in [Ledgers -> [Signers -> Nat]]
    BY <1>1 DEF Init
  <2>3. weightHist = [k \in Signers |-> weightHist[k]] /\ IsHistory(totalHist)
    BY <1>3 DEF Init
  <2>4. allSigners \in Seq(Signers) /\ ledger \in Nat
    BY DEF Init
  <2> QED BY <1>3, <1>4, <2>1, <2>2, <2>3, <2>4 DEF TypeOK
<1>6. \A r \in Ledgers :
        /\ \A k \in Signers : SignerWeightAt(k, r) = past[r][k]
        /\ SumsTo(past[r], TotalWeightAt(r))
  <2>1. past[0] = [k \in Signers |-> 0] /\ totalHist = NoHistory
    BY DEF Init
  <2>2. SumsTo(past[0], TotalWeightAt(0))
    BY <1>1, <1>2, <2>1, SumZero DEF TotalWeightAt
  <2> QED BY <1>1, <1>2, <1>4, <2>1, <2>2 DEF SignerWeightAt
<1>7. WindowIsFaithful /\ PrunedFailsClosed
  BY <1>6 DEF WindowIsFaithful, PrunedFailsClosed, Window
<1>8. ListIsComplete
  BY <1>2, <1>4 DEF Init, ListIsComplete, Latest
<1> QED BY <1>5, <1>7, <1>8 DEF RegistryInv

\* What a list shows after a step, given the weights after it.
LEMMA ListFollows ==
  ASSUME ListIsComplete, NEW k \in Signers, NEW v \in Nat,
         \A j \in Signers :
            Latest(weightHist[j])' = IF j = k THEN v ELSE Latest(weightHist[j]),
         Ascending(allSigners'),
         \A j \in Signers : j # k => (Listed(allSigners', j) <=> Listed(allSigners, j)),
         v > 0 <=> Listed(allSigners', k)
  PROVE  ListIsComplete'
<1>1. \A j \in Signers : Latest(weightHist[j]) > 0 <=> Listed(allSigners, j)
  BY DEF ListIsComplete, Listed
<1>2. ASSUME NEW j \in Signers
      PROVE  Latest(weightHist[j])' > 0 <=> Listed(allSigners', j)
  BY <1>1
<1> QED BY <1>2 DEF ListIsComplete, Listed, Ascending, Signers

\* A step of the admin.
LEMMA AdministerKeeps ==
  ASSUME RegistryInv, Administer
  PROVE  RegistryInv'
<1>1. /\ TypeOK /\ WindowIsFaithful /\ PrunedFailsClosed /\ ListIsComplete
      /\ N \in Nat \ {0} /\ allSigners \in Seq(Signers) /\ Ascending(allSigners)
      /\ \A k \in Signers : Latest(weightHist[k]) > 0 <=> Listed(allSigners, k)
  BY RegistryAssumption DEF RegistryInv, TypeOK, ListIsComplete, Listed, Ascending
<1>2. ASSUME NEW k \in Signers, NEW w \in Weights, AddSigner(k, w)
      PROVE  RegistryInv'
  <2>1. w \in Nat /\ w > 0 /\ Reweigh(k, Latest(weightHist[k]), w)
    BY <1>2, RegistryAssumption DEF AddSigner
  <2>2. /\ allSigners' \in Seq(Signers) /\ Ascending(allSigners')
        /\ \A j \in Signers : Listed(allSigners', j) <=> j = k \/ Listed(allSigners, j)
    <3>1. CASE Latest(weightHist[k]) > 0
      <4>1. allSigners' = allSigners /\ Listed(allSigners, k)
        BY <1>1, <1>2, <3>1 DEF AddSigner
      <4> QED BY <1>1, <4>1
    <3>2. CASE ~ (Latest(weightHist[k]) > 0)
      <4>1. allSigners' = Inserted(allSigners, k)
        BY <1>2, <3>2 DEF AddSigner
      <4> QED BY <1>1, <4>1, InsertedList
    <3> QED BY <3>1, <3>2
  <2>3. /\ TypeOK' /\ WindowIsFaithful' /\ PrunedFailsClosed'
        /\ \A j \in Signers :
              Latest(weightHist[j])' = IF j = k THEN w ELSE Latest(weightHist[j])
    BY <1>1, <2>1, <2>2, ReweighKeeps
  <2>4. ListIsComplete'
    BY <1>1, <2>1, <2>2, <2>3, ListFollows
  <2> QED BY <2>3, <2>4 DEF RegistryInv
<1>3. ASSUME NEW k \in Signers, RemoveSigner(k)
      PROVE  RegistryInv'
  <2>1. Reweigh(k, Latest(weightHist[k]), 0) /\ allSigners' = Removed(allSigners, k)
    BY <1>3 DEF RemoveSigner
  <2>2. /\ allSigners' \in Seq(Signers) /\ Ascending(allSigners')
        /\ \A j \in Signers : Listed(allSigners', j) <=> j # k /\ Listed(allSigners, j)
    BY <1>1, <2>1, RemovedList
  <2>3. /\ TypeOK' /\ WindowIsFaithful' /\ PrunedFailsClosed'
        /\ \A j \in Signers :
              Latest(weightHist[j])' = IF j = k THEN 0 ELSE Latest(weightHist[j])
    BY <1>1, <2>1, <2>2, ReweighKeeps
  <2>4. ListIsComplete'
    BY <1>1, <2>2, <2>3, ListFollows
  <2> QED BY <2>3, <2>4 DEF RegistryInv
<1>4. ASSUME NEW t \in Thresholds, SetThreshold(t)
      PROVE  RegistryInv'
  <2>1. /\ ledger' = ledger /\ weightHist' = weightHist /\ totalHist' = totalHist
        /\ allSigners' = allSigners /\ past' = past
    BY <1>4 DEF SetThreshold
  <2>2. TypeOK'
    <3>1. (threshold \in [numerator : Nat, denominator : Nat] /\ ValidThreshold(threshold))'
      BY <1>4, RegistryAssumption DEF SetThreshold, ValidThreshold
    <3> QED BY <1>1, <2>1, <3>1 DEF TypeOK, IsHistory, Ledgers, Signers
  <2>3. WindowIsFaithful' /\ PrunedFailsClosed'
    BY <1>1, <2>1 DEF WindowIsFaithful, PrunedFailsClosed, Window, Ledgers, Signers,
                      SignerWeightAt, TotalWeightAt, SumsTo
  <2>4. ListIsComplete'
    BY <1>1, <2>1 DEF ListIsComplete, Signers, Latest
  <2> QED BY <2>2, <2>3, <2>4 DEF RegistryInv
<1> QED BY <1>2, <1>3, <1>4 DEF Administer

\* A ledger closes: the window moves on, and the new ledger starts as the
\* old one ended.
LEMMA CloseKeeps ==
  ASSUME RegistryInv, Close
  PROVE  RegistryInv'
<1>1. /\ ledger \in Nat /\ HISTORY_CUTOFF \in Nat /\ ledger' = ledger + 1
      /\ ledger \in Window /\ Ledgers' = Ledgers \cup {ledger + 1}
      /\ Window' \subseteq Window \cup {ledger + 1} /\ ledger + 1 \notin Ledgers
      /\ past \in [Ledgers -> [Signers -> Nat]]
      /\ \A k \in Signers : IsHistory(weightHist[k])
      /\ IsHistory(totalHist)
  BY RegistryAssumption DEF RegistryInv, TypeOK, Close, Ledgers, Window
<1>2. /\ weightHist' = weightHist /\ totalHist' = totalHist
      /\ allSigners' = allSigners /\ threshold' = threshold
  BY DEF Close
<1>3. /\ past' \in [Ledgers' -> [Signers -> Nat]]
      /\ \A r \in Ledgers : past'[r] = past[r]
      /\ past'[ledger + 1] = past[ledger]
  <2>1. past' = [l \in 0 .. ledger + 1 |-> IF l <= ledger THEN past[l] ELSE past[ledger]]
    BY DEF Close
  <2>2. Ledgers' = 0 .. ledger + 1 /\ Ledgers = 0 .. ledger
    BY <1>1 DEF Ledgers
  <2> QED BY <1>1, <2>1, <2>2
<1>4. /\ \A k \in Signers : LookupAt(weightHist[k], ledger + 1) = LookupAt(weightHist[k], ledger)
      /\ LookupAt(totalHist, ledger + 1) = LookupAt(totalHist, ledger)
  BY <1>1, LookupNext
<1>5. TypeOK'
  <2>1. \A h : IsHistory(h) => IsHistory(h)'
    BY <1>1 DEF IsHistory
  <2>2. (\A k \in Signers : IsHistory(weightHist[k]))' /\ IsHistory(totalHist)'
    BY <1>1, <1>2 DEF IsHistory, Signers
  <2>3. (threshold \in [numerator : Nat, denominator : Nat] /\ ValidThreshold(threshold))'
    BY <1>2 DEF RegistryInv, TypeOK, ValidThreshold
  <2> QED BY <1>1, <1>2, <1>3, <2>2, <2>3 DEF RegistryInv, TypeOK, Signers
<1>6. ASSUME NEW r \in Window'
      PROVE  /\ \A k \in Signers : LookupAt(weightHist[k], r) = past'[r][k]
             /\ SumsTo(past'[r], LookupAt(totalHist, r))
  <2>1. CASE r \in Window
    <3>1. r \in Ledgers
      BY <2>1 DEF Window
    <3> QED
      BY <1>3, <2>1, <3>1 DEF RegistryInv, WindowIsFaithful, SignerWeightAt, TotalWeightAt
  <2>2. CASE r = ledger + 1
    BY <1>1, <1>3, <1>4, <2>2 DEF RegistryInv, WindowIsFaithful, SignerWeightAt, TotalWeightAt
  <2> QED BY <1>1, <1>6, <2>1, <2>2
<1>7. ASSUME NEW r \in Ledgers'
      PROVE  /\ \A k \in Signers : LookupAt(weightHist[k], r) \in {0, past'[r][k]}
             /\ LookupAt(totalHist, r) # 0 => SumsTo(past'[r], LookupAt(totalHist, r))
  <2>1. CASE r \in Ledgers
    BY <1>3, <2>1, Zenon DEF RegistryInv, PrunedFailsClosed, SignerWeightAt, TotalWeightAt
  <2>2. CASE r = ledger + 1
    BY <1>1, <1>3, <1>4, <2>2 DEF RegistryInv, WindowIsFaithful, SignerWeightAt, TotalWeightAt
  <2> QED BY <1>1, <1>7, <2>1, <2>2
<1>8. WindowIsFaithful'
  BY <1>2, <1>6 DEF WindowIsFaithful, SignerWeightAt, TotalWeightAt, Signers, SumsTo
<1>9. PrunedFailsClosed'
  BY <1>2, <1>7 DEF PrunedFailsClosed, SignerWeightAt, TotalWeightAt, Signers, SumsTo
<1>10. ListIsComplete'
  <2>1. \A k \in Signers : Latest(weightHist[k])' = Latest(weightHist[k])
    BY <1>1, <1>2, <1>4 DEF Latest
  <2> QED BY <1>2, <2>1 DEF RegistryInv, ListIsComplete, Signers
<1> QED BY <1>5, <1>8, <1>9, <1>10 DEF RegistryInv

\* No step breaks the invariant.
LEMMA RegistryStep ==
  ASSUME RegistryInv, [Next]_vars
  PROVE  RegistryInv'
<1>1. ASSUME UNCHANGED vars PROVE RegistryInv'
  <2>1. /\ ledger' = ledger /\ weightHist' = weightHist /\ totalHist' = totalHist
        /\ allSigners' = allSigners /\ threshold' = threshold /\ past' = past
    BY <1>1 DEF vars
  <2>2. TypeOK'
    BY <2>1 DEF RegistryInv, TypeOK, IsHistory, Ledgers, Signers, ValidThreshold
  <2>3. WindowIsFaithful' /\ PrunedFailsClosed'
    BY <2>1 DEF RegistryInv, WindowIsFaithful, PrunedFailsClosed, Window, Ledgers,
                Signers, SignerWeightAt, TotalWeightAt, SumsTo
  <2>4. ListIsComplete'
    BY <2>1 DEF RegistryInv, ListIsComplete, Signers, Latest
  <2> QED BY <2>2, <2>3, <2>4 DEF RegistryInv
<1> QED BY <1>1, AdministerKeeps, CloseKeeps DEF Next

\* The histories agree with the past in every state.
THEOREM RegistryInvariant == Spec => []RegistryInv
<1>1. Init => RegistryInv
  BY RegistryInit
<1>2. RegistryInv /\ [Next]_vars => RegistryInv'
  BY RegistryStep
<1> QED BY <1>1, <1>2, PTL DEF Spec

\* No history holds an entry of the future or a negative weight, and the
\* threshold is always a fraction verify can work with.
THEOREM RegistryTypes == Spec => []TypeOK
<1>1. RegistryInv => TypeOK
  BY DEF RegistryInv
<1> QED BY <1>1, RegistryInvariant, PTL

\* Within HISTORY_CUTOFF ledgers every weight and the total are what they
\* were, for any number of signers and any order of the admin's calls.
THEOREM HistoriesStayFaithful == Spec => []WindowIsFaithful
<1>1. RegistryInv => WindowIsFaithful
  BY DEF RegistryInv
<1> QED BY <1>1, RegistryInvariant, PTL

\* Older lookups are exact or zero.
THEOREM PruningFailsClosed == Spec => []PrunedFailsClosed
<1>1. RegistryInv => PrunedFailsClosed
  BY DEF RegistryInv
<1> QED BY <1>1, RegistryInvariant, PTL

\* The total always covers each signer's weight.
THEOREM RemovalsPass == Spec => []RemovalNeverTraps
<1>1. ASSUME RegistryInv PROVE RemovalNeverTraps
  <2>1. /\ ledger \in Window /\ ledger \in Ledgers /\ N \in Nat \ {0}
        /\ past[ledger] \in [Signers -> Nat] /\ Latest(totalHist) \in Nat
    <3>1. /\ ledger \in Nat /\ HISTORY_CUTOFF \in Nat /\ N \in Nat \ {0}
          /\ past \in [Ledgers -> [Signers -> Nat]] /\ IsHistory(totalHist)
      BY <1>1, RegistryAssumption DEF RegistryInv, TypeOK
    <3>2. Latest(totalHist) \in Nat
      BY <3>1, LookupType DEF IsHistory, Latest
    <3> QED BY <3>1, <3>2 DEF Window, Ledgers
  <2>2. /\ SumsTo(past[ledger], Latest(totalHist))
        /\ \A k \in Signers : Latest(weightHist[k]) = past[ledger][k]
    BY <1>1, <2>1 DEF RegistryInv, WindowIsFaithful, SignerWeightAt, TotalWeightAt, Latest
  <2>3. \A k \in Signers : past[ledger][k] <= Latest(totalHist)
    BY <2>1, <2>2, SumShift
  <2> QED BY <2>2, <2>3 DEF RemovalNeverTraps
<1> QED BY <1>1, RegistryInvariant, PTL

\* The list shows the signers that count, sorted.
THEOREM ListStaysComplete == Spec => []ListIsComplete
<1>1. RegistryInv => ListIsComplete
  BY DEF RegistryInv
<1> QED BY <1>1, RegistryInvariant, PTL

=============================================================================
