---------------------- MODULE QuorumVerificationProofs ----------------------
(***************************************************************************)
(* What verify accepts is a quorum, and what should be one it accepts, for *)
(* any number of signers, any batch and any reference.                     *)
(*                                                                         *)
(* Counting in ascending order gives running sums over the batch; spread   *)
(* over all signers, with the number of keys up to each, they are the      *)
(* running sums of the batch's weights (BatchSum).  Sums of this kind are  *)
(* compared signer by signer (SumMonotone).  That the totals fit into u64  *)
(* is an invariant of its own, TotalFits, on top of RegistryInv.           *)
(***************************************************************************)
EXTENDS QuorumVerification, SignerRegistryProofs

----------------------------------------------------------------------------
(* Counting.                                                               *)

\* A recursion along 0 .. n has a solution.
LEMMA Accumulates ==
  ASSUME NEW n \in Nat, NEW v \in [1 .. n -> Nat]
  PROVE  \E g : g = [i \in 0 .. n |-> IF i = 0 THEN 0 ELSE g[i - 1] + v[i]]
<1> DEFINE Sol(m) == \E g : g = [i \in 0 .. m |-> IF i = 0 THEN 0 ELSE g[i - 1] + v[i]]
           S == {m \in 0 .. n : ~Sol(m)}
<1>1. SUFFICES ASSUME ~Sol(n) PROVE FALSE
  OBVIOUS
<1>2. S \in SUBSET Nat /\ n \in S
  BY <1>1
<1>3. PICK m \in S : \A k \in S : m <= k
  <2> HIDE DEF S
  <2> QED BY <1>2, LeastNatural
<1>4. m \in 0 .. n /\ ~Sol(m)
  BY <1>3
<1>5. CASE m = 0
  <2> DEFINE g == [i \in 0 .. 0 |-> 0]
  <2>1. g = [i \in 0 .. 0 |-> IF i = 0 THEN 0 ELSE g[i - 1] + v[i]]
    OBVIOUS
  <2>2. Sol(0)
    BY <2>1
  <2> QED BY <1>4, <1>5, <2>2
<1>6. CASE m # 0
  <2>1. m - 1 \in 0 .. n /\ m \in 1 .. n /\ ~ (m <= m - 1)
    BY <1>4, <1>6
  <2>2. Sol(m - 1)
    BY <1>3, <2>1
  <2>3. PICK g : g = [i \in 0 .. m - 1 |-> IF i = 0 THEN 0 ELSE g[i - 1] + v[i]]
    BY <2>2
  <2> DEFINE h == [i \in 0 .. m |-> IF i < m THEN g[i] ELSE g[m - 1] + v[m]]
  <2>4. \A i \in 0 .. m : h[i] = IF i = 0 THEN 0 ELSE h[i - 1] + v[i]
    <3>1. ASSUME NEW i \in 0 .. m PROVE h[i] = IF i = 0 THEN 0 ELSE h[i - 1] + v[i]
      <4>1. CASE i = m
        BY <1>6, <2>1, <4>1
      <4>2. CASE i # m
        <5>1. i \in 0 .. m - 1 /\ i < m /\ (i # 0 => i - 1 \in 0 .. m /\ i - 1 < m)
          BY <2>1, <4>2
        <5>2. g[i] = IF i = 0 THEN 0 ELSE g[i - 1] + v[i]
          BY <2>3, <5>1
        <5> QED BY <5>1, <5>2
      <4> QED BY <4>1, <4>2
    <3> QED BY <3>1
  <2>5. h = [i \in 0 .. m |-> IF i = 0 THEN 0 ELSE h[i - 1] + v[i]]
    <3>1. h = [i \in 0 .. m |-> h[i]]
      OBVIOUS
    <3> HIDE DEF h
    <3> QED BY <2>4, <3>1
  <2>6. Sol(m)
    <3> HIDE DEF h
    <3> QED BY <2>5
  <2> QED BY <1>4, <2>6
<1> QED BY <1>5, <1>6

\* What such a recursion computes.
LEMMA Accumulated ==
  ASSUME NEW n \in Nat, NEW v \in [1 .. n -> Nat], NEW g,
         g = [i \in 0 .. n |-> IF i = 0 THEN 0 ELSE g[i - 1] + v[i]]
  PROVE  /\ g \in [0 .. n -> Nat] /\ g[0] = 0
         /\ \A i \in 1 .. n : g[i] = g[i - 1] + v[i]
         /\ \A i \in 0 .. n : g[i] <= g[n]
<1>1. g[0] = 0 /\ \A i \in 1 .. n : g[i] = g[i - 1] + v[i]
  <2>1. \A i \in 0 .. n : g[i] = IF i = 0 THEN 0 ELSE g[i - 1] + v[i]
    BY Zenon
  <2> QED BY <2>1
<1>2. ASSUME NEW j \in 0 .. n, g[j] \notin Nat PROVE FALSE
  <2> DEFINE S == {m \in 0 .. n : g[m] \notin Nat}
  <2>1. S \in SUBSET Nat /\ j \in S
    BY <1>2
  <2>2. PICK m \in S : \A k \in S : m <= k
    <3> HIDE DEF S
    <3> QED BY <2>1, LeastNatural
  <2>3. m \in 0 .. n /\ g[m] \notin Nat /\ m # 0
    BY <1>1, <2>2
  <2>4. m \in 1 .. n /\ m - 1 \in 0 .. n /\ ~ (m <= m - 1)
    BY <2>3
  <2>5. g[m - 1] \in Nat
    BY <2>2, <2>4
  <2> QED BY <1>1, <2>3, <2>4, <2>5
<1>3. g \in [0 .. n -> Nat]
  <2>1. g = [i \in 0 .. n |-> g[i]]
    BY Zenon
  <2> QED BY <1>2, <2>1
<1>4. ASSUME NEW j \in 0 .. n, ~ (g[j] <= g[n]) PROVE FALSE
  <2> DEFINE S == {m \in 0 .. n : j <= m /\ g[m] < g[j]}
  <2>1. S \in SUBSET Nat /\ n \in S
    BY <1>3, <1>4
  <2>2. PICK m \in S : \A k \in S : m <= k
    <3> HIDE DEF S
    <3> QED BY <2>1, LeastNatural
  <2>3. m \in 0 .. n /\ j <= m /\ g[m] < g[j] /\ m # j
    BY <1>3, <2>2
  <2>4. m \in 1 .. n /\ m - 1 \in 0 .. n /\ j <= m - 1 /\ ~ (m <= m - 1)
    BY <2>3
  <2>5. ~ (g[m - 1] < g[j])
    BY <2>2, <2>4
  <2>6. g[m] = g[m - 1] + v[m] /\ v[m] \in Nat /\ g[m - 1] \in Nat /\ g[j] \in Nat
    BY <1>1, <1>3, <2>4
  <2> QED BY <2>3, <2>5, <2>6
<1> QED BY <1>1, <1>3, <1>4

\* The weight counted after i signers.
LEMMA CountedSums ==
  ASSUME NEW keys \in Seq(Signers), NEW r, \A k \in Signers : SignerWeightAt(k, r) \in Nat
  PROVE  /\ Counted(keys, r) \in [0 .. Len(keys) -> Nat] /\ Counted(keys, r)[0] = 0
         /\ \A i \in 1 .. Len(keys) :
               Counted(keys, r)[i] = Counted(keys, r)[i - 1] + SignerWeightAt(keys[i], r)
         /\ \A i \in 0 .. Len(keys) : Counted(keys, r)[i] <= Counted(keys, r)[Len(keys)]
<1> DEFINE n == Len(keys)
           v == [i \in 1 .. n |-> SignerWeightAt(keys[i], r)]
           Step(g) == [i \in 0 .. n |-> IF i = 0 THEN 0 ELSE g[i - 1] + v[i]]
           Walk(g) == [i \in 0 .. n |->
                         IF i = 0 THEN 0 ELSE g[i - 1] + SignerWeightAt(keys[i], r)]
<1>1. n \in Nat /\ \A i \in 1 .. n : keys[i] \in Signers
  OBVIOUS
<1>2. v \in [1 .. n -> Nat]
  BY <1>1
<1>3. ASSUME NEW g PROVE Walk(g) = Step(g)
  <2>1. ASSUME NEW i \in 0 .. n
        PROVE  (IF i = 0 THEN 0 ELSE g[i - 1] + SignerWeightAt(keys[i], r))
                 = (IF i = 0 THEN 0 ELSE g[i - 1] + v[i])
    <3>1. i # 0 => i \in 1 .. n
      BY <1>1
    <3> QED BY <3>1
  <2> QED BY <2>1, Zenon
<1>4. \E g : g = Step(g)
  <2> HIDE DEF v, n
  <2> QED BY <1>1, <1>2, Accumulates
<1>5. \E g : g = Walk(g)
  <2> HIDE DEF Walk, Step
  <2> QED BY <1>3, <1>4
<1>6. Counted(keys, r) = CHOOSE g : g = Walk(g)
  BY Zenon DEF Counted
<1>7. Counted(keys, r) = Walk(Counted(keys, r))
  <2> HIDE DEF Walk
  <2> QED BY <1>5, <1>6, Zenon
<1>8. Counted(keys, r) = Step(Counted(keys, r))
  <2> HIDE DEF Walk, Step
  <2> QED BY <1>3, <1>7
<1> DEFINE c == Counted(keys, r)
<1>9. /\ c \in [0 .. n -> Nat] /\ c[0] = 0
      /\ \A i \in 1 .. n : c[i] = c[i - 1] + v[i]
      /\ \A i \in 0 .. n : c[i] <= c[n]
  <2> HIDE DEF c, n, v
  <2>1. c = [i \in 0 .. n |-> IF i = 0 THEN 0 ELSE c[i - 1] + v[i]]
    BY <1>8 DEF c
  <2> QED BY <1>1, <1>2, <2>1, Accumulated
<1>10. \A i \in 1 .. n : v[i] = SignerWeightAt(keys[i], r)
  OBVIOUS
<1> HIDE DEF c, v
<1> QED BY <1>9, <1>10 DEF c

\* Neighbours in order, all in order.
LEMMA InOrderAscends ==
  ASSUME NEW keys \in Seq(Signers), InOrder(keys)
  PROVE  Ascending(keys)
<1>1. /\ Len(keys) \in Nat /\ DOMAIN keys = 1 .. Len(keys)
      /\ \A i \in 1 .. Len(keys) : keys[i] \in Int
      /\ \A i \in 2 .. Len(keys) : keys[i] > keys[i - 1]
  <2>1. \A i \in 2 .. Len(keys) : keys[i] > keys[i - 1]
    BY Zenon DEF InOrder
  <2>2. /\ Len(keys) \in Nat /\ DOMAIN keys = 1 .. Len(keys)
        /\ \A i \in 1 .. Len(keys) : keys[i] \in Signers
    OBVIOUS
  <2> QED BY <2>1, <2>2 DEF Signers
<1>2. ASSUME NEW i \in 1 .. Len(keys), NEW j \in 1 .. Len(keys), i < j, ~ (keys[i] < keys[j])
      PROVE  FALSE
  <2> DEFINE S == {m \in 1 .. Len(keys) : i < m /\ ~ (keys[i] < keys[m])}
  <2>1. S \in SUBSET Nat /\ j \in S
    BY <1>2
  <2>2. PICK m \in S : \A k \in S : m <= k
    <3> HIDE DEF S
    <3> QED BY <2>1, LeastNatural
  <2>3. m \in 2 .. Len(keys) /\ i <= m - 1 /\ m - 1 \in 1 .. Len(keys) /\ ~ (m <= m - 1)
    BY <1>1, <2>2
  <2>4. keys[i] <= keys[m - 1]
    <3>1. CASE i = m - 1
      BY <1>1, <3>1
    <3>2. CASE i # m - 1
      BY <1>1, <2>2, <2>3, <3>2
    <3> QED BY <3>1, <3>2
  <2>5. keys[m - 1] < keys[m] /\ ~ (keys[i] < keys[m])
    BY <1>1, <2>2, <2>3
  <2> QED BY <1>1, <2>3, <2>4, <2>5
<1> QED BY <1>1, <1>2 DEF Ascending

\* How many keys of a batch are at most j.
UpTo(keys, j) ==
    CHOOSE m \in 0 .. Len(keys) : \A i \in 1 .. Len(keys) : i <= m <=> keys[i] <= j

LEMMA UpToCounts ==
  ASSUME N \in Nat \ {0}, NEW keys \in Seq(Signers), Ascending(keys), NEW j \in Signers
  PROVE  /\ UpTo(keys, j) \in 0 .. Len(keys)
         /\ \A i \in 1 .. Len(keys) : i <= UpTo(keys, j) <=> keys[i] <= j
<1> DEFINE p == Place(keys, j)
<1>1. /\ p \in 1 .. Len(keys) + 1
      /\ p <= Len(keys) => keys[p] >= j
      /\ \A i \in 1 .. p - 1 : keys[i] < j
      /\ \A i \in DOMAIN keys : i > p => keys[i] > j
  BY PlaceFound, PlaceDecides
<1> HIDE DEF p
<1>2. /\ Len(keys) \in Nat /\ DOMAIN keys = 1 .. Len(keys) /\ j \in Int
      /\ \A i \in 1 .. Len(keys) : keys[i] \in Int
  BY DEF Signers
<1>3. \E m \in 0 .. Len(keys) : \A i \in 1 .. Len(keys) : i <= m <=> keys[i] <= j
  <2>1. CASE p <= Len(keys) /\ keys[p] = j
    <3>1. p \in 0 .. Len(keys) /\ \A i \in 1 .. Len(keys) : i <= p <=> keys[i] <= j
      BY <1>1, <1>2, <2>1
    <3> QED BY <3>1
  <2>2. CASE ~ (p <= Len(keys) /\ keys[p] = j)
    <3>1. p - 1 \in 0 .. Len(keys) /\ \A i \in 1 .. Len(keys) : i <= p - 1 <=> keys[i] <= j
      BY <1>1, <1>2, <2>2
    <3> QED BY <3>1
  <2> QED BY <2>1, <2>2
<1> QED BY <1>3, Zenon DEF UpTo

\* Weights w of the keys, in ascending order, summed up by c; up counts the
\* keys up to each signer, and u is w restricted to the keys.
Spreads(n, keys, up, w, c, u) ==
    /\ \A i \in 1 .. n : keys[i] \in Signers
    /\ \A i, j \in 1 .. n : i < j => keys[i] < keys[j]
    /\ \A j \in Signers : up[j] \in 0 .. n
    /\ \A j \in Signers : \A i \in 1 .. n : i <= up[j] <=> keys[i] <= j
    /\ \A j \in Signers : w[j] \in Nat
    /\ c[0] = 0
    /\ \A i \in 0 .. n : c[i] \in Nat /\ c[i] <= c[n]
    /\ \A i \in 1 .. n : c[i] = c[i - 1] + w[keys[i]]
    /\ \A j \in Signers : \A i \in 1 .. n : keys[i] = j => u[j] = w[j]
    /\ \A j \in Signers : (\A i \in 1 .. n : keys[i] # j) => u[j] = 0

\* Running sums over an ascending batch are running sums over all signers.
LEMMA SpreadSums ==
  ASSUME N \in Nat \ {0}, NEW n \in Nat, NEW keys, NEW up, NEW w, NEW c, NEW u,
         Spreads(n, keys, up, w, c, u)
  PROVE  SumsTo(u, c[n])
<1> USE DEF Spreads
<1>1. /\ 1 \in Signers /\ N \in Signers
      /\ \A j \in Signers : j \in Int /\ 1 <= j /\ j <= N
      /\ \A j \in 2 .. N : j \in Signers /\ j - 1 \in Signers
      /\ \A i \in 1 .. n : keys[i] \in Int /\ 1 <= keys[i] /\ keys[i] <= N
  BY DEF Signers
<1>2. up[N] = n
  <2>1. CASE n = 0
    BY <1>1, <2>1
  <2>2. CASE n # 0
    <3>1. n \in 1 .. n /\ keys[n] <= N /\ up[N] \in 0 .. n
      BY <1>1, <2>2
    <3>2. n <= up[N]
      BY <1>1, <3>1
    <3> QED BY <3>1, <3>2
  <2> QED BY <2>1, <2>2
<1>3. ASSUME NEW j \in Signers, NEW i \in 1 .. n, keys[i] = j
      PROVE  up[j] = i /\ c[up[j]] = c[i - 1] + u[j]
  <2>1. up[j] \in 0 .. n /\ j \in Int /\ i <= up[j]
    BY <1>1, <1>3
  <2>2. ASSUME up[j] > i PROVE FALSE
    <3>1. up[j] \in 1 .. n
      BY <2>1, <2>2
    <3>2. keys[up[j]] <= j /\ keys[i] < keys[up[j]] /\ keys[up[j]] \in Int
      BY <1>1, <2>1, <2>2, <3>1
    <3> QED BY <1>3, <2>1, <3>2
  <2>3. up[j] = i
    BY <2>1, <2>2
  <2>4. c[i] = c[i - 1] + w[j] /\ u[j] = w[j]
    BY <1>3
  <2> QED BY <2>3, <2>4
<1>4. c[up[1]] = u[1]
  <2>1. CASE \E i \in 1 .. n : keys[i] = 1
    <3>1. PICK i \in 1 .. n : keys[i] = 1
      BY <2>1
    <3>2. i = 1
      <4>1. ASSUME i # 1 PROVE FALSE
        <5>1. 1 \in 1 .. n /\ 1 < i
          BY <4>1
        <5>2. keys[1] < keys[i] /\ keys[1] \in Int /\ 1 <= keys[1]
          BY <1>1, <5>1
        <5> QED BY <3>1, <5>2
      <4> QED BY <4>1
    <3>3. c[up[1]] = c[i - 1] + u[1] /\ u[1] = w[1] /\ w[1] \in Nat
      BY <1>1, <1>3, <3>1
    <3> QED BY <3>2, <3>3
  <2>2. CASE \A i \in 1 .. n : keys[i] # 1
    <3>1. up[1] \in 0 .. n
      BY <1>1
    <3>2. ASSUME up[1] # 0 PROVE FALSE
      <4>1. up[1] \in 1 .. n
        BY <3>1, <3>2
      <4>2. keys[up[1]] <= 1 /\ keys[up[1]] \in Int /\ 1 <= keys[up[1]]
        BY <1>1, <4>1
      <4> QED BY <2>2, <4>1, <4>2
    <3> QED BY <1>1, <2>2, <3>2
  <2> QED BY <2>1, <2>2
<1>5. ASSUME NEW j \in 2 .. N PROVE c[up[j]] = c[up[j - 1]] + u[j]
  <2>1. /\ j \in Signers /\ j - 1 \in Signers /\ j \in Int
        /\ up[j] \in 0 .. n /\ up[j - 1] \in 0 .. n
    BY <1>1
  <2>2. CASE \E i \in 1 .. n : keys[i] = j
    <3>1. PICK i \in 1 .. n : keys[i] = j
      BY <2>2
    <3>2. c[up[j]] = c[i - 1] + u[j]
      BY <1>3, <2>1, <3>1
    <3>3. ~ (i <= up[j - 1])
      <4>1. ~ (keys[i] <= j - 1)
        BY <2>1, <3>1
      <4> QED BY <2>1, <4>1
    <3>4. i - 1 <= up[j - 1]
      <4>1. CASE i = 1
        BY <2>1, <4>1
      <4>2. CASE i # 1
        <5>1. i - 1 \in 1 .. n /\ i - 1 < i
          BY <4>2
        <5>2. keys[i - 1] < keys[i] /\ keys[i - 1] \in Int
          BY <1>1, <5>1
        <5>3. keys[i - 1] <= j - 1
          BY <2>1, <3>1, <5>2
        <5> QED BY <2>1, <5>1, <5>3
      <4> QED BY <4>1, <4>2
    <3>5. up[j - 1] = i - 1
      BY <2>1, <3>3, <3>4
    <3> QED BY <3>2, <3>5
  <2>3. CASE \A i \in 1 .. n : keys[i] # j
    <3>1. ASSUME NEW i \in 1 .. n PROVE i <= up[j] <=> i <= up[j - 1]
      <4>1. keys[i] # j /\ keys[i] \in Int
        BY <1>1, <2>3
      <4>2. keys[i] <= j <=> keys[i] <= j - 1
        BY <2>1, <4>1
      <4> QED BY <2>1, <4>2
    <3>2. up[j] = up[j - 1]
      <4>1. up[j] # 0 => up[j] \in 1 .. n
        BY <2>1
      <4>2. up[j - 1] # 0 => up[j - 1] \in 1 .. n
        BY <2>1
      <4> QED BY <2>1, <3>1, <4>1, <4>2
    <3>3. c[up[j]] \in Nat /\ u[j] = 0
      BY <2>1, <2>3
    <3> QED BY <3>2, <3>3
  <2> QED BY <2>2, <2>3
<1> DEFINE q == [j \in Signers |-> c[up[j]]]
<1>6. \A j \in Signers : q[j] = c[up[j]]
  OBVIOUS
<1>7. q \in [Signers -> 0 .. c[n]]
  <2>1. ASSUME NEW j \in Signers PROVE c[up[j]] \in 0 .. c[n]
    <3>1. up[j] \in 0 .. n /\ n \in 0 .. n
      OBVIOUS
    <3>2. c[up[j]] \in Nat /\ c[up[j]] <= c[n] /\ c[n] \in Nat
      BY <3>1
    <3> QED BY <3>2
  <2> QED BY <2>1
<1> HIDE DEF q
<1>8. q[1] = u[1] /\ q[N] = c[n] /\ \A j \in 2 .. N : q[j] = q[j - 1] + u[j]
  BY <1>1, <1>2, <1>4, <1>5, <1>6
<1> QED BY <1>7, <1>8 DEF SumsTo

\* The count over an ascending batch is the sum of its members' weights.
LEMMA BatchSum ==
  ASSUME N \in Nat \ {0}, NEW keys \in Seq(Signers), Ascending(keys),
         NEW w \in [Signers -> Nat],
         NEW c \in [0 .. Len(keys) -> Nat], c[0] = 0,
         \A i \in 1 .. Len(keys) : c[i] = c[i - 1] + w[keys[i]],
         \A i \in 0 .. Len(keys) : c[i] <= c[Len(keys)]
  PROVE  SumsTo(Of({keys[i] : i \in DOMAIN keys}, w), c[Len(keys)])
<1> DEFINE n == Len(keys)
           u == Of({keys[i] : i \in DOMAIN keys}, w)
           up == [j \in Signers |-> UpTo(keys, j)]
<1>1. /\ n \in Nat /\ DOMAIN keys = 1 .. n
      /\ \A i \in 1 .. n : keys[i] \in Signers
      /\ \A i, j \in 1 .. n : i < j => keys[i] < keys[j]
  BY DEF Ascending
<1>2. /\ \A j \in Signers : up[j] \in 0 .. n
      /\ \A j \in Signers : \A i \in 1 .. n : i <= up[j] <=> keys[i] <= j
  <2>1. \A j \in Signers : up[j] = UpTo(keys, j)
    OBVIOUS
  <2> HIDE DEF up
  <2> QED BY <2>1, UpToCounts
<1>3. /\ \A j \in Signers : \A i \in 1 .. n : keys[i] = j => u[j] = w[j]
      /\ \A j \in Signers : (\A i \in 1 .. n : keys[i] # j) => u[j] = 0
  <2>1. \A j \in Signers : u[j] = IF \E i \in 1 .. n : keys[i] = j THEN w[j] ELSE 0
    BY <1>1, Zenon DEF Of
  <2> HIDE DEF u, n
  <2> QED BY <2>1
<1>4. /\ \A j \in Signers : w[j] \in Nat
      /\ \A i \in 0 .. n : c[i] \in Nat /\ c[i] <= c[n]
      /\ \A i \in 1 .. n : c[i] = c[i - 1] + w[keys[i]]
  BY <1>1
<1>5. SumsTo(u, c[n])
  <2> HIDE DEF u, n, up
  <2>1. Spreads(n, keys, up, w, c, u)
    BY <1>1, <1>2, <1>3, <1>4 DEF Spreads, n
  <2> QED BY <1>1, <2>1, SpreadSums
<1> QED BY <1>5

\* Smaller weights have a smaller sum.
LEMMA SumMonotone ==
  ASSUME N \in Nat \ {0}, NEW v, NEW w, NEW s \in Nat, NEW t \in Nat,
         \A k \in Signers : v[k] \in Nat /\ w[k] \in Nat /\ v[k] <= w[k],
         SumsTo(v, s), SumsTo(w, t)
  PROVE  s <= t
<1>1. PICK p \in [Signers -> 0 .. s] :
        p[1] = v[1] /\ p[N] = s /\ \A k \in 2 .. N : p[k] = p[k - 1] + v[k]
  BY DEF SumsTo
<1>2. PICK q \in [Signers -> 0 .. t] :
        q[1] = w[1] /\ q[N] = t /\ \A k \in 2 .. N : q[k] = q[k - 1] + w[k]
  BY DEF SumsTo
<1>3. /\ 1 \in Signers /\ N \in Signers /\ Signers \subseteq Nat
      /\ \A k \in Signers : k # 1 => k \in 2 .. N /\ k - 1 \in Signers /\ k - 1 < k
      /\ \A k \in Signers : p[k] \in Nat /\ q[k] \in Nat
  BY DEF Signers
<1>4. SUFFICES ASSUME ~ (s <= t) PROVE FALSE
  OBVIOUS
<1> DEFINE S == {k \in Signers : ~ (p[k] <= q[k])}
<1>5. S \in SUBSET Nat /\ N \in S
  BY <1>1, <1>2, <1>3, <1>4
<1>6. PICK m \in S : \A k \in S : m <= k
  <2> HIDE DEF S
  <2> QED BY <1>5, LeastNatural
<1>7. m \in Signers /\ m \in Nat /\ ~ (p[m] <= q[m]) /\ m # 1
  BY <1>1, <1>2, <1>3, <1>6
<1>8. m \in 2 .. N /\ m - 1 \in Signers /\ ~ (m <= m - 1)
  BY <1>3, <1>7
<1>9. p[m - 1] <= q[m - 1]
  BY <1>6, <1>8
<1>10. /\ p[m] = p[m - 1] + v[m] /\ q[m] = q[m - 1] + w[m] /\ v[m] <= w[m]
       /\ v[m] \in Nat /\ w[m] \in Nat /\ p[m - 1] \in Nat /\ q[m - 1] \in Nat
  BY <1>1, <1>2, <1>3, <1>7, <1>8
<1> QED BY <1>7, <1>9, <1>10

\* Weights have a sum.
LEMMA SumExists ==
  ASSUME N \in Nat \ {0}, NEW w \in [Signers -> Nat]
  PROVE  \E t \in Nat : SumsTo(w, t)
<1>1. N \in Nat /\ w \in [1 .. N -> Nat]
  BY DEF Signers
<1>2. PICK g : g = [i \in 0 .. N |-> IF i = 0 THEN 0 ELSE g[i - 1] + w[i]]
  BY <1>1, Accumulates
<1>3. /\ g \in [0 .. N -> Nat] /\ g[0] = 0
      /\ \A i \in 1 .. N : g[i] = g[i - 1] + w[i]
      /\ \A i \in 0 .. N : g[i] <= g[N]
  BY <1>1, <1>2, Accumulated
<1> DEFINE q == [k \in Signers |-> g[k]]
<1>4. /\ \A k \in Signers : q[k] = g[k]
      /\ \A k \in Signers : g[k] \in 0 .. g[N]
      /\ g[N] \in Nat
  <2>1. ASSUME NEW k \in Signers PROVE g[k] \in 0 .. g[N]
    <3>1. k \in 0 .. N /\ N \in 0 .. N
      BY DEF Signers
    <3>2. g[k] \in Nat /\ g[N] \in Nat /\ g[k] <= g[N]
      BY <1>3, <3>1
    <3> QED BY <3>2
  <2>2. N \in 0 .. N
    OBVIOUS
  <2> QED BY <1>3, <2>1, <2>2
<1>5. q \in [Signers -> 0 .. g[N]]
  BY <1>4
<1>6. /\ 1 \in Signers /\ N \in Signers /\ 1 \in 1 .. N
      /\ \A k \in 2 .. N : k \in 1 .. N /\ k \in Signers /\ k - 1 \in Signers
  BY DEF Signers
<1>7. g[1] = w[1]
  <2>1. g[1] = g[0] + w[1] /\ w[1] \in Nat
    BY <1>3, <1>6
  <2> QED BY <1>3, <2>1
<1> HIDE DEF q
<1>8. q[1] = w[1] /\ q[N] = g[N] /\ \A k \in 2 .. N : q[k] = q[k - 1] + w[k]
  BY <1>3, <1>4, <1>6, <1>7
<1>9. SumsTo(w, g[N])
  BY <1>5, <1>8 DEF SumsTo
<1> QED BY <1>4, <1>9

----------------------------------------------------------------------------
(* Batches over the registry.                                              *)

Members(keys) == {keys[i] : i \in DOMAIN keys}

\* What verify reads of the signers for reference r.
Read(r) == [k \in Signers |-> SignerWeightAt(k, r)]

\* The weight verify counts is the sum of what it reads of the members.
LEMMA BatchCount ==
  ASSUME N \in Nat \ {0}, NEW keys \in Seq(Signers), InOrder(keys), NEW r,
         \A k \in Signers : SignerWeightAt(k, r) \in Nat
  PROVE  /\ Counted(keys, r)[Len(keys)] \in Nat
         /\ \A i \in DOMAIN keys : Counted(keys, r)[i] <= Counted(keys, r)[Len(keys)]
         /\ SumsTo(Of(Members(keys), Read(r)), Counted(keys, r)[Len(keys)])
<1> DEFINE c == Counted(keys, r)
<1>1. /\ c \in [0 .. Len(keys) -> Nat] /\ c[0] = 0
      /\ \A i \in 1 .. Len(keys) : c[i] = c[i - 1] + SignerWeightAt(keys[i], r)
      /\ \A i \in 0 .. Len(keys) : c[i] <= c[Len(keys)]
  BY CountedSums
<1>2. /\ Len(keys) \in Nat /\ DOMAIN keys = 1 .. Len(keys)
      /\ \A i \in 1 .. Len(keys) : keys[i] \in Signers
  OBVIOUS
<1>3. /\ Read(r) \in [Signers -> Nat]
      /\ \A k \in Signers : Read(r)[k] = SignerWeightAt(k, r)
  BY DEF Read
<1> HIDE DEF c
<1>4. \A i \in 1 .. Len(keys) : c[i] = c[i - 1] + Read(r)[keys[i]]
  BY <1>1, <1>2, <1>3
<1>5. Ascending(keys)
  BY InOrderAscends
<1>6. SumsTo(Of(Members(keys), Read(r)), c[Len(keys)])
  BY <1>1, <1>3, <1>4, <1>5, BatchSum DEF Members
<1> QED BY <1>1, <1>2, <1>6 DEF c

\* The total fits into u64 at every ledger, and so do the weights it summed.
TotalFits ==
    \A r \in Ledgers :
        /\ TotalWeightAt(r) <= WEIGHT_MAX
        /\ \E t \in 0 .. WEIGHT_MAX : SumsTo(past[r], t)

QuorumInv == RegistryInv /\ TotalFits

\* A re-weighting is checked, so the total keeps fitting.
LEMMA ReweighFits ==
  ASSUME RegistryInv, TotalFits, RegistryInv', NEW k \in Signers, NEW v \in Nat,
         Reweigh(k, Latest(weightHist[k]), v)
  PROVE  TotalFits'
<1> DEFINE old == Latest(weightHist[k])
           total == Latest(totalHist) - old + v
<1>1. /\ TypeOK /\ ledger \in Nat /\ HISTORY_CUTOFF \in Nat /\ WEIGHT_MAX \in Nat
      /\ ledger \in Ledgers /\ IsHistory(totalHist) /\ IsHistory(weightHist[k])
  BY RegistryAssumption DEF RegistryInv, TypeOK, Ledgers
<1>2. old \in Nat
  BY <1>1, LookupType DEF IsHistory, Latest
<1>3. /\ ledger' = ledger
      /\ \A r \in Ledgers : r # ledger => past'[r] = past[r]
      /\ total \in Nat
      /\ totalHist' \in Pushes(totalHist, total)
  BY <1>1, <1>2, ReweighTypes
<1>4. total <= WEIGHT_MAX
  BY DEF Reweigh
<1>5. /\ LookupAt(totalHist', ledger) = total
      /\ \A r \in Ledgers : r # ledger =>
            LookupAt(totalHist', r) \in {0, LookupAt(totalHist, r)}
  <2> HIDE DEF total
  <2> QED BY <1>1, <1>3, PushedLookups
<1>6. SumsTo(past'[ledger], LookupAt(totalHist', ledger))
  <2>1. ledger \in Window'
    BY <1>1, <1>3 DEF Window, Ledgers
  <2> QED BY <1>3, <2>1 DEF RegistryInv, WindowIsFaithful, TotalWeightAt, SumsTo, Signers
<1>7. ASSUME NEW r \in Ledgers
      PROVE  /\ LookupAt(totalHist', r) <= WEIGHT_MAX
             /\ \E t \in 0 .. WEIGHT_MAX : SumsTo(past'[r], t)
  <2>1. CASE r = ledger
    <3>1. total \in 0 .. WEIGHT_MAX
      BY <1>1, <1>3, <1>4
    <3> HIDE DEF total
    <3> QED BY <1>4, <1>5, <1>6, <2>1, <3>1
  <2>2. CASE r # ledger
    <3>1. /\ LookupAt(totalHist, r) <= WEIGHT_MAX
          /\ \E t \in 0 .. WEIGHT_MAX : SumsTo(past[r], t)
      BY DEF TotalFits, TotalWeightAt
    <3>2. LookupAt(totalHist', r) = 0 \/ LookupAt(totalHist', r) = LookupAt(totalHist, r)
      BY <1>5, <2>2
    <3>3. past'[r] = past[r] /\ 0 <= WEIGHT_MAX
      BY <1>1, <1>3, <2>2
    <3>4. LookupAt(totalHist', r) <= WEIGHT_MAX
      BY <3>1, <3>2, <3>3
    <3> QED BY <3>1, <3>3, <3>4
  <2> QED BY <2>1, <2>2
<1>8. Ledgers' = Ledgers
  BY <1>3 DEF Ledgers
<1> QED BY <1>7, <1>8 DEF TotalFits, TotalWeightAt, SumsTo, Signers

\* The histories are true and their totals fit in every state.
THEOREM QuorumInvariant == Spec => []QuorumInv
<1>1. Init => QuorumInv
  <2> SUFFICES ASSUME Init PROVE QuorumInv
    OBVIOUS
  <2>1. RegistryInv
    BY RegistryInit
  <2>2. ledger = 0 /\ Ledgers = {0} /\ totalHist = NoHistory
    BY DEF Init, Ledgers
  <2>3. past[0] = [k \in Signers |-> 0]
    BY DEF Init
  <2>4. SumsTo(past[0], 0) /\ 0 \in 0 .. WEIGHT_MAX /\ 0 <= WEIGHT_MAX
    BY <2>3, SumZero, RegistryAssumption
  <2>5. LookupAt(NoHistory, 0) = 0
    BY DEF NoHistory, LookupAt
  <2>6. TotalFits
    BY <2>2, <2>4, <2>5 DEF TotalFits, TotalWeightAt
  <2> QED BY <2>1, <2>6 DEF QuorumInv
<1>2. QuorumInv /\ [Next]_vars => QuorumInv'
  <2> SUFFICES ASSUME QuorumInv, [Next]_vars PROVE QuorumInv'
    OBVIOUS
  <2>1. RegistryInv /\ TotalFits /\ TypeOK
    BY DEF QuorumInv, RegistryInv
  <2>2. RegistryInv'
    BY <2>1, RegistryStep
  <2>3. ASSUME NEW k \in Signers, NEW w \in Weights, AddSigner(k, w) PROVE TotalFits'
    <3>1. w \in Nat /\ Reweigh(k, Latest(weightHist[k]), w)
      BY <2>3, RegistryAssumption DEF AddSigner
    <3> QED BY <2>1, <2>2, <3>1, ReweighFits
  <2>4. ASSUME NEW k \in Signers, RemoveSigner(k) PROVE TotalFits'
    <3>1. Reweigh(k, Latest(weightHist[k]), 0) /\ 0 \in Nat
      BY <2>4 DEF RemoveSigner
    <3> QED BY <2>1, <2>2, <3>1, ReweighFits
  <2>5. ASSUME ledger' = ledger /\ totalHist' = totalHist /\ past' = past PROVE TotalFits'
    BY <2>1, <2>5 DEF TotalFits, Ledgers, TotalWeightAt, SumsTo, Signers
  <2>6. ASSUME Close PROVE TotalFits'
    <3>1. ledger \in Nat /\ ledger \in Ledgers /\ IsHistory(totalHist)
      BY <2>1 DEF TypeOK, Ledgers
    <3>2. ledger' = ledger + 1 /\ totalHist' = totalHist
      BY <2>6 DEF Close
    <3>3. Ledgers' = 0 .. ledger + 1 /\ Ledgers = 0 .. ledger
      BY <3>2 DEF Ledgers
    <3>4. (\A r \in Ledgers : past'[r] = past[r]) /\ past'[ledger + 1] = past[ledger]
      <4>1. past' = [l \in 0 .. ledger + 1 |->
                       IF l <= ledger THEN past[l] ELSE past[ledger]]
        BY <2>6 DEF Close
      <4> QED BY <3>1, <3>3, <4>1
    <3>5. LookupAt(totalHist, ledger + 1) = LookupAt(totalHist, ledger)
      BY <3>1, LookupNext
    <3>6. ASSUME NEW r \in Ledgers'
          PROVE  /\ LookupAt(totalHist, r) <= WEIGHT_MAX
                 /\ \E t \in 0 .. WEIGHT_MAX : SumsTo(past'[r], t)
      <4>1. CASE r \in Ledgers
        BY <2>1, <3>4, <4>1 DEF TotalFits, TotalWeightAt
      <4>2. CASE r = ledger + 1
        BY <2>1, <3>1, <3>4, <3>5, <4>2 DEF TotalFits, TotalWeightAt
      <4> QED BY <3>1, <3>3, <4>1, <4>2
    <3> QED BY <3>2, <3>6 DEF TotalFits, TotalWeightAt, SumsTo, Signers
  <2>7. ASSUME NEW t \in Thresholds, SetThreshold(t) PROVE TotalFits'
    BY <2>5, <2>7 DEF SetThreshold
  <2>8. ASSUME UNCHANGED vars PROVE TotalFits'
    BY <2>5, <2>8 DEF vars
  <2>9. TotalFits'
    BY <2>3, <2>4, <2>6, <2>7, <2>8 DEF Next, Administer
  <2> QED BY <2>2, <2>9 DEF QuorumInv
<1> QED BY <1>1, <1>2, PTL DEF Spec

\* A reference, past or next, reads every signer's weight of some ledger, or zero.
LEMMA ReadsPast ==
  ASSUME QuorumInv, NEW r \in References
  PROVE  \E q \in Ledgers : \A k \in Signers :
            SignerWeightAt(k, r) \in {0, past[q][k]} /\ SignerWeightAt(k, r) \in Nat
<1>1. /\ ledger \in Nat /\ ledger \in Ledgers
      /\ past \in [Ledgers -> [Signers -> Nat]]
      /\ \A k \in Signers : IsHistory(weightHist[k])
      /\ \A q \in Ledgers : \A k \in Signers : SignerWeightAt(k, q) \in {0, past[q][k]}
  BY DEF QuorumInv, RegistryInv, TypeOK, PrunedFailsClosed, Ledgers
<1>2. \A q \in Ledgers : past[q] \in [Signers -> Nat]
  BY <1>1
<1>3. \A q \in Ledgers : \A k \in Signers :
        SignerWeightAt(k, q) \in {0, past[q][k]} /\ SignerWeightAt(k, q) \in Nat
  BY <1>1, <1>2
<1>4. CASE r \in Ledgers
  BY <1>3, <1>4
<1>5. CASE r \notin Ledgers
  <2>1. r = ledger + 1
    BY <1>1, <1>5 DEF References, Ledgers
  <2>2. \A k \in Signers : SignerWeightAt(k, r) = SignerWeightAt(k, ledger)
    BY <1>1, <2>1, LookupNext DEF SignerWeightAt
  <2> QED BY <1>1, <1>3, <2>2
<1> QED BY <1>4, <1>5

\* Counting signers in order fits, for batches of any length.
LEMMA CountFits ==
  ASSUME QuorumInv, NEW keys \in Seq(Signers), InOrder(keys), NEW r \in References
  PROVE  /\ \A k \in Signers : SignerWeightAt(k, r) \in Nat
         /\ Counted(keys, r)[Len(keys)] \in Nat
         /\ Counted(keys, r)[Len(keys)] <= WEIGHT_MAX
         /\ \A i \in DOMAIN keys : Counted(keys, r)[i] <= Counted(keys, r)[Len(keys)]
         /\ SumsTo(Of(Members(keys), Read(r)), Counted(keys, r)[Len(keys)])
<1>1. PICK q \in Ledgers : \A k \in Signers :
        SignerWeightAt(k, r) \in {0, past[q][k]} /\ SignerWeightAt(k, r) \in Nat
  BY ReadsPast
<1>2. N \in Nat \ {0} /\ WEIGHT_MAX \in Nat /\ past[q] \in [Signers -> Nat]
  BY RegistryAssumption DEF QuorumInv, RegistryInv, TypeOK
<1> DEFINE s == Counted(keys, r)[Len(keys)]
           v == Of(Members(keys), Read(r))
<1>3. /\ s \in Nat /\ SumsTo(v, s)
      /\ \A i \in DOMAIN keys : Counted(keys, r)[i] <= s
  BY <1>1, <1>2, BatchCount
<1>4. PICK t \in 0 .. WEIGHT_MAX : SumsTo(past[q], t)
  BY DEF QuorumInv, TotalFits
<1>5. \A k \in Signers : v[k] = IF k \in Members(keys) THEN SignerWeightAt(k, r) ELSE 0
  BY DEF Of, Read
<1> HIDE DEF v, s
<1>6. \A k \in Signers : v[k] \in Nat /\ past[q][k] \in Nat /\ v[k] <= past[q][k]
  BY <1>1, <1>2, <1>5
<1>7. t \in Nat /\ t <= WEIGHT_MAX
  BY <1>2
<1>8. s <= t
  BY <1>2, <1>3, <1>4, <1>6, <1>7, SumMonotone
<1>9. s <= WEIGHT_MAX
  BY <1>2, <1>3, <1>7, <1>8
<1> QED BY <1>1, <1>3, <1>9 DEF v, s

\* A batch is a sequence.
LEMMA BatchIsSeq ==
  ASSUME NEW S, NEW b \in Batch(S)
  PROVE  b \in Seq(S) /\ DOMAIN b = 1 .. Len(b)
<1>1. PICK n \in 0 .. MaxBatch : b \in [1 .. n -> S]
  BY DEF Batch
<1>2. n \in Nat
  BY BatchAssumption
<1> QED BY <1>1, <1>2, Sequences1

\* Enough weight, in order, each member counting, everybody signing: accepted.
LEMMA GoodBatchVerifies ==
  ASSUME QuorumInv, NEW keys \in Seq(Signers), InOrder(keys), NEW r \in References,
         Len(keys) > 0, RequiredWeightAt(r) > 0,
         \A i \in DOMAIN keys : SignerWeightAt(keys[i], r) > 0,
         Counted(keys, r)[Len(keys)] >= RequiredWeightAt(r)
  PROVE  Verifies(AllGood(keys), keys, r)
<1>1. Len(keys) \in Nat /\ DOMAIN keys = 1 .. Len(keys)
  OBVIOUS
<1>2. /\ Len(AllGood(keys)) = Len(keys)
      /\ \A i \in DOMAIN keys : AllGood(keys)[i] = "good"
  <2>1. AllGood(keys) \in [1 .. Len(keys) -> {"good"}]
    BY <1>1 DEF AllGood
  <2> QED BY <1>1, <2>1, Sequences1 DEF AllGood
<1>3. Counted(keys, r) \in [0 .. Len(keys) -> Nat]
  <2>1. \A k \in Signers : SignerWeightAt(k, r) \in Nat
    BY CountFits
  <2> QED BY <2>1, CountedSums
<1>4. \A i \in DOMAIN keys : Counted(keys, r)[i] <= WEIGHT_MAX
  <2>1. /\ Counted(keys, r)[Len(keys)] \in Nat /\ WEIGHT_MAX \in Nat
        /\ Counted(keys, r)[Len(keys)] <= WEIGHT_MAX
        /\ \A i \in DOMAIN keys : Counted(keys, r)[i] <= Counted(keys, r)[Len(keys)]
    BY CountFits, RegistryAssumption
  <2> QED BY <1>1, <1>3, <2>1
<1>5. \A i \in DOMAIN keys : Genuine(AllGood(keys)[i])
  BY <1>2 DEF Genuine
<1> QED BY <1>1, <1>2, <1>4, <1>5 DEF Verifies

\* A quorum stays one when others join it.
LEMMA MoreIsQuorate ==
  ASSUME QuorumInv, NEW r \in Ledgers, NEW A, NEW B, A \subseteq B, Quorate(A, r)
  PROVE  Quorate(B, r)
<1>1. /\ N \in Nat \ {0} /\ WEIGHT_MAX \in Nat
      /\ past[r] \in [Signers -> Nat]
      /\ threshold \in [numerator : Nat, denominator : Nat] /\ ValidThreshold(threshold)
  BY RegistryAssumption DEF QuorumInv, RegistryInv, TypeOK
<1>2. PICK total \in 1 .. WEIGHT_MAX, carried \in 1 .. WEIGHT_MAX :
        /\ SumsTo(past[r], total) /\ SumsTo(Of(A, past[r]), carried)
        /\ 0 < Required(total) /\ Required(total) <= carried
  BY DEF Quorate
<1>3. /\ Of(B, past[r]) \in [Signers -> Nat]
      /\ \A k \in Signers : Of(A, past[r])[k] = IF k \in A THEN past[r][k] ELSE 0
      /\ \A k \in Signers : Of(B, past[r])[k] = IF k \in B THEN past[r][k] ELSE 0
      /\ \A k \in Signers : past[r][k] \in Nat
  BY <1>1 DEF Of
<1>4. PICK more \in Nat : SumsTo(Of(B, past[r]), more)
  BY <1>1, <1>3, SumExists
<1>5. total \in Nat /\ carried \in Nat /\ carried >= 1 /\ total <= WEIGHT_MAX
  BY <1>1
<1>6. carried <= more
  <2>1. \A k \in Signers : /\ Of(A, past[r])[k] \in Nat /\ Of(B, past[r])[k] \in Nat
                           /\ Of(A, past[r])[k] <= Of(B, past[r])[k]
    BY <1>3
  <2> QED BY <1>1, <1>2, <1>4, <1>5, <2>1, SumMonotone
<1>7. more <= total
  <2>1. \A k \in Signers : /\ Of(B, past[r])[k] \in Nat /\ past[r][k] \in Nat
                           /\ Of(B, past[r])[k] <= past[r][k]
    BY <1>3
  <2> QED BY <1>1, <1>2, <1>4, <1>5, <2>1, SumMonotone
<1>8. Required(total) \in Int
  BY <1>1, <1>5 DEF Required, ValidThreshold
<1>9. more \in 1 .. WEIGHT_MAX /\ Required(total) <= more
  BY <1>1, <1>2, <1>4, <1>5, <1>6, <1>7, <1>8
<1> QED BY <1>2, <1>4, <1>9 DEF Quorate

----------------------------------------------------------------------------
(* What every reachable state of the registry guarantees.                  *)

\* A batch verify accepts for a past ledger was signed by members of that
\* ledger who carried the share of its weight that makes a quorum.
THEOREM AcceptedAreQuorums == Spec => []AcceptedIsQuorate
<1>1. ASSUME QuorumInv PROVE AcceptedIsQuorate
  <2> SUFFICES ASSUME NEW keys \in Batch(Signers), NEW sigs \in Batch(Signatures),
                      NEW r \in Ledgers, Verifies(sigs, keys, r)
               PROVE  /\ \A i \in DOMAIN keys : sigs[i] = "good"
                      /\ Quorate({keys[i] : i \in DOMAIN keys}, r)
    BY DEF AcceptedIsQuorate
  <2>1. /\ keys \in Seq(Signers) /\ DOMAIN keys = 1 .. Len(keys) /\ Len(keys) \in Nat
        /\ sigs \in Seq(Signatures) /\ DOMAIN sigs = 1 .. Len(sigs)
    BY BatchIsSeq
  <2>2. /\ Len(keys) > 0 /\ Len(sigs) = Len(keys) /\ RequiredWeightAt(r) > 0
        /\ InOrder(keys)
        /\ \A i \in DOMAIN keys : Genuine(sigs[i]) /\ SignerWeightAt(keys[i], r) > 0
        /\ Counted(keys, r)[Len(keys)] >= RequiredWeightAt(r)
    BY Zenon DEF Verifies
  <2>3. \A i \in DOMAIN keys : sigs[i] = "good"
    <3>1. ASSUME NEW i \in DOMAIN keys PROVE sigs[i] = "good"
      <4>1. sigs[i] \in Signatures /\ Genuine(sigs[i])
        BY <2>1, <2>2
      <4> QED BY <4>1 DEF Signatures, Genuine
    <3> QED BY <3>1
  <2> DEFINE total == TotalWeightAt(r)
             carried == Counted(keys, r)[Len(keys)]
  <2>4. /\ ledger \in Nat /\ WEIGHT_MAX \in Nat /\ IsHistory(totalHist)
        /\ threshold \in [numerator : Nat, denominator : Nat] /\ ValidThreshold(threshold)
        /\ past[r] \in [Signers -> Nat]
    BY <1>1, RegistryAssumption DEF QuorumInv, RegistryInv, TypeOK
  <2>5. r \in References
    BY <2>4 DEF Ledgers, References
  <2>6. total \in Nat
    BY <2>4, LookupType DEF TotalWeightAt, IsHistory
  <2>7. total # 0
    <3>1. ASSUME total = 0 PROVE FALSE
      <4>1. Required(0) = 0
        BY <2>4 DEF Required, ValidThreshold
      <4> QED BY <2>2, <3>1, <4>1 DEF RequiredWeightAt
    <3> QED BY <3>1
  <2>8. SumsTo(past[r], total) /\ total \in 1 .. WEIGHT_MAX
    <3>1. SumsTo(past[r], total) /\ total <= WEIGHT_MAX
      BY <1>1, <2>7 DEF QuorumInv, RegistryInv, PrunedFailsClosed, TotalFits
    <3> HIDE DEF total
    <3> QED BY <2>4, <2>6, <2>7, <3>1
  <2>9. /\ carried \in Nat /\ carried <= WEIGHT_MAX
        /\ SumsTo(Of(Members(keys), Read(r)), carried)
    BY <1>1, <2>1, <2>2, <2>5, CountFits
  <2>10. Of(Members(keys), Read(r)) = Of(Members(keys), past[r])
    <3>1. ASSUME NEW k \in Signers, k \in Members(keys) PROVE Read(r)[k] = past[r][k]
      <4>1. SignerWeightAt(k, r) > 0
        BY <2>2, <3>1 DEF Members
      <4>2. SignerWeightAt(k, r) \in {0, past[r][k]}
        BY <1>1 DEF QuorumInv, RegistryInv, PrunedFailsClosed
      <4>3. Read(r)[k] = SignerWeightAt(k, r)
        BY DEF Read
      <4> QED BY <4>1, <4>2, <4>3
    <3> QED BY <3>1, Zenon DEF Of
  <2>11. 0 < Required(total) /\ Required(total) <= carried /\ carried \in 1 .. WEIGHT_MAX
    <3>1. 0 < Required(total) /\ carried >= Required(total) /\ Required(total) \in Int
      BY <2>2, <2>4, <2>6 DEF RequiredWeightAt, Required, ValidThreshold
    <3> HIDE DEF total, carried
    <3> QED BY <2>4, <2>9, <3>1
  <2>12. Quorate(Members(keys), r)
    <3> HIDE DEF total, carried
    <3> QED BY <2>8, <2>9, <2>10, <2>11 DEF Quorate
  <2> QED BY <2>3, <2>12 DEF Members
<1> QED BY <1>1, QuorumInvariant, PTL

\* The checked addition of verify never traps on a batch in order.
THEOREM CountsFit == Spec => []CountNeverTraps
<1>1. ASSUME QuorumInv PROVE CountNeverTraps
  BY <1>1, BatchIsSeq, CountFits DEF CountNeverTraps
<1> QED BY <1>1, QuorumInvariant, PTL

\* All listed signers together are a quorum whenever one is required.
THEOREM EveryoneSuffices == Spec => []EveryoneIsEnough
<1>1. ASSUME QuorumInv, RequiredWeightAt(ledger) > 0
      PROVE  Verifies(AllGood(allSigners), allSigners, ledger)
  <2> DEFINE total == TotalWeightAt(ledger)
             counted == Counted(allSigners, ledger)[Len(allSigners)]
             v == Of(Members(allSigners), Read(ledger))
  <2>1. /\ N \in Nat \ {0} /\ HISTORY_CUTOFF \in Nat
        /\ ledger \in Nat /\ ledger \in Ledgers /\ ledger \in Window /\ ledger \in References
        /\ IsHistory(totalHist) /\ allSigners \in Seq(Signers)
        /\ threshold \in [numerator : Nat, denominator : Nat] /\ ValidThreshold(threshold)
        /\ past[ledger] \in [Signers -> Nat]
    BY <1>1, RegistryAssumption
       DEF QuorumInv, RegistryInv, TypeOK, Ledgers, Window, References
  <2>2. /\ DOMAIN allSigners = 1 .. Len(allSigners) /\ Len(allSigners) \in Nat
        /\ \A i \in DOMAIN allSigners : allSigners[i] \in Signers
    BY <2>1
  <2>3. /\ \A k \in Signers : SignerWeightAt(k, ledger) = past[ledger][k]
        /\ SumsTo(past[ledger], total)
    BY <1>1, <2>1 DEF QuorumInv, RegistryInv, WindowIsFaithful
  <2>4. /\ \A k \in Signers : SignerWeightAt(k, ledger) > 0 <=> k \in Members(allSigners)
        /\ \A i, j \in DOMAIN allSigners : i < j => allSigners[i] < allSigners[j]
    BY <1>1 DEF QuorumInv, RegistryInv, ListIsComplete, Members, Latest, SignerWeightAt
  <2>5. InOrder(allSigners)
    <3>1. \A i \in 2 .. Len(allSigners) :
            i \in DOMAIN allSigners /\ i - 1 \in DOMAIN allSigners /\ i - 1 < i
      BY <2>2
    <3>2. \A i \in DOMAIN allSigners : allSigners[i] \in Int
      BY <2>2 DEF Signers
    <3>3. \A i \in 2 .. Len(allSigners) : allSigners[i] > allSigners[i - 1]
      BY <2>4, <3>1, <3>2
    <3> QED BY <3>3, Zenon DEF InOrder
  <2>6. counted \in Nat /\ SumsTo(v, counted)
    BY <1>1, <2>1, <2>5, CountFits
  <2>7. total \in Nat
    BY <2>1, LookupType DEF TotalWeightAt, IsHistory
  <2>8. total <= counted
    <3>1. \A k \in Signers :
            v[k] = IF k \in Members(allSigners) THEN SignerWeightAt(k, ledger) ELSE 0
      BY DEF Of, Read
    <3> HIDE DEF total, counted, v
    <3>2. \A k \in Signers :
            past[ledger][k] \in Nat /\ v[k] \in Nat /\ past[ledger][k] <= v[k]
      BY <2>1, <2>3, <2>4, <3>1
    <3> QED BY <2>1, <2>3, <2>6, <2>7, <3>2, SumMonotone
  <2>9. Required(total) \in Int /\ Required(total) <= total /\ Required(total) > 0
    <3>1. Required(total) > 0
      BY <1>1 DEF RequiredWeightAt
    <3> HIDE DEF total
    <3> DEFINE num == threshold.numerator
               den == threshold.denominator
    <3>2. num \in Nat /\ den \in Nat /\ den > 0 /\ num <= den
      BY <2>1 DEF ValidThreshold
    <3>3. Required(total) = (total * num) \div den
      BY DEF Required
    <3> HIDE DEF num, den
    <3>4. total * num <= total * den
      BY <2>7, <3>2
    <3>5. (total * num) \div den <= total /\ (total * num) \div den \in Int
      BY <2>7, <3>2, <3>4
    <3> QED BY <3>1, <3>3, <3>5
  <2>10. Len(allSigners) > 0
    <3>1. Counted(allSigners, ledger)[0] = 0
      <4>1. \A k \in Signers : SignerWeightAt(k, ledger) \in Nat
        BY <2>1, <2>3
      <4> QED BY <2>1, <4>1, CountedSums
    <3>2. counted # 0
      <4> HIDE DEF counted, total
      <4> QED BY <2>6, <2>7, <2>8, <2>9
    <3> QED BY <2>2, <3>1, <3>2
  <2>11. \A i \in DOMAIN allSigners : SignerWeightAt(allSigners[i], ledger) > 0
    BY <2>2, <2>4 DEF Members
  <2>12. counted >= RequiredWeightAt(ledger) /\ RequiredWeightAt(ledger) > 0
    <3>1. RequiredWeightAt(ledger) = Required(total)
      BY DEF RequiredWeightAt
    <3> HIDE DEF counted, total
    <3> QED BY <2>6, <2>7, <2>8, <2>9, <3>1
  <2> QED BY <1>1, <2>1, <2>5, <2>10, <2>11, <2>12, GoodBatchVerifies
<1> QED BY <1>1, QuorumInvariant, PTL DEF EveryoneIsEnough

\* What check_one saw, with a reference that looks at the same weights, is
\* what verify will count: no history speaks of a ledger to come.
LEMMA CheckSeesWeight ==
  ASSUME QuorumInv, NEW k \in Signers, NEW r \in References, NEW ref \in Alike(r),
         CheckOne("good", k, ref) > 0
  PROVE  SignerWeightAt(k, r) > 0
<1>1. ledger \in Nat /\ IsHistory(weightHist[k])
  BY DEF QuorumInv, RegistryInv, TypeOK
<1>2. CASE ref = r
  <2>1. ref # NoReference
    BY <1>1, <1>2 DEF References, NoReference
  <2> QED BY <1>2, <2>1 DEF CheckOne, Genuine
<1>3. CASE ref = NoReference /\ r >= ledger
  <2>1. Latest(weightHist[k]) > 0
    BY <1>3 DEF CheckOne, Genuine
  <2>2. r = ledger \/ r = ledger + 1
    BY <1>1, <1>3 DEF References
  <2>3. LookupAt(weightHist[k], ledger + 1) = LookupAt(weightHist[k], ledger)
    BY <1>1, LookupNext
  <2> QED BY <2>1, <2>2, <2>3 DEF SignerWeightAt, Latest
<1> QED BY <1>2, <1>3 DEF Alike

\* Adding a signature that passed check_one, with the batch's reference or
\* with none on the current ledger, keeps a batch accepted.
THEOREM CheckedSignaturesHelp == Spec => []CheckedSignatureNeverHurts
<1>1. ASSUME QuorumInv, NEW keys \in Batch(Signers), NEW k \in Signers, NEW r \in References,
             NEW ref \in Alike(r), CheckOne("good", k, ref) > 0,
             Verifies(AllGood(keys), keys, r)
      PROVE  Verifies(AllGood(Inserted(keys, k)), Inserted(keys, k), r)
  <2> DEFINE more == Inserted(keys, k)
             s == Counted(keys, r)[Len(keys)]
             t == Counted(more, r)[Len(more)]
             v == Of(Members(keys), Read(r))
             w == Of(Members(more), Read(r))
  <2>1. N \in Nat \ {0} /\ keys \in Seq(Signers) /\ DOMAIN keys = 1 .. Len(keys)
    BY BatchIsSeq, RegistryAssumption
  <2>2. /\ Len(keys) > 0 /\ RequiredWeightAt(r) > 0 /\ InOrder(keys)
        /\ \A i \in DOMAIN keys : SignerWeightAt(keys[i], r) > 0
        /\ s >= RequiredWeightAt(r)
    BY <1>1, Zenon DEF Verifies
  <2>3. SignerWeightAt(k, r) > 0
    BY <1>1, CheckSeesWeight
  <2>4. /\ more \in Seq(Signers) /\ Ascending(more)
        /\ \A j \in Signers : Listed(more, j) <=> j = k \/ Listed(keys, j)
    BY <2>1, <2>2, InOrderAscends, InsertedList
  <2> HIDE DEF more
  <2>5. /\ DOMAIN more = 1 .. Len(more) /\ Len(more) \in Nat
        /\ \A i \in DOMAIN more : more[i] \in Signers
    BY <2>4
  <2>6. InOrder(more)
    <3>1. \A i \in 2 .. Len(more) : i \in DOMAIN more /\ i - 1 \in DOMAIN more /\ i - 1 < i
      BY <2>5
    <3>2. \A i \in DOMAIN more : more[i] \in Int
      BY <2>5 DEF Signers
    <3>3. \A i \in 2 .. Len(more) : more[i] > more[i - 1]
      BY <2>4, <3>1, <3>2 DEF Ascending
    <3> QED BY <3>3, Zenon DEF InOrder
  <2>7. \A j \in Signers : (j \in Members(more) <=> Listed(more, j))
                        /\ (j \in Members(keys) <=> Listed(keys, j))
    BY Zenon DEF Members, Listed
  <2>8. \A i \in DOMAIN more : SignerWeightAt(more[i], r) > 0
    <3>1. ASSUME NEW i \in DOMAIN more PROVE SignerWeightAt(more[i], r) > 0
      <4>1. more[i] \in Signers /\ Listed(more, more[i])
        BY <2>5 DEF Listed
      <4>2. more[i] = k \/ Listed(keys, more[i])
        BY <2>4, <4>1
      <4> QED BY <2>2, <2>3, <4>2 DEF Listed
    <3> QED BY <3>1
  <2>9. Len(more) > 0
    <3>1. Listed(more, k)
      BY <2>4
    <3> QED BY <2>5, <3>1 DEF Listed
  <2>10. s \in Nat /\ SumsTo(v, s) /\ t \in Nat /\ SumsTo(w, t)
         /\ \A j \in Signers : SignerWeightAt(j, r) \in Nat
    BY <1>1, <2>1, <2>2, <2>4, <2>6, CountFits
  <2>11. s <= t
    <3>1. \A j \in Signers :
            /\ v[j] = IF j \in Members(keys) THEN SignerWeightAt(j, r) ELSE 0
            /\ w[j] = IF j \in Members(more) THEN SignerWeightAt(j, r) ELSE 0
      BY DEF Of, Read
    <3> HIDE DEF s, t, v, w
    <3>2. \A j \in Signers : v[j] \in Nat /\ w[j] \in Nat /\ v[j] <= w[j]
      BY <2>4, <2>7, <2>10, <3>1
    <3> QED BY <2>1, <2>10, <3>2, SumMonotone
  <2>12. t >= RequiredWeightAt(r)
    <3>1. RequiredWeightAt(r) \in Int
      <4>1. /\ threshold \in [numerator : Nat, denominator : Nat] /\ ValidThreshold(threshold)
            /\ IsHistory(totalHist)
        BY <1>1 DEF QuorumInv, RegistryInv, TypeOK
      <4>2. TotalWeightAt(r) \in Nat
        BY <4>1, LookupType DEF TotalWeightAt, IsHistory
      <4> QED BY <4>1, <4>2 DEF RequiredWeightAt, Required, ValidThreshold
    <3> HIDE DEF s, t
    <3> QED BY <2>2, <2>10, <2>11, <3>1
  <2>13. Verifies(AllGood(more), more, r)
    BY <1>1, <2>2, <2>4, <2>6, <2>8, <2>9, <2>12, GoodBatchVerifies
  <2> QED BY <2>13 DEF more
<1>2. QuorumInv => CheckedSignatureNeverHurts
  BY <1>1 DEF CheckedSignatureNeverHurts, CanJoin
<1> QED BY <1>2, QuorumInvariant, PTL

----------------------------------------------------------------------------
(* A batch for any quorum.                                                 *)

\* The sequence s lists the set A, which lies in 1 .. n, in order.
Lists(s, A, n) ==
    /\ s \in Seq(1 .. n) /\ Len(s) <= n
    /\ Members(s) = A /\ InOrder(s)

\* A list of A without its largest number, if it has it, can be completed.
LEMMA ListGrows ==
  ASSUME NEW n \in Nat, NEW A \in SUBSET (1 .. n + 1), NEW s, Lists(s, A \ {n + 1}, n)
  PROVE  \E t : Lists(t, A, n + 1)
<1>1. /\ s \in Seq(1 .. n) /\ Len(s) \in Nat /\ Len(s) <= n /\ DOMAIN s = 1 .. Len(s)
      /\ Members(s) = A \ {n + 1} /\ InOrder(s)
      /\ \A i \in 1 .. Len(s) : s[i] \in 1 .. n
  BY DEF Lists
<1>2. CASE n + 1 \notin A
  <2>1. s \in Seq(1 .. n + 1)
    <3>1. s \in [1 .. Len(s) -> 1 .. n + 1]
      <4>1. s \in [1 .. Len(s) -> 1 .. n]
        BY <1>1
      <4> QED BY <4>1
    <3> QED BY <1>1, <3>1, Sequences1
  <2>2. Len(s) <= n + 1 /\ Members(s) = A
    BY <1>1, <1>2
  <2> QED BY <1>1, <2>1, <2>2 DEF Lists
<1>3. CASE n + 1 \in A
  <2> DEFINE m == Len(s) + 1
             t == [i \in 1 .. m |-> IF i <= Len(s) THEN s[i] ELSE n + 1]
  <2>1. m \in Nat /\ m <= n + 1
    BY <1>1
  <2>2. t \in [1 .. m -> 1 .. n + 1]
    BY <1>1
  <2>3. t \in Seq(1 .. n + 1) /\ Len(t) = m /\ DOMAIN t = 1 .. m
    <3> HIDE DEF m, t
    <3> QED BY <2>1, <2>2, Sequences1
  <2>4. (\A i \in 1 .. Len(s) : i \in 1 .. m /\ t[i] = s[i]) /\ m \in 1 .. m /\ t[m] = n + 1
    BY <1>1
  <2>5. \A i \in 1 .. m : i \in 1 .. Len(s) \/ i = m
    BY <1>1
  <2>6. m = Len(s) + 1
    OBVIOUS
  <2> HIDE DEF t, m
  <2>7. Members(t) = A
    <3>1. ASSUME NEW x \in Members(t) PROVE x \in A
      <4>1. PICK i \in 1 .. m : x = t[i]
        BY <2>3 DEF Members
      <4> QED BY <1>1, <1>3, <2>4, <2>5, <4>1 DEF Members
    <3>2. ASSUME NEW x \in A PROVE x \in Members(t)
      <4>1. CASE x = n + 1
        BY <2>3, <2>4, <4>1 DEF Members
      <4>2. CASE x # n + 1
        <5>1. PICK i \in 1 .. Len(s) : x = s[i]
          BY <1>1, <4>2 DEF Members
        <5> QED BY <2>3, <2>4, <5>1 DEF Members
      <4> QED BY <4>1, <4>2
    <3> QED BY <3>1, <3>2
  <2>8. InOrder(t)
    <3>1. ASSUME NEW i \in 2 .. m PROVE t[i] > t[i - 1]
      <4>1. i - 1 \in 1 .. Len(s) /\ t[i - 1] = s[i - 1] /\ s[i - 1] \in 1 .. n
        BY <1>1, <2>4, <2>6
      <4>2. CASE i = m
        <5>1. t[i] = n + 1
          BY <2>4, <4>2
        <5> QED BY <4>1, <5>1
      <4>3. CASE i # m
        <5>1. i \in 2 .. Len(s) /\ t[i] = s[i]
          BY <1>1, <2>4, <2>6, <4>3
        <5> QED BY <1>1, <4>1, <5>1 DEF InOrder
      <4> QED BY <4>2, <4>3
    <3> QED BY <2>3, <3>1 DEF InOrder
  <2>9. Lists(t, A, n + 1)
    BY <2>1, <2>3, <2>7, <2>8 DEF Lists
  <2> QED BY <2>9
<1> QED BY <1>2, <1>3

\* Every set of numbers up to n has an ordered list.
LEMMA ListExists ==
  ASSUME NEW n \in Nat, NEW A \in SUBSET (1 .. n)
  PROVE  \E s : Lists(s, A, n)
<1> DEFINE Bad == {m \in Nat : \E B \in SUBSET (1 .. m) : \A s : ~Lists(s, B, m)}
<1>1. SUFFICES ASSUME n \in Bad PROVE FALSE
  OBVIOUS
<1>2. PICK m \in Bad : \A k \in Bad : m <= k
  <2>1. Bad \in SUBSET Nat
    OBVIOUS
  <2> HIDE DEF Bad
  <2> QED BY <1>1, <2>1, LeastNatural
<1>3. m \in Nat
  OBVIOUS
<1>4. PICK B \in SUBSET (1 .. m) : \A s : ~Lists(s, B, m)
  OBVIOUS
<1>5. CASE m = 0
  <2>1. B = {} /\ <<>> \in Seq(1 .. m) /\ Len(<<>>) = 0 /\ DOMAIN <<>> = {}
    BY <1>5
  <2>2. Members(<<>>) = B /\ InOrder(<<>>)
    BY <2>1 DEF Members, InOrder
  <2>3. Lists(<<>>, B, m)
    BY <1>5, <2>1, <2>2 DEF Lists
  <2> QED BY <1>4, <2>3
<1>6. CASE m # 0
  <2>1. m - 1 \in Nat /\ (m - 1) + 1 = m /\ ~(m <= m - 1)
    BY <1>3, <1>6
  <2>2. m - 1 \notin Bad
    BY <1>2, <2>1
  <2>3. B \ {m} \in SUBSET (1 .. m - 1)
    BY <1>3
  <2>4. PICK s : Lists(s, B \ {m}, m - 1)
    BY <2>1, <2>2, <2>3
  <2> HIDE DEF Bad
  <2>5. \E t : Lists(t, B, (m - 1) + 1)
    <3>1. B \in SUBSET (1 .. (m - 1) + 1) /\ Lists(s, B \ {(m - 1) + 1}, m - 1)
      BY <2>1, <2>4
    <3> QED BY <2>1, <3>1, ListGrows
  <2> QED BY <1>4, <2>1, <2>5
<1> QED BY <1>5, <1>6

\* Sums are unique.
LEMMA SumUnique ==
  ASSUME N \in Nat \ {0}, NEW w \in [Signers -> Nat], NEW s \in Nat, NEW t \in Nat,
         SumsTo(w, s), SumsTo(w, t)
  PROVE  s = t
<1>1. \A k \in Signers : w[k] \in Nat /\ w[k] <= w[k]
  OBVIOUS
<1>2. s <= t
  BY <1>1, SumMonotone
<1>3. t <= s
  BY <1>1, SumMonotone
<1> QED BY <1>2, <1>3

\* A set that is a quorum of the current ledger can be put into a batch that
\* verify accepts for it.
LEMMA QuorumVerifies ==
  ASSUME QuorumInv, NEW A, Quorate(A, ledger)
  PROVE  \E keys \in Seq(Signers) :
            /\ Len(keys) <= N /\ Members(keys) \subseteq A
            /\ Verifies(AllGood(keys), keys, ledger)
<1>1. /\ N \in Nat \ {0} /\ HISTORY_CUTOFF \in Nat /\ WEIGHT_MAX \in Nat
      /\ ledger \in Nat /\ ledger \in Ledgers /\ ledger \in Window /\ ledger \in References
      /\ IsHistory(totalHist)
      /\ threshold \in [numerator : Nat, denominator : Nat] /\ ValidThreshold(threshold)
      /\ past[ledger] \in [Signers -> Nat]
  BY RegistryAssumption DEF QuorumInv, RegistryInv, TypeOK, Ledgers, Window, References
<1>2. /\ \A k \in Signers : SignerWeightAt(k, ledger) = past[ledger][k]
      /\ SumsTo(past[ledger], TotalWeightAt(ledger))
      /\ TotalWeightAt(ledger) \in Nat
  BY <1>1, LookupType
     DEF QuorumInv, RegistryInv, WindowIsFaithful, TotalWeightAt, IsHistory
<1>3. PICK total \in 1 .. WEIGHT_MAX, carried \in 1 .. WEIGHT_MAX :
        /\ SumsTo(past[ledger], total) /\ SumsTo(Of(A, past[ledger]), carried)
        /\ 0 < Required(total) /\ Required(total) <= carried
  BY DEF Quorate
<1>4. total \in Nat /\ carried \in Nat /\ carried > 0
  BY <1>1
<1>5. total = TotalWeightAt(ledger)
  BY <1>1, <1>2, <1>3, <1>4, SumUnique
<1>6. RequiredWeightAt(ledger) = Required(total) /\ Required(total) \in Int
  BY <1>1, <1>4, <1>5 DEF RequiredWeightAt, Required, ValidThreshold
<1> DEFINE S == {k \in Signers : k \in A /\ past[ledger][k] > 0}
<1>7. PICK keys : Lists(keys, S, N)
  <2>1. S \in SUBSET (1 .. N) /\ N \in Nat
    BY <1>1 DEF Signers
  <2> HIDE DEF S
  <2> QED BY <2>1, ListExists
<1>8. /\ keys \in Seq(Signers) /\ Len(keys) \in Nat /\ DOMAIN keys = 1 .. Len(keys)
      /\ Len(keys) <= N /\ Members(keys) = S /\ InOrder(keys)
  BY <1>7 DEF Lists, Signers
<1> DEFINE counted == Counted(keys, ledger)[Len(keys)]
           v == Of(A, past[ledger])
           w == Of(Members(keys), Read(ledger))
<1>9. /\ counted \in Nat /\ SumsTo(w, counted)
      /\ \A k \in Signers : SignerWeightAt(k, ledger) \in Nat
  BY <1>1, <1>8, CountFits
<1>10. carried <= counted
  <2>1. \A k \in Signers :
          /\ v[k] = IF k \in A THEN past[ledger][k] ELSE 0
          /\ w[k] = IF k \in Members(keys) THEN past[ledger][k] ELSE 0
    BY <1>2 DEF Of, Read
  <2>2. \A k \in Signers : k \in Members(keys) <=> k \in A /\ past[ledger][k] > 0
    BY <1>8
  <2>3. \A k \in Signers : past[ledger][k] \in Nat
    BY <1>1
  <2> HIDE DEF v, w, counted, S
  <2>4. \A k \in Signers : v[k] \in Nat /\ w[k] \in Nat /\ v[k] <= w[k]
    BY <2>1, <2>2, <2>3
  <2>5. SumsTo(v, carried)
    BY <1>3 DEF v
  <2> QED BY <1>1, <1>4, <1>9, <2>4, <2>5, SumMonotone
<1>11. \A i \in DOMAIN keys : SignerWeightAt(keys[i], ledger) > 0
  <2>1. ASSUME NEW i \in DOMAIN keys PROVE SignerWeightAt(keys[i], ledger) > 0
    <3>1. keys[i] \in S
      BY <1>8 DEF Members
    <3> QED BY <1>2, <3>1
  <2> QED BY <2>1
<1>12. Len(keys) > 0
  <2>1. Counted(keys, ledger)[0] = 0
    BY <1>8, <1>9, CountedSums
  <2>2. counted # 0
    <3> HIDE DEF counted
    <3> QED BY <1>4, <1>9, <1>10
  <2> QED BY <1>8, <2>1, <2>2
<1>13. counted >= RequiredWeightAt(ledger) /\ RequiredWeightAt(ledger) > 0
  <2> HIDE DEF counted
  <2> QED BY <1>3, <1>4, <1>6, <1>9, <1>10
<1>14. Verifies(AllGood(keys), keys, ledger)
  BY <1>1, <1>8, <1>11, <1>12, <1>13, GoodBatchVerifies
<1> QED BY <1>8, <1>14

----------------------------------------------------------------------------
(* Two quorums.                                                            *)

\* Weights that share out those of u have no larger sum.
LEMMA SharesSum ==
  ASSUME N \in Nat \ {0}, NEW v, NEW w, NEW u,
         NEW s \in Nat, NEW t \in Nat, NEW x \in Nat,
         \A k \in Signers : v[k] \in Nat /\ w[k] \in Nat /\ u[k] \in Nat /\ v[k] + w[k] <= u[k],
         SumsTo(v, s), SumsTo(w, t), SumsTo(u, x)
  PROVE  s + t <= x
<1>1. PICK p \in [Signers -> 0 .. s] :
        p[1] = v[1] /\ p[N] = s /\ \A k \in 2 .. N : p[k] = p[k - 1] + v[k]
  BY DEF SumsTo
<1>2. PICK q \in [Signers -> 0 .. t] :
        q[1] = w[1] /\ q[N] = t /\ \A k \in 2 .. N : q[k] = q[k - 1] + w[k]
  BY DEF SumsTo
<1>3. /\ 1 \in Signers /\ N \in Signers
      /\ \A k \in 2 .. N : k \in Signers /\ k - 1 \in Signers
      /\ \A k \in Signers : p[k] \in 0 .. s /\ q[k] \in 0 .. t
  BY DEF Signers
<1> DEFINE both == [k \in Signers |-> p[k] + q[k]]
           z == [k \in Signers |-> v[k] + w[k]]
<1>4. /\ \A k \in Signers : both[k] = p[k] + q[k]
      /\ \A k \in Signers : z[k] = v[k] + w[k]
  OBVIOUS
<1>5. both \in [Signers -> 0 .. s + t]
  <2>1. \A k \in Signers : p[k] + q[k] \in 0 .. s + t
    BY <1>3
  <2> QED BY <2>1
<1> HIDE DEF both, z
<1>6. /\ both[1] = z[1] /\ both[N] = s + t
      /\ \A k \in 2 .. N : both[k] = both[k - 1] + z[k]
  <2>1. ASSUME NEW k \in 2 .. N PROVE both[k] = both[k - 1] + z[k]
    <3>1. k \in Signers /\ k - 1 \in Signers
      BY <1>3
    <3>2. /\ p[k] = p[k - 1] + v[k] /\ q[k] = q[k - 1] + w[k]
          /\ p[k - 1] \in Nat /\ q[k - 1] \in Nat /\ v[k] \in Nat /\ w[k] \in Nat
      BY <1>1, <1>2, <1>3, <3>1
    <3>3. both[k] = p[k] + q[k] /\ both[k - 1] = p[k - 1] + q[k - 1] /\ z[k] = v[k] + w[k]
      BY <1>4, <3>1
    <3>4. p[k] + q[k] = (p[k - 1] + q[k - 1]) + (v[k] + w[k])
      BY <3>2
    <3> QED BY <3>3, <3>4, Zenon
  <2>2. both[1] = z[1] /\ both[N] = s + t
    BY <1>1, <1>2, <1>3, <1>4
  <2> QED BY <2>1, <2>2
<1>7. SumsTo(z, s + t)
  BY <1>5, <1>6 DEF SumsTo
<1>8. \A k \in Signers : z[k] \in Nat /\ u[k] \in Nat /\ z[k] <= u[k]
  BY <1>4
<1> QED BY <1>7, <1>8, SumMonotone

\* A reference is read as one of the ledgers so far.
LEMMA ReadsLedger ==
  ASSUME QuorumInv, NEW r \in References
  PROVE  \E q \in Ledgers :
            /\ TotalWeightAt(r) = TotalWeightAt(q)
            /\ \A k \in Signers : SignerWeightAt(k, r) = SignerWeightAt(k, q)
<1>1. /\ ledger \in Nat /\ ledger \in Ledgers /\ IsHistory(totalHist)
      /\ \A k \in Signers : IsHistory(weightHist[k])
  BY DEF QuorumInv, RegistryInv, TypeOK, Ledgers
<1>2. CASE r \in Ledgers
  BY <1>2
<1>3. CASE r \notin Ledgers
  <2>1. r = ledger + 1
    BY <1>1, <1>3 DEF References, Ledgers
  <2> QED BY <1>1, <2>1, LookupNext DEF SignerWeightAt, TotalWeightAt
<1> QED BY <1>2, <1>3

\* What acceptance of a batch says about its count.
LEMMA AcceptedCounts ==
  ASSUME QuorumInv, NEW r \in References, NEW keys \in Quorums(r)
  PROVE  /\ keys \in Seq(Signers) /\ RequiredWeightAt(r) > 0
         /\ Counted(keys, r)[Len(keys)] \in Nat
         /\ Counted(keys, r)[Len(keys)] >= RequiredWeightAt(r)
         /\ SumsTo(Of(Members(keys), Read(r)), Counted(keys, r)[Len(keys)])
<1>1. keys \in Batch(Signers) /\ Verifies(AllGood(keys), keys, r)
  BY DEF Quorums
<1>2. keys \in Seq(Signers)
  BY <1>1, BatchIsSeq
<1>3. /\ InOrder(keys) /\ RequiredWeightAt(r) > 0
      /\ Counted(keys, r)[Len(keys)] >= RequiredWeightAt(r)
  BY <1>1, Zenon DEF Verifies
<1> QED BY <1>2, <1>3, CountFits

\* No requirement without a total.
LEMMA RequiredNeedsTotal ==
  ASSUME QuorumInv, NEW total \in Nat
  PROVE  Required(total) \in Nat /\ (Required(total) > 0 => total # 0)
<1>1. threshold \in [numerator : Nat, denominator : Nat] /\ ValidThreshold(threshold)
  BY DEF QuorumInv, RegistryInv, TypeOK
<1>2. Required(0) = 0
  BY <1>1 DEF Required, ValidThreshold
<1>3. Required(total) \in Nat
  BY <1>1 DEF Required, ValidThreshold
<1> QED BY <1>2, <1>3

\* Where more than half of the total is required, any two batches that
\* verify accepts for one reference have a signer in common.
THEOREM QuorumsAlwaysMeet == Spec => []QuorumsMeet
<1>1. ASSUME QuorumInv, NEW r \in References, 2 * RequiredWeightAt(r) > TotalWeightAt(r),
             NEW a \in Quorums(r), NEW b \in Quorums(r),
             ~(\E i \in DOMAIN a, j \in DOMAIN b : a[i] = b[j])
      PROVE  FALSE
  <2>1. PICK q \in Ledgers :
           /\ TotalWeightAt(r) = TotalWeightAt(q)
           /\ \A k \in Signers : SignerWeightAt(k, r) = SignerWeightAt(k, q)
    BY <1>1, ReadsLedger
  <2>2. /\ N \in Nat \ {0} /\ IsHistory(totalHist) /\ past[q] \in [Signers -> Nat]
    BY <1>1, RegistryAssumption DEF QuorumInv, RegistryInv, TypeOK
  <2> DEFINE total == TotalWeightAt(r)
             s == Counted(a, r)[Len(a)]
             t == Counted(b, r)[Len(b)]
             v == Of(Members(a), Read(r))
             w == Of(Members(b), Read(r))
  <2>3. /\ s \in Nat /\ s >= RequiredWeightAt(r) /\ SumsTo(v, s) /\ RequiredWeightAt(r) > 0
        /\ t \in Nat /\ t >= RequiredWeightAt(r) /\ SumsTo(w, t)
    BY <1>1, AcceptedCounts
  <2>4. total \in Nat /\ RequiredWeightAt(r) \in Nat /\ total # 0
    <3>1. total \in Nat
      BY <2>2, LookupType DEF TotalWeightAt, IsHistory
    <3> QED BY <1>1, <2>3, <3>1, RequiredNeedsTotal DEF RequiredWeightAt
  <2>5. SumsTo(past[q], total)
    BY <1>1, <2>1, <2>4 DEF QuorumInv, RegistryInv, PrunedFailsClosed
  <2>6. \A k \in Signers : SignerWeightAt(k, r) \in Nat /\ SignerWeightAt(k, r) <= past[q][k]
    <3>1. \A k \in Signers : SignerWeightAt(k, r) \in {0, past[q][k]} /\ past[q][k] \in Nat
      BY <1>1, <2>1, <2>2 DEF QuorumInv, RegistryInv, PrunedFailsClosed
    <3> QED BY <3>1
  <2>7. \A k \in Signers : ~(k \in Members(a) /\ k \in Members(b))
    BY <1>1 DEF Members
  <2>8. \A k \in Signers :
           /\ v[k] = IF k \in Members(a) THEN SignerWeightAt(k, r) ELSE 0
           /\ w[k] = IF k \in Members(b) THEN SignerWeightAt(k, r) ELSE 0
    BY DEF Of, Read
  <2> HIDE DEF total, s, t, v, w
  <2>9. \A k \in Signers :
           v[k] \in Nat /\ w[k] \in Nat /\ past[q][k] \in Nat /\ v[k] + w[k] <= past[q][k]
    BY <2>2, <2>6, <2>7, <2>8
  <2>10. s + t <= total
    BY <2>2, <2>3, <2>4, <2>5, <2>9, SharesSum
  <2>11. 2 * RequiredWeightAt(r) > total
    BY <1>1 DEF total
  <2> QED BY <2>3, <2>4, <2>10, <2>11
<1>2. QuorumInv => QuorumsMeet
  BY <1>1 DEF QuorumsMeet
<1> QED BY <1>2, QuorumInvariant, PTL

----------------------------------------------------------------------------
(* Refusals.                                                               *)

\* A step says of a closed ledger what the state before it says, or zero.
LEMMA StepForgets ==
  ASSUME RegistryInv, [Next]_vars, NEW r \in 0 .. ledger - 1
  PROVE  /\ \A k \in Signers : SignerWeightAt(k, r)' \in {0, SignerWeightAt(k, r)}
         /\ TotalWeightAt(r)' \in {0, TotalWeightAt(r)}
<1>1. /\ TypeOK /\ ledger \in Nat /\ HISTORY_CUTOFF \in Nat
      /\ r \in Ledgers /\ r # ledger
      /\ IsHistory(totalHist) /\ \A k \in Signers : IsHistory(weightHist[k])
  BY RegistryAssumption DEF RegistryInv, TypeOK, Ledgers
<1>2. ASSUME NEW k \in Signers, NEW v \in Nat, Reweigh(k, Latest(weightHist[k]), v)
      PROVE  /\ \A j \in Signers : LookupAt(weightHist'[j], r) \in {0, LookupAt(weightHist[j], r)}
             /\ LookupAt(totalHist', r) \in {0, LookupAt(totalHist, r)}
  <2> DEFINE total == Latest(totalHist) - Latest(weightHist[k]) + v
  <2>1. Latest(weightHist[k]) \in Nat
    BY <1>1, LookupType DEF IsHistory, Latest
  <2>2. /\ weightHist'[k] \in Pushes(weightHist[k], v)
        /\ \A j \in Signers : j # k => weightHist'[j] = weightHist[j]
        /\ total \in Nat /\ totalHist' \in Pushes(totalHist, total)
    BY <1>1, <1>2, <2>1, ReweighTypes
  <2> HIDE DEF total
  <2>3. LookupAt(weightHist'[k], r) \in {0, LookupAt(weightHist[k], r)}
    BY <1>1, <2>2, PushedLookups
  <2>4. LookupAt(totalHist', r) \in {0, LookupAt(totalHist, r)}
    BY <1>1, <2>2, PushedLookups
  <2> QED BY <2>2, <2>3, <2>4
<1>3. CASE weightHist' = weightHist /\ totalHist' = totalHist
  BY <1>3 DEF SignerWeightAt, TotalWeightAt
<1>4. ASSUME NEW k \in Signers, NEW w \in Weights, AddSigner(k, w)
      PROVE  Reweigh(k, Latest(weightHist[k]), w) /\ w \in Nat
  BY <1>4, RegistryAssumption DEF AddSigner
<1>5. ASSUME NEW k \in Signers, RemoveSigner(k)
      PROVE  Reweigh(k, Latest(weightHist[k]), 0)
  BY <1>5 DEF RemoveSigner
<1>6. CASE \E k \in Signers, v \in Nat : Reweigh(k, Latest(weightHist[k]), v)
  BY <1>2, <1>6 DEF SignerWeightAt, TotalWeightAt
<1>7. \/ weightHist' = weightHist /\ totalHist' = totalHist
      \/ \E k \in Signers, v \in Nat : Reweigh(k, Latest(weightHist[k]), v)
  <2>1. CASE Administer
    <3>1. CASE \E t \in Thresholds : SetThreshold(t)
      BY <3>1 DEF SetThreshold
    <3> QED BY <1>4, <1>5, <2>1, <3>1 DEF Administer
  <2>2. CASE Close
    BY <2>2 DEF Close
  <2>3. CASE UNCHANGED vars
    BY <2>3 DEF vars
  <2> QED BY <2>1, <2>2, <2>3 DEF Next
<1> QED BY <1>3, <1>6, <1>7

\* The count depends on what is read of the members, and on nothing else.
LEMMA CountedAlike ==
  ASSUME NEW keys \in Seq(Signers), NEW r,
         \A i \in DOMAIN keys : SignerWeightAt(keys[i], r)' = SignerWeightAt(keys[i], r)
  PROVE  Counted(keys, r)' = Counted(keys, r)
<1> DEFINE Walk(g) == [i \in 0 .. Len(keys) |->
                         IF i = 0 THEN 0 ELSE g[i - 1] + LookupAt(weightHist[keys[i]], r)]
           Step(g) == [i \in 0 .. Len(keys) |->
                         IF i = 0 THEN 0 ELSE g[i - 1] + LookupAt(weightHist'[keys[i]], r)]
<1>1. \A i \in 0 .. Len(keys) : i # 0 =>
        LookupAt(weightHist'[keys[i]], r) = LookupAt(weightHist[keys[i]], r)
  <2>1. \A i \in 0 .. Len(keys) : i # 0 => i \in DOMAIN keys
    OBVIOUS
  <2> QED BY <2>1 DEF SignerWeightAt
<1>2. ASSUME NEW g PROVE Step(g) = Walk(g)
  BY <1>1, Zenon
<1>3. Counted(keys, r) = CHOOSE g : g = Walk(g)
  BY Zenon DEF Counted, SignerWeightAt
<1>4. Counted(keys, r)' = CHOOSE g : g = Step(g)
  BY Zenon DEF Counted, SignerWeightAt
<1>5. (CHOOSE g : g = Step(g)) = (CHOOSE g : g = Walk(g))
  <2> HIDE DEF Walk, Next
  <2> QED BY <1>2, Zenon
<1> QED BY <1>3, <1>4, <1>5

\* No change of the signers and no pruning makes a quorum of a closed ledger
\* out of a batch that was none: what verify refused it refuses until the
\* threshold changes.
THEOREM RefusalsStayFinal == Spec => RefusalsAreFinal
<1>1. ASSUME QuorumInv, [Next]_vars, threshold' = threshold,
             NEW r \in 0 .. ledger - 1, NEW keys \in Batch(Signers),
             Verifies(AllGood(keys), keys, r)'
      PROVE  Verifies(AllGood(keys), keys, r)
  <2> DEFINE total == TotalWeightAt(r)
  <2>1. keys \in Seq(Signers) /\ \A i \in DOMAIN keys : keys[i] \in Signers
    BY <1>1, BatchIsSeq
  <2>2. /\ RegistryInv /\ r \in Ledgers /\ IsHistory(totalHist)
        /\ threshold \in [numerator : Nat, denominator : Nat]
    BY <1>1 DEF QuorumInv, RegistryInv, TypeOK, Ledgers
  <2>3. total \in Nat
    BY <2>2, LookupType DEF TotalWeightAt, IsHistory
  <2>4. /\ \A k \in Signers : SignerWeightAt(k, r)' \in {0, SignerWeightAt(k, r)}
        /\ total' \in {0, total}
    BY <1>1, <2>2, StepForgets
  <2>5. /\ Len(AllGood(keys)) > 0 /\ Len(AllGood(keys)) = Len(keys) /\ InOrder(keys)
        /\ RequiredWeightAt(r)' > 0
        /\ \A i \in DOMAIN keys :
              /\ Genuine(AllGood(keys)[i]) /\ SignerWeightAt(keys[i], r)' > 0
              /\ Counted(keys, r)'[i] <= WEIGHT_MAX
        /\ Counted(keys, r)'[Len(keys)] >= RequiredWeightAt(r)'
    BY <1>1, Zenon DEF Verifies
  <2>6. RequiredWeightAt(r)' = Required(total') /\ RequiredWeightAt(r) = Required(total)
    BY <1>1, Zenon DEF RequiredWeightAt, Required
  <2>7. total' # 0
    <3>1. Required(0) = 0
      BY <1>1, RequiredNeedsTotal
    <3> QED BY <2>5, <2>6, <3>1
  <2>8. RequiredWeightAt(r)' = RequiredWeightAt(r)
    BY <2>4, <2>6, <2>7
  <2>9. \A i \in DOMAIN keys : SignerWeightAt(keys[i], r)' = SignerWeightAt(keys[i], r)
    <3>1. ASSUME NEW i \in DOMAIN keys
          PROVE  SignerWeightAt(keys[i], r)' = SignerWeightAt(keys[i], r)
      <4>1. SignerWeightAt(keys[i], r)' \in {0, SignerWeightAt(keys[i], r)}
        BY <2>1, <2>4
      <4>2. SignerWeightAt(keys[i], r)' # 0
        BY <2>5
      <4> QED BY <4>1, <4>2
    <3> QED BY <3>1
  <2>10. Counted(keys, r)' = Counted(keys, r)
    BY <2>1, <2>9, CountedAlike
  <2> QED BY <2>5, <2>8, <2>9, <2>10, Zenon DEF Verifies
<1>2. QuorumInv /\ [Next]_vars =>
        [threshold' = threshold =>
            \A r \in 0 .. ledger - 1 : \A keys \in Batch(Signers) :
                Verifies(AllGood(keys), keys, r)' => Verifies(AllGood(keys), keys, r)]_vars
  BY <1>1
<1> QED BY <1>2, QuorumInvariant, PTL DEF Spec, RefusalsAreFinal

=============================================================================
