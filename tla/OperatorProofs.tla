--------------------------- MODULE OperatorProofs ---------------------------
(***************************************************************************)
(* Proofs about the pure operators.  RetryDelay: for any initial and       *)
(* maximal backoff and any number of attempts, the delays that the retry   *)
(* loops of dispatcher and providers compute.  Snapshot, for any           *)
(* dictionary: sort.Slice has an order to choose, and it is unique up to   *)
(* equal keys, so that what is sorted by a full key does not depend on the *)
(* order in which the API lists it.                                        *)
(***************************************************************************)
EXTENDS RetryDelay, Snapshot, FiniteSetTheorems, WellFoundedInduction, TLAPS

-----------------------------------------------------------------------------
(* Induction, as that of a set of numbers with a least element.            *)

\* A set of natural numbers has a least one.
LEMMA LeastNumber ==
    ASSUME NEW T, T \subseteq Nat, T # {}
    PROVE  \E x \in T : \A y \in T : x <= y
<1> DEFINE R == {p \in Nat \X Nat : p[1] < p[2]}
<1>1. IsWellFoundedOn(R, Nat)
  BY NatLessThanWellFounded DEF OpToRel
<1>2. PICK x \in T : \A y \in T : ~(<<y, x>> \in R)
  <2> HIDE DEF R
  <2> QED
    BY <1>1, WFMin, Zenon
<1>3. ASSUME NEW y \in T PROVE x <= y
  <2>1. <<y, x>> \in Nat \X Nat /\ <<y, x>>[1] = y /\ <<y, x>>[2] = x
    OBVIOUS
  <2> QED
    BY <1>2, <2>1
<1> QED
  BY <1>3

\* A set with 0 and every successor of its numbers has all numbers.
LEMMA Induction ==
    ASSUME NEW S, 0 \in S, \A n \in Nat : n \in S => n + 1 \in S
    PROVE  Nat \subseteq S
<1> SUFFICES ASSUME Nat \ S # {} PROVE FALSE
  OBVIOUS
<1>1. PICK x \in Nat \ S : \A y \in Nat \ S : x <= y
  BY LeastNumber, Zenon
<1>2. x # 0 /\ x - 1 \in Nat /\ x - 1 \in S
  BY <1>1
<1> QED
  BY <1>1, <1>2

-----------------------------------------------------------------------------
(* The doubling loop of the retries.                                       *)

\* The delay after a failed attempt, from the one before.
Doubled(d, max) == IF d >= max \div 2 THEN max ELSE 2 * d

\* The delays of the first a attempts.
Delays(f, initial, max, a) ==
    f = [n \in 1 .. a |-> IF n = 1 THEN initial
                          ELSE IF f[n - 1] >= max \div 2 THEN max
                          ELSE 2 * f[n - 1]]

\* One doubling stays within the configured limits.
LEMMA DoubledInRange ==
    ASSUME NEW initial \in Nat \ {0}, NEW max \in Nat, initial <= max, NEW d \in initial .. max
    PROVE  Doubled(d, max) \in d .. max /\ Doubled(d, max) \in initial .. max
<1>1. max \div 2 \in Nat /\ 2 * (max \div 2) <= max
  OBVIOUS
<1> QED
  BY <1>1 DEF Doubled

\* The loop computes one delay for each attempt.
LEMMA DelaysExist ==
    ASSUME NEW initial, NEW max, NEW a \in Nat
    PROVE  \E f : Delays(f, initial, max, a)
<1> DEFINE S == {n \in Nat : \E f : Delays(f, initial, max, n)}
<1>1. 0 \in S
  <2> DEFINE f == [n \in 1 .. 0 |-> n]
  <2>1. Delays(f, initial, max, 0)
    BY DEF Delays
  <2> QED
    BY <2>1
<1>2. ASSUME NEW n \in Nat, n \in S PROVE n + 1 \in S
  <2>1. PICK f : Delays(f, initial, max, n)
    BY <1>2
  <2> DEFINE next == IF n + 1 = 1 THEN initial ELSE Doubled(f[n], max)
             g == [m \in 1 .. n + 1 |-> IF m = n + 1 THEN next ELSE f[m]]
  <2>2. ASSUME NEW m \in 1 .. n + 1
        PROVE  g[m] = IF m = 1 THEN initial ELSE IF g[m - 1] >= max \div 2 THEN max ELSE 2 * g[m - 1]
    <3>1. CASE m = n + 1
      <4>1. g[m] = next /\ (m # 1 => m - 1 \in 1 .. n + 1 /\ g[m - 1] = f[n])
        BY <3>1
      <4> HIDE DEF g
      <4> QED
        BY <3>1, <4>1 DEF Doubled
    <3>2. CASE m # n + 1
      <4>1. m \in 1 .. n /\ g[m] = f[m] /\ (m # 1 => m - 1 \in 1 .. n /\ g[m - 1] = f[m - 1])
        BY <3>2
      <4>2. f[m] = IF m = 1 THEN initial ELSE IF f[m - 1] >= max \div 2 THEN max ELSE 2 * f[m - 1]
        BY <2>1, <4>1 DEF Delays
      <4> HIDE DEF g
      <4> QED
        BY <4>1, <4>2
    <3> QED
      BY <3>1, <3>2
  <2>3. g = [m \in 1 .. n + 1 |-> g[m]]
    OBVIOUS
  <2>4. Delays(g, initial, max, n + 1)
    <3> HIDE DEF g
    <3> QED
      BY <2>2, <2>3, Zenon DEF Delays
  <2> QED
    BY <2>4
<1>3. Nat \subseteq S
  <2> HIDE DEF S
  <2> QED
    BY <1>1, <1>2, Induction
<1> QED
  BY <1>3

\* The delays begin with the initial one, never shrink and never pass the maximum.
LEMMA DelaysInRange ==
    ASSUME NEW initial \in Nat \ {0}, NEW max \in Nat, initial <= max, NEW a \in Nat, NEW f, Delays(f, initial, max, a),
           NEW n \in 1 .. a
    PROVE  f[n] \in initial .. max
<1> DEFINE S == {m \in Nat : m + 1 \in 1 .. a => f[m + 1] \in initial .. max}
<1>1. 0 \in S
  BY DEF Delays
<1>2. ASSUME NEW m \in Nat, m \in S PROVE m + 1 \in S
  <2> SUFFICES ASSUME m + 2 \in 1 .. a PROVE f[m + 2] \in initial .. max
    OBVIOUS
  <2>1. f[m + 1] \in initial .. max
    BY <1>2
  <2>2. f[m + 2] = Doubled(f[m + 1], max)
    BY DEF Delays, Doubled
  <2> QED
    BY <2>1, <2>2, DoubledInRange
<1>3. Nat \subseteq S
  <2> HIDE DEF S
  <2> QED
    BY <1>1, <1>2, Induction
<1>4. n - 1 \in S
  BY <1>3
<1> QED
  BY <1>4

\* A longer loop begins like a shorter one.
LEMMA DelaysAgree ==
    ASSUME NEW initial, NEW max, NEW a \in Nat, NEW b \in Nat, a <= b,
           NEW f, Delays(f, initial, max, a), NEW g, Delays(g, initial, max, b), NEW n \in 1 .. a
    PROVE  f[n] = g[n]
<1> DEFINE S == {m \in Nat : m + 1 \in 1 .. a => f[m + 1] = g[m + 1]}
<1>1. 0 \in S
  BY DEF Delays
<1>2. ASSUME NEW m \in Nat, m \in S PROVE m + 1 \in S
  <2> SUFFICES ASSUME m + 2 \in 1 .. a PROVE f[m + 2] = g[m + 2]
    OBVIOUS
  <2>1. f[m + 1] = g[m + 1]
    BY <1>2
  <2>2. f[m + 2] = Doubled(f[m + 1], max) /\ g[m + 2] = Doubled(g[m + 1], max)
    BY DEF Delays, Doubled
  <2> QED
    BY <2>1, <2>2
<1>3. Nat \subseteq S
  <2> HIDE DEF S
  <2> QED
    BY <1>1, <1>2, Induction
<1>4. n - 1 \in S
  BY <1>3
<1> QED
  BY <1>4

\* What backoff returns is the last of the delays.
LEMMA BackoffIsLast ==
    ASSUME NEW initial \in Nat \ {0}, NEW max \in Nat, initial <= max, NEW a \in Nat \ {0}
    PROVE  \E f : Delays(f, initial, max, a) /\ backoff(initial, max, a) = f[a]
<1> DEFINE f == CHOOSE f : Delays(f, initial, max, a)
<1>1. Delays(f, initial, max, a)
  BY DelaysExist
<1>2. backoff(initial, max, a) = IF f[a] > max THEN max ELSE f[a]
  BY DEF backoff, Delays
<1> HIDE DEF f
<1>3. f[a] \in initial .. max
  BY <1>1, DelaysInRange
<1> QED
  BY <1>1, <1>2, <1>3

\* For every configuration that validate accepts and any number of attempts, the
\* delay between two attempts is at least the initial and at most the maximal
\* backoff: doubling never passes the maximum, and so never overflows
\* (Dispatcher.backoff, RetryPolicy.backoff).
THEOREM BackoffInRange ==
    ASSUME NEW initial \in Nat \ {0}, NEW max \in Nat, initial <= max, NEW a \in Nat \ {0}
    PROVE  backoff(initial, max, a) \in initial .. max
<1>1. PICK f : Delays(f, initial, max, a) /\ backoff(initial, max, a) = f[a]
  BY BackoffIsLast
<1>2. a \in 1 .. a
  OBVIOUS
<1> QED
  BY <1>1, <1>2, DelaysInRange

\* What Outbox and Provider assume of their constant Backoff, the loops provide.
THEOREM BackoffIsAsAssumed ==
    ASSUME NEW initial \in Nat \ {0}, NEW max \in Nat, initial <= max, NEW attempts \in Nat
    PROVE  [a \in 1 .. attempts |-> backoff(initial, max, a)] \in [1 .. attempts -> 1 .. max]
<1>1. ASSUME NEW a \in 1 .. attempts PROVE backoff(initial, max, a) \in 1 .. max
  <2>1. backoff(initial, max, a) \in initial .. max
    BY BackoffInRange
  <2> QED
    BY <2>1
<1> QED
  BY <1>1

\* Delays never become shorter from one attempt to the next (the same loops).
THEOREM BackoffGrows ==
    ASSUME NEW initial \in Nat \ {0}, NEW max \in Nat, initial <= max, NEW a \in Nat \ {0}
    PROVE  backoff(initial, max, a) <= backoff(initial, max, a + 1)
<1>1. PICK f : Delays(f, initial, max, a) /\ backoff(initial, max, a) = f[a]
  BY BackoffIsLast
<1>2. PICK g : Delays(g, initial, max, a + 1) /\ backoff(initial, max, a + 1) = g[a + 1]
  BY BackoffIsLast
<1>3. f[a] = g[a]
  BY <1>1, <1>2, DelaysAgree
<1>4. g[a + 1] = Doubled(g[a], max)
  BY <1>2 DEF Delays, Doubled
<1>5. g[a] \in initial .. max
  BY <1>2, DelaysInRange
<1> QED
  BY <1>1, <1>2, <1>3, <1>4, <1>5, DoubledInRange

-----------------------------------------------------------------------------
(* Orders on a finite set.                                                 *)

\* No two elements are incomparable, and the order is transitive.
Preorder(R, S) ==
    /\ \A x, y \in S : <<x, y>> \in R \/ <<y, x>> \in R
    /\ \A x, y, z \in S : <<x, y>> \in R /\ <<y, z>> \in R => <<x, z>> \in R

\* The numbers from 1 to n are the places of the elements of S, in order R.
Orders(p, n, R, S) ==
    /\ p \in Bijection(1 .. n, S)
    /\ \A i, j \in 1 .. n : i < j => <<p[i], p[j]>> \in R

\* One more element is inserted into an order.
LEMMA Insertion ==
    ASSUME NEW R, NEW S, NEW x \in S, Preorder(R, S), NEW n \in Nat, NEW p, Orders(p, n, R, S \ {x})
    PROVE  \E q : Orders(q, n + 1, R, S)
<1>1. p \in [1 .. n -> S \ {x}] /\ (\A i, j \in 1 .. n : p[i] = p[j] => i = j) /\ (\A y \in S \ {x} : \E i \in 1 .. n : p[i] = y)
  BY DEF Orders, Bijection, Injection, Surjection, IsInjective
<1> DEFINE Later == {k \in 1 .. n + 1 : \A i \in k .. n : <<p[i], x>> \notin R}
<1>2. n + 1 \in Later /\ Later \subseteq Nat
  OBVIOUS
<1>3. PICK k \in Later : \A m \in Later : k <= m
  <2> HIDE DEF Later
  <2> QED
    BY <1>2, LeastNumber, Zenon
<1> DEFINE q == [i \in 1 .. n + 1 |-> IF i < k THEN p[i] ELSE IF i = k THEN x ELSE p[i - 1]]
<1>4. q \in [1 .. n + 1 -> S]
  BY <1>1
<1>5. ASSUME NEW i \in 1 .. n + 1, NEW j \in 1 .. n + 1, q[i] = q[j] PROVE i = j
  BY <1>1, <1>5
<1>6. ASSUME NEW y \in S PROVE \E i \in 1 .. n + 1 : q[i] = y
  <2>1. CASE y = x
    <3>1. k \in 1 .. n + 1
      BY <1>3
    <3>2. q[k] = x
      BY <3>1
    <3> QED
      BY <2>1, <3>1, <3>2
  <2>2. CASE y # x
    <3>1. PICK i \in 1 .. n : p[i] = y
      BY <1>1, <2>2
    <3>2. i \in 1 .. n + 1 /\ i + 1 \in 1 .. n + 1
      OBVIOUS
    <3>3. q[i] = y \/ q[i + 1] = y
      BY <3>1, <3>2
    <3> HIDE DEF q
    <3> QED
      BY <3>2, <3>3
  <2> QED
    BY <2>1, <2>2
<1>7. ASSUME NEW i \in 1 .. n, i < k PROVE <<p[i], x>> \in R
  <2>1. k - 1 \in 1 .. n /\ k - 1 \notin Later
    BY <1>3, <1>7
  <2>2. <<p[k - 1], x>> \in R
    BY <1>3, <2>1
  <2>3. i = k - 1 \/ <<p[i], p[k - 1]>> \in R
    BY <1>7, <2>1 DEF Orders
  <2> QED
    BY <1>1, <2>1, <2>2, <2>3 DEF Preorder
<1>8. ASSUME NEW i \in 1 .. n, i >= k PROVE <<x, p[i]>> \in R
  <2>1. <<p[i], x>> \notin R
    BY <1>3, <1>8
  <2>2. p[i] \in S
    BY <1>1
  <2> QED
    BY <2>1, <2>2 DEF Preorder
<1>9. ASSUME NEW i \in 1 .. n + 1, NEW j \in 1 .. n + 1, i < j PROVE <<q[i], q[j]>> \in R
  <2>1. CASE j < k \/ i > k
    BY <1>9, <2>1 DEF Orders
  <2>2. CASE i = k
    BY <1>8, <1>9, <2>2
  <2>3. CASE j = k
    BY <1>7, <1>9, <2>3
  <2>4. CASE i < k /\ j > k
    BY <1>9, <2>4 DEF Orders
  <2> QED
    BY <1>3, <2>1, <2>2, <2>3, <2>4
<1>10. q \in Bijection(1 .. n + 1, S)
  <2> HIDE DEF q
  <2> QED
    BY <1>4, <1>5, <1>6 DEF Bijection, Injection, Surjection, IsInjective
<1> HIDE DEF q
<1> QED
  BY <1>9, <1>10 DEF Orders

\* Every finite set can be put in order.
LEMMA OrderExists ==
    ASSUME NEW R, NEW U, IsFiniteSet(U), Preorder(R, U)
    PROVE  \E p : Orders(p, Cardinality(U), R, U)
<1> DEFINE Sortable == {n \in Nat : \A S \in SUBSET U : Cardinality(S) = n => \E p : Orders(p, n, R, S)}
<1>1. \A S \in SUBSET U : IsFiniteSet(S) /\ Cardinality(S) \in Nat /\ Preorder(R, S)
  BY FS_Subset, FS_CardinalityType DEF Preorder
<1>2. 0 \in Sortable
  <2> SUFFICES ASSUME NEW S \in SUBSET U, Cardinality(S) = 0 PROVE \E p : Orders(p, 0, R, S)
    OBVIOUS
  <2>1. S = {}
    BY <1>1, FS_EmptySet
  <2> DEFINE p == [i \in 1 .. 0 |-> i]
  <2>2. p \in Bijection(1 .. 0, S)
    BY <2>1 DEF Bijection, Injection, Surjection, IsInjective
  <2>3. Orders(p, 0, R, S)
    BY <2>2 DEF Orders
  <2> QED
    BY <2>3
<1>3. ASSUME NEW n \in Nat, n \in Sortable PROVE n + 1 \in Sortable
  <2> SUFFICES ASSUME NEW S \in SUBSET U, Cardinality(S) = n + 1 PROVE \E p : Orders(p, n + 1, R, S)
    OBVIOUS
  <2>1. PICK x : x \in S
    BY <1>1, FS_EmptySet
  <2>2. S \ {x} \in SUBSET U /\ Cardinality(S \ {x}) = n
    <3>1. Cardinality(S \ {x}) = Cardinality(S) - 1
      BY <1>1, <2>1, FS_RemoveElement
    <3> QED
      BY <3>1
  <2>3. PICK p : Orders(p, n, R, S \ {x})
    BY <1>3, <2>2
  <2> QED
    BY <1>1, <2>1, <2>3, Insertion
<1>4. Nat \subseteq Sortable
  <2> HIDE DEF Sortable
  <2> QED
    BY <1>2, <1>3, Induction
<1>5. Cardinality(U) \in Sortable
  BY <1>1, <1>4
<1> QED
  BY <1>5

\* A sequence is in order R; its places are those of another one, rearranged.
Ascending(a, n, R) == \A i, j \in 1 .. n : i < j => <<a[i], a[j]>> \in R
Rearranged(b, a, q, n) == \A i \in 1 .. n : b[i] = a[q[i]]

\* Of two orders of the same values, one is nowhere after the other: of the
\* first i values of b, one is at i or later in a.
LEMMA NotAfter ==
    ASSUME NEW V, NEW R, Preorder(R, V), NEW n \in Nat, NEW a \in [1 .. n -> V], NEW b \in [1 .. n -> V],
           NEW q \in Bijection(1 .. n, 1 .. n), Rearranged(b, a, q, n), Ascending(a, n, R), Ascending(b, n, R),
           NEW i \in 1 .. n
    PROVE  <<a[i], b[i]>> \in R
<1>1. q \in [1 .. n -> 1 .. n] /\ \A j, k \in 1 .. n : q[j] = q[k] => j = k
  BY DEF Bijection, Injection, IsInjective
<1>2. PICK k \in 1 .. i : q[k] >= i
  <2> SUFFICES ASSUME \A k \in 1 .. i : q[k] < i PROVE FALSE
    BY <1>1
  <2> DEFINE f == [k \in 1 .. i |-> q[k]]
  <2>1. f \in [1 .. i -> 1 .. i - 1]
    BY <1>1
  <2>2. ASSUME NEW j \in 1 .. i, NEW k \in 1 .. i, f[j] = f[k] PROVE j = k
    <3>1. j \in 1 .. n /\ k \in 1 .. n /\ q[j] = q[k]
      BY <2>2
    <3> QED
      BY <1>1, <3>1
  <2>3. /\ IsFiniteSet(1 .. i) /\ Cardinality(1 .. i) = i
        /\ IsFiniteSet(1 .. i - 1) /\ Cardinality(1 .. i - 1) = i - 1
    BY FS_Interval
  <2>4. Cardinality(1 .. i - 1) < Cardinality(1 .. i)
    BY <2>3
  <2>5. \E j, k \in 1 .. i : j # k /\ f[j] = f[k]
    <3> DEFINE S == 1 .. i
               T == 1 .. i - 1
    <3>1. IsFiniteSet(S) /\ IsFiniteSet(T) /\ Cardinality(T) < Cardinality(S) /\ f \in [S -> T]
      BY <2>1, <2>3, <2>4
    <3> HIDE DEF f, S, T
    <3>2. \E j, k \in S : j # k /\ f[j] = f[k]
      BY <3>1, FS_PigeonHole, SMTT(20)
    <3> QED
      BY <3>2 DEF S
  <2> QED
    BY <2>2, <2>5
<1>3. a[i] = a[q[k]] \/ <<a[i], a[q[k]]>> \in R
  BY <1>1, <1>2 DEF Ascending
<1>4. b[k] = b[i] \/ <<b[k], b[i]>> \in R
  BY <1>2 DEF Ascending
<1>5. a[q[k]] = b[k] /\ a[i] \in V /\ b[k] \in V /\ b[i] \in V
  BY <1>1, <1>2 DEF Rearranged
<1> QED
  BY <1>3, <1>4, <1>5 DEF Preorder

-----------------------------------------------------------------------------
(* The order of words and keys.                                            *)

\* Keys of k words.
Keys(k) == [1 .. k -> Words]

\* A word has one rank, and a rank one word.
LEMMA WordRank ==
    ASSUME NEW u \in Words, NEW v \in Words
    PROVE  /\ Rank(u) \in DOMAIN Dictionary /\ Dictionary[Rank(u)] = u /\ Rank(u) \in Int
           /\ Rank(u) = Rank(v) => u = v
<1>1. ASSUME NEW w \in Words PROVE Rank(w) \in DOMAIN Dictionary /\ Dictionary[Rank(w)] = w
  <2>1. \E i \in DOMAIN Dictionary : Dictionary[i] = w
    BY DEF Words
  <2> QED
    BY <2>1 DEF Rank
<1>2. DOMAIN Dictionary \subseteq Int
  <2>1. Dictionary \in Seq(STRING)
    BY DictionaryAssumption, Zenon
  <2>2. DOMAIN Dictionary = 1 .. Len(Dictionary)
    BY <2>1
  <2> QED
    BY <2>2
<1>3. Rank(u) = Rank(v) => u = v
  BY <1>1, Zenon
<1> QED
  BY <1>1, <1>2, <1>3, Zenon

\* Two keys are equal, or one comes before the other.
LEMMA BeforeTotal ==
    ASSUME NEW k \in Nat, NEW p \in Keys(k), NEW q \in Keys(k), ~Before(p, q), ~Before(q, p)
    PROVE  p = q
<1> DEFINE D == {i \in 1 .. k : p[i] # q[i]}
<1> SUFFICES ASSUME D # {} PROVE FALSE
  BY DEF Keys
<1>1. D \subseteq Nat
  OBVIOUS
<1>2. PICK i \in D : \A j \in D : i <= j
  <2> HIDE DEF D
  <2> QED
    BY <1>1, LeastNumber, Zenon
<1>3. i \in 1 .. k /\ p[i] # q[i] /\ \A j \in 1 .. i - 1 : p[j] = q[j]
  BY <1>2
<1>4. Rank(p[i]) < Rank(q[i]) \/ Rank(q[i]) < Rank(p[i])
  <2>1. p[i] \in Words /\ q[i] \in Words
    BY <1>3 DEF Keys
  <2> QED
    BY <1>3, <2>1, WordRank
<1>5. DOMAIN p = 1 .. k /\ DOMAIN q = 1 .. k
  BY DEF Keys
<1> QED
  BY <1>3, <1>4, <1>5 DEF Before

\* The order of keys is transitive and without cycles.
LEMMA BeforeTransitive ==
    ASSUME NEW k \in Nat, NEW p \in Keys(k), NEW q \in Keys(k), NEW r \in Keys(k), Before(p, q), Before(q, r)
    PROVE  Before(p, r)
<1>1. PICK i \in 1 .. k : Rank(p[i]) < Rank(q[i]) /\ \A j \in 1 .. i - 1 : p[j] = q[j]
  BY DEF Before, Keys
<1>2. PICK m \in 1 .. k : Rank(q[m]) < Rank(r[m]) /\ \A j \in 1 .. m - 1 : q[j] = r[j]
  BY DEF Before, Keys
<1>3. \A j \in 1 .. k : Rank(p[j]) \in Int /\ Rank(q[j]) \in Int /\ Rank(r[j]) \in Int
  BY WordRank DEF Keys
<1>4. \E l \in 1 .. k : Rank(p[l]) < Rank(r[l]) /\ \A j \in 1 .. l - 1 : p[j] = r[j]
  <2>1. CASE i < m
    <3>1. Rank(p[i]) < Rank(r[i]) /\ \A j \in 1 .. i - 1 : p[j] = r[j]
      BY <1>1, <1>2, <2>1
    <3> QED
      BY <3>1
  <2>2. CASE m < i
    <3>1. Rank(p[m]) < Rank(r[m]) /\ \A j \in 1 .. m - 1 : p[j] = r[j]
      BY <1>1, <1>2, <2>2
    <3> QED
      BY <3>1
  <2>3. CASE i = m
    <3>1. Rank(p[i]) < Rank(r[i])
      BY <1>1, <1>2, <1>3, <2>3
    <3>2. \A j \in 1 .. i - 1 : p[j] = r[j]
      BY <1>1, <1>2, <2>3
    <3> QED
      BY <3>1, <3>2
  <2> QED
    BY <2>1, <2>2, <2>3
<1> QED
  BY <1>4 DEF Before, Keys

\* No key comes before itself.
LEMMA BeforeIrreflexive ==
    ASSUME NEW k \in Nat, NEW p \in Keys(k)
    PROVE  ~Before(p, p)
  BY WordRank DEF Before, Keys

\* The order in which sort.Slice puts indexes, by their keys.
ByKey(key, S) == {e \in S \X S : ~Before(key[e[2]], key[e[1]])}

\* When an index may come before another one.
LEMMA ByKeyPair ==
    ASSUME NEW key, NEW S, NEW x \in S, NEW y \in S
    PROVE  <<x, y>> \in ByKey(key, S) <=> ~Before(key[y], key[x])
  BY DEF ByKey

\* The less functions of the normalizer give sort.Slice an order.
LEMMA KeysAreOrdered ==
    ASSUME NEW k \in Nat, NEW S, NEW key \in [S -> Keys(k)]
    PROVE  Preorder(ByKey(key, S), S)
<1>1. ASSUME NEW x \in S, NEW y \in S PROVE <<x, y>> \in ByKey(key, S) \/ <<y, x>> \in ByKey(key, S)
  BY ByKeyPair, BeforeTransitive, BeforeIrreflexive
<1>2. ASSUME NEW x \in S, NEW y \in S, NEW z \in S, <<x, y>> \in ByKey(key, S), <<y, z>> \in ByKey(key, S)
      PROVE  <<x, z>> \in ByKey(key, S)
  <2>1. ~Before(key[y], key[x]) /\ ~Before(key[z], key[y])
    BY <1>2, ByKeyPair
  <2>2. key[x] \in Keys(k) /\ key[y] \in Keys(k) /\ key[z] \in Keys(k)
    OBVIOUS
  <2>3. key[x] = key[y] \/ Before(key[x], key[y])
    BY <2>1, <2>2, BeforeTotal
  <2>4. ~Before(key[z], key[x])
    BY <2>1, <2>2, <2>3, BeforeTransitive
  <2> QED
    BY <2>4, ByKeyPair
<1> QED
  BY <1>1, <1>2 DEF Preorder

\* An order of S by its keys, and a sequence in this order.
InOrder(p, n, S, key) ==
    /\ p \in Bijection(1 .. n, S)
    /\ \A i, j \in 1 .. n : i < j => ~Before(key[p[j]], key[p[i]])
Taken(seq, p, n) == [i \in 1 .. n |-> seq[p[i]]]

\* sort.Slice returns the chosen elements, each once, and in the order of their keys.
LEMMA SliceIsSorted ==
    ASSUME NEW k \in Nat, NEW chosen, IsFiniteSet(chosen), NEW key \in [chosen -> Keys(k)], NEW seq
    PROVE  /\ Cardinality(chosen) \in Nat
           /\ \E p : /\ InOrder(p, Cardinality(chosen), chosen, key)
                     /\ sortSlice(seq, chosen, key) = Taken(seq, p, Cardinality(chosen))
<1> DEFINE n == Cardinality(chosen)
           Good(p) == \A i, j \in 1 .. n : i < j => ~Before(key[p[j]], key[p[i]])
<1>1. n \in Nat
  BY FS_CardinalityType
<1>2. PICK q : Orders(q, n, ByKey(key, chosen), chosen)
  BY KeysAreOrdered, OrderExists
<1>3. q \in Bijection(1 .. n, chosen) /\ q \in [1 .. n -> chosen]
  BY <1>2 DEF Orders, Bijection, Injection
<1>4. Good(q)
  BY <1>2, <1>3, ByKeyPair, Zenon DEF Orders
<1> DEFINE p == CHOOSE p \in Bijection(1 .. n, chosen) : Good(p)
<1>5. p \in Bijection(1 .. n, chosen) /\ Good(p)
  <2> HIDE DEF Good
  <2> QED
    BY <1>3, <1>4
<1>6. sortSlice(seq, chosen, key) = [i \in 1 .. n |-> seq[p[i]]]
  BY DEF sortSlice
<1>7. InOrder(p, n, chosen, key) /\ sortSlice(seq, chosen, key) = Taken(seq, p, n)
  BY <1>5, <1>6 DEF InOrder, Taken
<1> QED
  BY <1>1, <1>7, Zenon

-----------------------------------------------------------------------------
(* The result of sort.Slice is unique up to equal keys.                    *)

\* What a bijection does.
LEMMA BijectionFacts ==
    ASSUME NEW S, NEW T, NEW f \in Bijection(S, T)
    PROVE  /\ f \in [S -> T]
           /\ \A x, y \in S : f[x] = f[y] => x = y
           /\ \A y \in T : \E x \in S : f[x] = y
  BY DEF Bijection, Injection, Surjection, IsInjective

\* An order has every chosen element at some place.
LEMMA InOrderFacts ==
    ASSUME NEW p, NEW n, NEW S, NEW key, InOrder(p, n, S, key)
    PROVE  p \in [1 .. n -> S] /\ \A y \in S : \E x \in 1 .. n : p[x] = y
<1> DEFINE N == 1 .. n
<1>1. p \in Bijection(N, S)
  BY DEF InOrder
<1> HIDE DEF N
<1>2. p \in [N -> S] /\ \A y \in S : \E x \in N : p[x] = y
  BY <1>1, BijectionFacts
<1> QED
  BY <1>2 DEF N

\* A function that is one-to-one and onto.
LEMMA IsBijection ==
    ASSUME NEW S, NEW T, NEW f \in [S -> T],
           \A x, y \in S : f[x] = f[y] => x = y,
           \A y \in T : \E x \in S : f[x] = y
    PROVE  f \in Bijection(S, T)
  BY DEF Bijection, Injection, Surjection, IsInjective

\* The places of an order, as places of another order of the same elements.
LEMMA Matching ==
    ASSUME NEW n \in Nat, NEW C, NEW D, NEW p \in Bijection(1 .. n, C), NEW q \in Bijection(1 .. n, D),
           NEW h \in Bijection(C, D)
    PROVE  /\ \E m \in Bijection(1 .. n, 1 .. n) : \A i \in 1 .. n : h[p[m[i]]] = q[i]
           /\ \E m \in Bijection(1 .. n, 1 .. n) : \A i \in 1 .. n : q[m[i]] = h[p[i]]
<1> DEFINE N == 1 .. n
<1>0. p \in Bijection(N, C) /\ q \in Bijection(N, D)
  OBVIOUS
<1> HIDE DEF N
<1>1. /\ p \in [N -> C] /\ (\A x, y \in N : p[x] = p[y] => x = y) /\ (\A y \in C : \E x \in N : p[x] = y)
      /\ q \in [N -> D] /\ (\A x, y \in N : q[x] = q[y] => x = y) /\ (\A y \in D : \E x \in N : q[x] = y)
      /\ h \in [C -> D] /\ (\A x, y \in C : h[x] = h[y] => x = y) /\ (\A y \in D : \E x \in C : h[x] = y)
  <2>1. ASSUME NEW S, NEW T, NEW b \in Bijection(S, T)
        PROVE  b \in [S -> T] /\ (\A x, y \in S : b[x] = b[y] => x = y) /\ (\A y \in T : \E x \in S : b[x] = y)
    BY BijectionFacts
  <2> QED
    BY <1>0, <2>1
<1> DEFINE f == [i \in N |-> CHOOSE j \in N : h[p[j]] = q[i]]
           g == [i \in N |-> CHOOSE j \in N : q[j] = h[p[i]]]
<1>2. ASSUME NEW i \in N PROVE f[i] \in N /\ h[p[f[i]]] = q[i]
  <2>1. \E j \in N : h[p[j]] = q[i]
    BY <1>1
  <2> QED
    BY <2>1
<1>3. ASSUME NEW i \in N PROVE g[i] \in N /\ q[g[i]] = h[p[i]]
  <2>1. \E j \in N : q[j] = h[p[i]]
    BY <1>1
  <2> QED
    BY <2>1
<1>4. f \in [N -> N] /\ g \in [N -> N]
  BY <1>2, <1>3, Zenon
<1> HIDE DEF f, g
<1>5. ASSUME NEW x \in N, NEW y \in N PROVE (f[x] = f[y] => x = y) /\ (g[x] = g[y] => x = y)
  <2>1. f[x] = f[y] => q[x] = q[y]
    BY <1>2, Zenon
  <2>2. g[x] = g[y] => h[p[x]] = h[p[y]]
    BY <1>3, Zenon
  <2> QED
    BY <1>1, <2>1, <2>2
<1>6. ASSUME NEW y \in N PROVE (\E x \in N : f[x] = y) /\ (\E x \in N : g[x] = y)
  <2>1. PICK x \in N : q[x] = h[p[y]]
    BY <1>1
  <2>2. f[x] = y
    BY <1>1, <1>2, <2>1
  <2>3. PICK z \in N : h[p[z]] = q[y]
    BY <1>1
  <2>4. g[z] = y
    BY <1>1, <1>3, <2>3
  <2> QED
    BY <2>2, <2>4
<1>7. f \in Bijection(N, N) /\ g \in Bijection(N, N)
  BY <1>4, <1>5, <1>6, IsBijection, Zenon
<1> QED
  BY <1>2, <1>3, <1>7 DEF N

\* Two lists have the same elements, with the same keys; elements of one list
\* with equal keys are equal.
SameElements(h, C, D, key, lock, seq, tail) ==
    h \in Bijection(C, D) /\ \A x \in C : lock[h[x]] = key[x] /\ tail[h[x]] = seq[x]
KeysDecide(C, key, seq) == \A x, y \in C : key[x] = key[y] => seq[x] = seq[y]

\* Two lists of the same elements, each in the order of its keys, are equal.
LEMMA OrdersAgree ==
    ASSUME NEW k \in Nat, NEW n \in Nat, NEW C, NEW D, NEW key \in [C -> Keys(k)], NEW lock \in [D -> Keys(k)],
           NEW seq, NEW tail, NEW h, SameElements(h, C, D, key, lock, seq, tail), KeysDecide(C, key, seq),
           NEW p, InOrder(p, n, C, key), NEW q, InOrder(q, n, D, lock)
    PROVE  Taken(seq, p, n) = Taken(tail, q, n)
<1>0. /\ p \in Bijection(1 .. n, C) /\ q \in Bijection(1 .. n, D) /\ h \in Bijection(C, D)
      /\ \A i, j \in 1 .. n : i < j => ~Before(key[p[j]], key[p[i]])
      /\ \A i, j \in 1 .. n : i < j => ~Before(lock[q[j]], lock[q[i]])
  BY Zenon DEF InOrder, SameElements
<1>same. \A x \in C : lock[h[x]] = key[x] /\ tail[h[x]] = seq[x]
  BY Zenon DEF SameElements
<1>1. p \in [1 .. n -> C] /\ q \in [1 .. n -> D] /\ h \in [C -> D]
  BY <1>0, BijectionFacts
<1> DEFINE V == Keys(k)
           id == [x \in V |-> x]
           R == ByKey(id, V)
           a == [i \in 1 .. n |-> key[p[i]]]
           b == [i \in 1 .. n |-> lock[q[i]]]
<1>2. id \in [V -> Keys(k)]
  OBVIOUS
<1>3. Preorder(R, V)
  <2> HIDE DEF id, V
  <2> QED
    BY <1>2, KeysAreOrdered DEF V
<1>4. ASSUME NEW x \in V, NEW y \in V PROVE <<x, y>> \in R <=> ~Before(y, x)
  <2>1. id[x] = x /\ id[y] = y
    OBVIOUS
  <2> HIDE DEF id, V
  <2> QED
    BY <2>1, ByKeyPair
<1>5. a \in [1 .. n -> V] /\ b \in [1 .. n -> V]
  BY <1>1
<1>6. Ascending(a, n, R) /\ Ascending(b, n, R)
  <2> HIDE DEF R, V
  <2> QED
    BY <1>0, <1>4, <1>5 DEF Ascending
<1>7. PICK f \in Bijection(1 .. n, 1 .. n) : \A i \in 1 .. n : h[p[f[i]]] = q[i]
  BY <1>0, Matching
<1>8. PICK g \in Bijection(1 .. n, 1 .. n) : \A i \in 1 .. n : q[g[i]] = h[p[i]]
  BY <1>0, Matching
<1>9. f \in [1 .. n -> 1 .. n] /\ g \in [1 .. n -> 1 .. n]
  BY BijectionFacts, Zenon
<1>10. ASSUME NEW i \in 1 .. n PROVE b[i] = a[f[i]] /\ a[i] = b[g[i]]
  <2>1. f[i] \in 1 .. n /\ g[i] \in 1 .. n /\ p[f[i]] \in C /\ p[i] \in C
    BY <1>1, <1>9
  <2>2. lock[q[i]] = key[p[f[i]]] /\ lock[q[g[i]]] = key[p[i]]
    BY <1>same, <1>7, <1>8, <2>1, Zenon
  <2> QED
    BY <2>1, <2>2
<1>11. ASSUME NEW i \in 1 .. n PROVE a[i] = b[i]
  <2> HIDE DEF R, V, a, b
  <2>1. <<a[i], b[i]>> \in R
    <3>1. Rearranged(b, a, f, n)
      BY <1>10 DEF Rearranged
    <3> QED
      BY <1>3, <1>5, <1>6, <3>1, NotAfter, Zenon
  <2>2. <<b[i], a[i]>> \in R
    <3>1. Rearranged(a, b, g, n)
      BY <1>10 DEF Rearranged
    <3> QED
      BY <1>3, <1>5, <1>6, <3>1, NotAfter, Zenon
  <2>3. a[i] \in Keys(k) /\ b[i] \in Keys(k) /\ ~Before(b[i], a[i]) /\ ~Before(a[i], b[i])
    BY <1>4, <1>5, <2>1, <2>2 DEF V
  <2> QED
    BY <2>3, BeforeTotal
<1>12. ASSUME NEW i \in 1 .. n PROVE seq[p[i]] = tail[q[i]]
  <2> DEFINE x == p[f[i]]
  <2>1. x \in C /\ h[x] = q[i] /\ p[i] \in C
    BY <1>1, <1>7, <1>9
  <2>2. key[x] = lock[q[i]] /\ seq[x] = tail[q[i]]
    BY <1>same, <2>1, Zenon
  <2>3. key[x] = key[p[i]]
    BY <1>11, <2>2
  <2> QED
    BY <2>1, <2>2, <2>3, Zenon DEF KeysDecide
<1> QED
  BY <1>12 DEF Taken

\* sort.Slice returns the same for two lists of the same elements.
LEMMA SlicesAgree ==
    ASSUME NEW k \in Nat, NEW C, IsFiniteSet(C), NEW D, NEW key \in [C -> Keys(k)], NEW lock \in [D -> Keys(k)],
           NEW seq, NEW tail, NEW h, SameElements(h, C, D, key, lock, seq, tail), KeysDecide(C, key, seq)
    PROVE  sortSlice(seq, C, key) = sortSlice(tail, D, lock)
<1>1. IsFiniteSet(D) /\ Cardinality(D) = Cardinality(C)
  BY FS_Bijection DEF ExistsBijection, SameElements
<1> DEFINE n == Cardinality(C)
<1>2. n \in Nat
  BY FS_CardinalityType
<1>3. PICK p : InOrder(p, n, C, key) /\ sortSlice(seq, C, key) = Taken(seq, p, n)
  BY SliceIsSorted
<1>4. PICK q : InOrder(q, n, D, lock) /\ sortSlice(tail, D, lock) = Taken(tail, q, n)
  BY <1>1, SliceIsSorted
<1> HIDE DEF n
<1>5. Taken(seq, p, n) = Taken(tail, q, n)
  BY <1>2, <1>3, <1>4, OrdersAgree
<1> QED
  BY <1>3, <1>4, <1>5

KeysAscend(n, key) == \A i, j \in 1 .. n : i < j => ~Before(key[j], key[i])

\* sort.Slice leaves a list as it is that is in order already.
LEMMA SliceOfSorted ==
    ASSUME NEW k \in Nat, NEW n \in Nat, NEW key \in [1 .. n -> Keys(k)], NEW seq, KeysDecide(1 .. n, key, seq), KeysAscend(n, key)
    PROVE  sortSlice(seq, 1 .. n, key) = [i \in 1 .. n |-> seq[i]]
<1> DEFINE N == 1 .. n
           id == [i \in N |-> i]
<1>1. IsFiniteSet(N) /\ Cardinality(N) = n
  BY FS_Interval
<1>2. PICK q : InOrder(q, n, N, key) /\ sortSlice(seq, N, key) = Taken(seq, q, n)
  <2>1. key \in [N -> Keys(k)]
    OBVIOUS
  <2> HIDE DEF N
  <2> QED
    BY <1>1, <2>1, SliceIsSorted
<1>3. id \in Bijection(N, N) /\ \A x \in N : id[x] = x
  <2>1. id \in [N -> N] /\ (\A x, y \in N : id[x] = id[y] => x = y) /\ (\A y \in N : \E x \in N : id[x] = y)
    OBVIOUS
  <2> HIDE DEF N, id
  <2>2. id \in Bijection(N, N)
    BY <2>1, IsBijection
  <2> QED
    BY <2>2 DEF id
<1> HIDE DEF id
<1>4. InOrder(id, n, N, key)
  BY <1>3 DEF InOrder, KeysAscend
<1>5. SameElements(id, N, N, key, key, seq, seq)
  BY <1>3 DEF SameElements
<1>6. Taken(seq, id, n) = Taken(seq, q, n)
  <2>1. key \in [N -> Keys(k)] /\ KeysDecide(N, key, seq)
    OBVIOUS
  <2> HIDE DEF N
  <2> QED
    BY <1>2, <1>4, <1>5, <2>1, OrdersAgree
<1>7. Taken(seq, id, n) = [i \in 1 .. n |-> seq[i]]
  BY <1>3 DEF Taken
<1> QED
  BY <1>2, <1>6, <1>7

-----------------------------------------------------------------------------
(* Conditions and containers.                                              *)

\* The chosen conditions consist of words.
WordConditions(cs, C) ==
    \A i \in C : cs[i].type \in Words /\ cs[i].status \in Words /\ cs[i].reason \in Words

\* The key of a condition has three words.
LEMMA Triple ==
    ASSUME NEW u \in Words, NEW v \in Words, NEW w \in Words
    PROVE  <<u, v, w>> \in Keys(3)
<1>1. <<u, v, w>> \in Seq(Words) /\ Len(<<u, v, w>>) = 3
  OBVIOUS
<1> QED
  BY <1>1 DEF Keys

\* The key of a container has one word.
LEMMA Single ==
    ASSUME NEW u \in Words
    PROVE  <<u>> \in Keys(1)
  BY DEF Keys

\* Keys of one word are compared by the word.
LEMMA SingleBefore ==
    ASSUME NEW u, NEW v
    PROVE  Before(<<u>>, <<v>>) <=> Rank(u) < Rank(v)
<1> DEFINE p == <<u>>
           q == <<v>>
<1>1. DOMAIN p = {1} /\ p[1] = u /\ q[1] = v /\ 1 .. 1 - 1 = {}
  OBVIOUS
<1> HIDE DEF p, q
<1>2. Before(p, q) <=> Rank(u) < Rank(v)
  BY <1>1 DEF Before
<1> QED
  BY <1>2 DEF p, q

ConditionKey(c) == <<c.type, c.status, c.reason>>

\* sortConditions returns the chosen conditions in the order of type, status, reason.
LEMMA ConditionsSorted ==
    ASSUME NEW cs, NEW C, IsFiniteSet(C), WordConditions(cs, C)
    PROVE  LET n == Cardinality(C)
               key == [i \in C |-> ConditionKey(cs[i])]
           IN  /\ n \in Nat /\ key \in [C -> Keys(3)]
               /\ \E p : InOrder(p, n, C, key) /\ sortConditions(cs, C) = Taken(cs, p, n)
<1> DEFINE n == Cardinality(C)
           key == [i \in C |-> ConditionKey(cs[i])]
<1>1. key \in [C -> Keys(3)]
  BY Triple DEF WordConditions, ConditionKey
<1>2. sortConditions(cs, C) = sortSlice(cs, C, key)
  BY DEF sortConditions, ConditionKey
<1> HIDE DEF key
<1>3. n \in Nat /\ \E p : InOrder(p, n, C, key) /\ sortSlice(cs, C, key) = Taken(cs, p, n)
  BY <1>1, SliceIsSorted
<1> QED
  BY <1>1, <1>2, <1>3 DEF key

\* What sortConditions returns: the chosen conditions, in order.
LEMMA SortedConditions ==
    ASSUME NEW cs, NEW C, IsFiniteSet(C), WordConditions(cs, C)
    PROVE  LET n == Cardinality(C)
               S == sortConditions(cs, C)
           IN  /\ n \in Nat /\ DOMAIN S = 1 .. n /\ S = [i \in 1 .. n |-> S[i]]
               /\ \A i \in 1 .. n : \E c \in C : S[i] = cs[c]
               /\ \A c \in C : \E i \in 1 .. n : S[i] = cs[c]
               /\ \A i, j \in 1 .. n : i < j => ~Before(ConditionKey(S[j]), ConditionKey(S[i]))
<1> DEFINE n == Cardinality(C)
           S == sortConditions(cs, C)
           key == [i \in C |-> ConditionKey(cs[i])]
<1>1. PICK p : InOrder(p, n, C, key) /\ S = Taken(cs, p, n)
  BY ConditionsSorted
<1>2. n \in Nat
  BY ConditionsSorted
<1> HIDE DEF n, S
<1>3. p \in [1 .. n -> C] /\ \A c \in C : \E i \in 1 .. n : p[i] = c
  BY <1>1, InOrderFacts
<1>4. DOMAIN S = 1 .. n /\ S = [i \in 1 .. n |-> S[i]] /\ \A i \in 1 .. n : S[i] = cs[p[i]]
  BY <1>1 DEF Taken
<1>5. ASSUME NEW i \in 1 .. n, NEW j \in 1 .. n, i < j PROVE ~Before(ConditionKey(S[j]), ConditionKey(S[i]))
  <2>1. ~Before(key[p[j]], key[p[i]])
    <3> HIDE DEF key
    <3> QED
      BY <1>1, <1>5 DEF InOrder
  <2>2. key[p[j]] = ConditionKey(S[j]) /\ key[p[i]] = ConditionKey(S[i])
    BY <1>3, <1>4
  <2> QED
    BY <2>1, <2>2
<1> QED
  BY <1>2, <1>3, <1>4, <1>5 DEF n, S

\* The fingerprint finds the conditions of a snapshot in order: it only strips them.
LEMMA StrippedConditions ==
    ASSUME NEW cs, NEW C, IsFiniteSet(C), WordConditions(cs, C)
    PROVE  LET S == sortConditions(cs, C)
           IN  sortConditions([i \in DOMAIN S |-> Strip(S[i])], DOMAIN S) = [i \in DOMAIN S |-> Strip(S[i])]
<1> DEFINE n == Cardinality(C)
           S == sortConditions(cs, C)
           T == [i \in 1 .. n |-> Strip(S[i])]
           key == [i \in 1 .. n |-> <<T[i].type, T[i].status, T[i].reason>>]
<1>1. /\ n \in Nat /\ DOMAIN S = 1 .. n
      /\ \A i \in 1 .. n : \E c \in C : S[i] = cs[c]
      /\ \A i, j \in 1 .. n : i < j => ~Before(ConditionKey(S[j]), ConditionKey(S[i]))
  BY SortedConditions
<1>0. n \in Nat
  BY <1>1
<1> HIDE DEF n, S
<1>2. \A i \in 1 .. n : T[i].type \in Words /\ T[i].status \in Words /\ T[i].reason \in Words
  BY <1>1 DEF WordConditions, Strip
<1>3. \A i \in 1 .. n : key[i] = ConditionKey(S[i])
  BY DEF Strip, ConditionKey
<1>4. key \in [1 .. n -> Keys(3)]
  <2> HIDE DEF T
  <2> QED
    BY <1>2, Triple
<1>5. KeysDecide(1 .. n, key, T)
  BY DEF KeysDecide, Strip
<1>6. sortConditions(T, 1 .. n) = sortSlice(T, 1 .. n, key)
  BY DEF sortConditions
<1>7. T = [i \in 1 .. n |-> T[i]] /\ T = [i \in DOMAIN S |-> Strip(S[i])]
  BY <1>1
<1>8. KeysAscend(n, key)
  <2> HIDE DEF key
  <2> QED
    BY <1>1, <1>3 DEF KeysAscend
<1>9. sortSlice(T, 1 .. n, key) = [i \in 1 .. n |-> T[i]]
  <2> HIDE DEF key, T
  <2> QED
    BY <1>0, <1>4, <1>5, <1>8, SliceOfSorted
<1> HIDE DEF T, key
<1>10. sortConditions(T, DOMAIN S) = T
  BY <1>1, <1>6, <1>7, <1>9
<1> QED
  BY <1>7, <1>10, Zenon DEF S

\* The chosen elements of two lists are the same.
Corresponds(h, C, D, cs, back) == h \in Bijection(C, D) /\ \A x \in C : back[h[x]] = cs[x]

\* They are sorted into the same order, up to what the order does not look at.
SortedAlike(cs, C, back, D) ==
    LET S == sortConditions(cs, C)
        T == sortConditions(back, D)
    IN  /\ IsFiniteSet(D) /\ Cardinality(C) = Cardinality(D)
        /\ [i \in DOMAIN T |-> Strip(T[i])] = [i \in DOMAIN S |-> Strip(S[i])]
        /\ (\A i, j \in C : cs[i].type = cs[j].type => cs[i] = cs[j]) => T = S

\* Two lists of the same conditions are sorted alike.
LEMMA ConditionSlicesAgree ==
    ASSUME NEW cs, NEW C, IsFiniteSet(C), WordConditions(cs, C), NEW back, NEW D, WordConditions(back, D),
           NEW h, Corresponds(h, C, D, cs, back)
    PROVE  SortedAlike(cs, C, back, D)
<1> DEFINE S == sortConditions(cs, C)
           T == sortConditions(back, D)
           key == [i \in C |-> ConditionKey(cs[i])]
           lock == [i \in D |-> ConditionKey(back[i])]
           n == Cardinality(C)
           k == 3
<1>0. h \in Bijection(C, D) /\ \A x \in C : back[h[x]] = cs[x]
  BY DEF Corresponds
<1>1. IsFiniteSet(D) /\ Cardinality(D) = n
  BY <1>0, FS_Bijection DEF ExistsBijection
<1>2. h \in [C -> D]
  BY <1>0, BijectionFacts
<1>3. \A x \in C : lock[h[x]] = key[x]
  BY <1>0, <1>2
<1>4. k \in Nat /\ n \in Nat /\ key \in [C -> Keys(k)] /\ lock \in [D -> Keys(k)]
  BY <1>1, ConditionsSorted
<1>5. PICK p : InOrder(p, n, C, key) /\ S = Taken(cs, p, n)
  BY ConditionsSorted
<1>6. PICK q : InOrder(q, n, D, lock) /\ T = Taken(back, q, n)
  BY <1>1, ConditionsSorted
<1> HIDE DEF key, lock, n, k, S, T
<1>7. ASSUME NEW seq, NEW tail, SameElements(h, C, D, key, lock, seq, tail), KeysDecide(C, key, seq)
      PROVE  Taken(seq, p, n) = Taken(tail, q, n)
  BY <1>4, <1>5, <1>6, <1>7, OrdersAgree
<1>8. p \in [1 .. n -> C] /\ q \in [1 .. n -> D]
  BY <1>5, <1>6, InOrderFacts
<1>9. DOMAIN S = 1 .. n /\ DOMAIN T = 1 .. n /\ \A i \in 1 .. n : S[i] = cs[p[i]] /\ T[i] = back[q[i]]
  BY <1>5, <1>6 DEF Taken
<1>10. [i \in DOMAIN T |-> Strip(T[i])] = [i \in DOMAIN S |-> Strip(S[i])]
  <2> DEFINE seq == [i \in C |-> Strip(cs[i])]
             tail == [i \in D |-> Strip(back[i])]
  <2>1. SameElements(h, C, D, key, lock, seq, tail)
    BY <1>0, <1>2, <1>3 DEF SameElements
  <2>2. KeysDecide(C, key, seq)
    BY DEF KeysDecide, key, ConditionKey, Strip
  <2>3. Taken(seq, p, n) = Taken(tail, q, n)
    <3> HIDE DEF seq, tail
    <3> QED
      BY <1>7, <2>1, <2>2
  <2>4. /\ Taken(seq, p, n) = [i \in DOMAIN S |-> Strip(S[i])]
        /\ Taken(tail, q, n) = [i \in DOMAIN T |-> Strip(T[i])]
    BY <1>8, <1>9 DEF Taken
  <2> QED
    BY <2>3, <2>4, Zenon
<1>11. ASSUME \A i, j \in C : cs[i].type = cs[j].type => cs[i] = cs[j] PROVE T = S
  <2>1. SameElements(h, C, D, key, lock, cs, back)
    BY <1>0, <1>3 DEF SameElements
  <2>2. KeysDecide(C, key, cs)
    BY <1>11 DEF KeysDecide, key, ConditionKey
  <2> QED
    BY <1>5, <1>6, <1>7, <2>1, <2>2
<1> QED
  BY <1>1, <1>10, <1>11 DEF SortedAlike, S, T, n

-----------------------------------------------------------------------------

\* Container statuses of words, by name.
WordContainers(cc) ==
    /\ \E n \in Nat : DOMAIN cc = 1 .. n
    /\ \A i \in DOMAIN cc : cc[i].name \in Words /\ cc[i].reason \in Words
    /\ \A i, j \in DOMAIN cc : cc[i].name = cc[j].name => cc[i] = cc[j]

\* The containers of normalizePod.
PodContainers(cc) ==
    sortSlice([i \in DOMAIN cc |-> containerState(cc[i])], DOMAIN cc, [i \in DOMAIN cc |-> <<cc[i].name>>])

\* containerState keeps name and restarts, and its state is a word.
LEMMA ContainerStateWords ==
    ASSUME NEW c, c.name \in Words, c.reason \in Words
    PROVE  LET s == containerState(c)
           IN  s.name = c.name /\ s.restarts = c.restarts /\ s.state \in Words /\ s.reason \in Words
<1>1. {"", "waiting", "terminated", "running", "unknown"} \subseteq Words
  BY DictionaryAssumption, Zenon DEF ContainerStates
<1> QED
  BY <1>1, Zenon DEF containerState

\* normalizePod returns the containers in the order of their names.
LEMMA SortedContainers ==
    ASSUME NEW cc, WordContainers(cc)
    PROVE  LET S == PodContainers(cc)
           IN  \E n \in Nat :
                  /\ DOMAIN S = 1 .. n /\ S = [i \in 1 .. n |-> S[i]]
                  /\ \A i \in 1 .. n : \E c \in DOMAIN cc : S[i] = containerState(cc[c])
                  /\ \A c \in DOMAIN cc : \E i \in 1 .. n : S[i] = containerState(cc[c])
                  /\ \A i, j \in 1 .. n : i < j => ~Before(<<S[j].name>>, <<S[i].name>>)
<1> DEFINE C == DOMAIN cc
           n == Cardinality(C)
           S == PodContainers(cc)
           seq == [i \in C |-> containerState(cc[i])]
           key == [i \in C |-> <<cc[i].name>>]
<1>1. IsFiniteSet(C)
  BY FS_Interval DEF WordContainers
<1>2. key \in [C -> Keys(1)]
  BY Single DEF WordContainers
<1>3. S = sortSlice(seq, C, key)
  BY DEF PodContainers
<1>4. n \in Nat /\ \E p : InOrder(p, n, C, key) /\ S = Taken(seq, p, n)
  <2> HIDE DEF C, seq, key
  <2> QED
    BY <1>1, <1>2, <1>3, SliceIsSorted
<1>5. PICK p : InOrder(p, n, C, key) /\ S = Taken(seq, p, n)
  BY <1>4, Zenon
<1> HIDE DEF n, S, C
<1>6. p \in [1 .. n -> C] /\ \A c \in C : \E i \in 1 .. n : p[i] = c
  BY <1>5, InOrderFacts
<1>7. DOMAIN S = 1 .. n /\ S = [i \in 1 .. n |-> S[i]] /\ \A i \in 1 .. n : S[i] = containerState(cc[p[i]])
  BY <1>5, <1>6 DEF Taken
<1>8. ASSUME NEW i \in 1 .. n, NEW j \in 1 .. n, i < j PROVE ~Before(<<S[j].name>>, <<S[i].name>>)
  <2>1. ~Before(key[p[j]], key[p[i]])
    <3> HIDE DEF key
    <3> QED
      BY <1>5, <1>8 DEF InOrder
  <2>2. ASSUME NEW x \in C PROVE containerState(cc[x]).name = cc[x].name
    BY ContainerStateWords DEF WordContainers, C
  <2>3. key[p[j]] = <<S[j].name>> /\ key[p[i]] = <<S[i].name>>
    BY <1>6, <1>7, <2>2
  <2> QED
    BY <2>1, <2>3
<1>9. \E m \in Nat :
          /\ DOMAIN S = 1 .. m /\ S = [i \in 1 .. m |-> S[i]]
          /\ \A i \in 1 .. m : \E c \in C : S[i] = containerState(cc[c])
          /\ \A c \in C : \E i \in 1 .. m : S[i] = containerState(cc[c])
          /\ \A i, j \in 1 .. m : i < j => ~Before(<<S[j].name>>, <<S[i].name>>)
  <2>1. n \in Nat
    BY <1>4
  <2> WITNESS n \in Nat
  <2> QED
    BY <1>6, <1>7, <1>8
<1> QED
  BY <1>9 DEF C, S

\* The fingerprint finds the containers of a snapshot in order.
LEMMA HashedContainers ==
    ASSUME NEW cc, WordContainers(cc)
    PROVE  LET S == PodContainers(cc)
           IN  sortSlice(S, DOMAIN S, [i \in DOMAIN S |-> <<S[i].name, S[i].state, S[i].reason>>]) = S
<1> DEFINE S == PodContainers(cc)
<1>1. PICK n \in Nat :
          /\ DOMAIN S = 1 .. n /\ S = [i \in 1 .. n |-> S[i]]
          /\ \A i \in 1 .. n : \E c \in DOMAIN cc : S[i] = containerState(cc[c])
          /\ \A i, j \in 1 .. n : i < j => ~Before(<<S[j].name>>, <<S[i].name>>)
  BY SortedContainers
<1> HIDE DEF S
<1> DEFINE key == [i \in 1 .. n |-> <<S[i].name, S[i].state, S[i].reason>>]
<1>2. ASSUME NEW i \in 1 .. n PROVE S[i].name \in Words /\ S[i].state \in Words /\ S[i].reason \in Words
  BY <1>1, ContainerStateWords DEF WordContainers
<1>3. ASSUME NEW i \in 1 .. n, NEW j \in 1 .. n, S[i].name = S[j].name PROVE S[i] = S[j]
  <2>1. PICK c \in DOMAIN cc, d \in DOMAIN cc : S[i] = containerState(cc[c]) /\ S[j] = containerState(cc[d])
    BY <1>1
  <2>2. cc[c].name = cc[d].name
    BY <1>3, <2>1, ContainerStateWords DEF WordContainers
  <2> QED
    BY <2>1, <2>2 DEF WordContainers
<1>4. key \in [1 .. n -> Keys(3)]
  BY <1>2, Triple
<1>5. KeysDecide(1 .. n, key, S)
  BY <1>3 DEF KeysDecide
<1>6. ASSUME NEW i \in 1 .. n, NEW j \in 1 .. n, i < j PROVE ~Before(key[j], key[i])
  <2>1. CASE S[i].name = S[j].name
    <3>1. key[i] = key[j] /\ key[i] \in Keys(3)
      BY <1>3, <1>4, <2>1
    <3> QED
      BY <3>1, BeforeIrreflexive
  <2>2. CASE S[i].name # S[j].name
    <3>1. ~(Rank(S[j].name) < Rank(S[i].name))
      BY <1>1, <1>6, SingleBefore, Zenon
    <3>2. DOMAIN key[j] = 1 .. 3 /\ key[j][1] = S[j].name /\ key[i][1] = S[i].name
      OBVIOUS
    <3> HIDE DEF key
    <3>3. SUFFICES ASSUME NEW m \in 1 .. 3, Rank(key[j][m]) < Rank(key[i][m]), \A l \in 1 .. m - 1 : key[j][l] = key[i][l]
                   PROVE  FALSE
      BY <3>2 DEF Before
    <3>4. CASE m = 1
      BY <3>1, <3>2, <3>3, <3>4
    <3>5. CASE m > 1
      BY <2>2, <3>2, <3>3, <3>5
    <3> QED
      BY <3>4, <3>5
  <2> QED
    BY <2>1, <2>2
<1>7. sortSlice(S, 1 .. n, key) = [i \in 1 .. n |-> S[i]]
  <2> HIDE DEF key
  <2>1. KeysAscend(n, key)
    BY <1>6 DEF KeysAscend
  <2>2. 3 \in Nat
    OBVIOUS
  <2> QED
    BY <1>4, <1>5, <2>1, <2>2, SliceOfSorted
<1> QED
  BY <1>1, <1>7 DEF S

=============================================================================
