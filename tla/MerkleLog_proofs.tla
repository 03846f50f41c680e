--------------------------- MODULE MerkleLog_proofs ---------------------------
(* Proofs about Merkle trees and the log that is kept in them, for trees of any    *)
(* size: that roots commit to their leaves, that proofs from the store are the     *)
(* proofs from the leaves, that each of them verifies, and that what verifies is    *)
(* one of them.  A consistency proof is followed through the levels of both trees   *)
(* at once: from the roots down for what it shows, along the path up for why the   *)
(* one that was made is accepted.                                                  *)
EXTENDS MerkleLog, SequenceTheorems, WellFoundedInduction, TLAPS

-------------------------------------------------------------------------------
(* Recursion.  Every recursive function of MerkleTree is defined for each natural  *)
(* number from its values for smaller ones.                                       *)

\* Every non-empty set of natural numbers has a least element.
LEMMA LeastNat ==
  ASSUME NEW T, T \subseteq Nat, T # {}
  PROVE  \E m \in T : \A k \in T : m <= k
<1> DEFINE R == {ss \in Nat \X Nat : ss[1] < ss[2]}
<1>1. IsWellFoundedOn(R, Nat)
  BY NatLessThanWellFounded DEF OpToRel
<1>2. PICK m \in T : \A k \in T : <<k, m>> \notin R
  <2> HIDE DEF R
  <2> QED BY <1>1, WFMin
<1>3. ASSUME NEW k \in T
      PROVE  m <= k
  <2>1. <<k, m>> \notin R  BY <1>2
  <2>2. k \in Nat /\ m \in Nat  BY <1>2
  <2>3. ~ (k < m)  BY <2>1, <2>2
  <2> QED BY <2>2, <2>3
<1> QED BY <1>2, <1>3

\* The values of f below n, and what it is to be defined below N by Step.
Below(f, n) == [m \in 0..n - 1 |-> f[m]]
Defined(Step, V, N, f) ==
  /\ f \in [0..N - 1 -> V]
  /\ \A n \in 0..N - 1 : f[n] = Step[n][Below(f, n)]

Steps(Step, V) == \A n \in Nat : \A g \in [0..n - 1 -> V] : Step[n][g] \in V
Solves(f, Step, V) ==
  f \in [Nat -> V] /\ \A n \in Nat : f[n] = Step[n][Below(f, n)]

LEMMA DefinedOnce ==
  ASSUME NEW Step, NEW V, NEW N \in Nat, NEW M \in Nat, N <= M, NEW f, NEW g,
         Defined(Step, V, N, f), Defined(Step, V, M, g)
  PROVE  \A n \in 0..N - 1 : f[n] = g[n]
<1> DEFINE Differ == {n \in 0..N - 1 : f[n] # g[n]}
<1> SUFFICES ASSUME Differ # {} PROVE FALSE
  OBVIOUS
<1>1. PICK n \in Differ : \A k \in Differ : n <= k
  <2>1. Differ \subseteq Nat
    OBVIOUS
  <2> HIDE DEF Differ
  <2> QED BY <2>1, LeastNat
<1>2. n \in 0..N - 1 /\ n \in 0..M - 1 /\ f[n] # g[n]
  BY <1>1
<1>3. \A m \in 0..n - 1 : f[m] = g[m]
  BY <1>1, <1>2
<1>4. Below(f, n) = Below(g, n)
  BY <1>3 DEF Below
<1>5. f[n] = Step[n][Below(f, n)] /\ g[n] = Step[n][Below(g, n)]
  BY <1>2 DEF Defined
<1> QED BY <1>2, <1>4, <1>5

LEMMA DefinedBelow ==
  ASSUME NEW Step, NEW V, Steps(Step, V),
         NEW N \in Nat
  PROVE  \E f : Defined(Step, V, N, f)
<1> DEFINE Bad == {n \in Nat : ~ \E f : Defined(Step, V, n, f)}
<1> SUFFICES ASSUME Bad # {} PROVE FALSE
  OBVIOUS
<1>1. PICK n \in Bad : \A k \in Bad : n <= k
  <2>1. Bad \subseteq Nat
    OBVIOUS
  <2> HIDE DEF Bad
  <2> QED BY <2>1, LeastNat
<1>2. n \in Nat /\ ~ \E f : Defined(Step, V, n, f)
  BY <1>1
<1>3. n # 0
  <2>1. Defined(Step, V, 0, [m \in 0..0 - 1 |-> {}])
    BY DEF Defined
  <2> QED BY <1>2, <2>1
<1> DEFINE k == n - 1
<1>4. k \in Nat /\ k \notin Bad /\ n = k + 1
  <2>1. k \in Nat /\ k < n /\ n = k + 1
    BY <1>2, <1>3
  <2> HIDE DEF k, Bad
  <2> QED BY <1>1, <1>2, <2>1
<1>5. PICK f : Defined(Step, V, k, f)
  BY <1>4
<1> DEFINE g == [m \in 0..k |-> IF m < k THEN f[m] ELSE Step[k][f]]
<1> HIDE DEF k
<1>6. f \in [0..k - 1 -> V]
  BY <1>5 DEF Defined
<1>7. \A m \in 0..k - 1 : g[m] = f[m]
  BY <1>4
<1>8. g[k] = Step[k][f]
  BY <1>4
<1>9. Step[k][f] \in V
  BY <1>4, <1>6 DEF Steps
<1>10. g \in [0..k -> V]
  BY <1>4, <1>6, <1>9
<1>11. Below(g, k) = f
  BY <1>6, <1>7 DEF Below
<1>12. ASSUME NEW m \in 0..k
       PROVE  g[m] = Step[m][Below(g, m)]
  <2>1. CASE m = k
    BY <2>1, <1>8, <1>11
  <2>2. CASE m # k
    <3>1. m \in 0..k - 1 /\ m \in Nat
      BY <1>4, <2>2
    <3>2. f[m] = Step[m][Below(f, m)]
      BY <1>5, <3>1 DEF Defined
    <3>3. \A j \in 0..m - 1 : j \in 0..k - 1
      BY <3>1, <1>4
    <3>4. Below(f, m) = Below(g, m)
      <4> HIDE DEF g
      <4> QED BY <1>7, <3>3 DEF Below
    <3> QED BY <1>7, <3>1, <3>2, <3>4
  <2> QED BY <2>1, <2>2
<1>13. Defined(Step, V, n, g)
  <2>1. n - 1 = k
    BY <1>4
  <2> HIDE DEF g
  <2> QED BY <1>10, <1>12, <2>1 DEF Defined
<1> QED BY <1>2, <1>13

\* There is a function on the naturals that each Step defines from its values below.
LEMMA Recursion ==
  ASSUME NEW V, NEW Step, Steps(Step, V)
  PROVE  \E f : Solves(f, Step, V)
<1> DEFINE Part(n) == CHOOSE g : Defined(Step, V, n + 1, g)
           f == [n \in Nat |-> Part(n)[n]]
<1>1. ASSUME NEW n \in Nat
      PROVE  Defined(Step, V, n + 1, Part(n))
  <2>1. n + 1 \in Nat
    OBVIOUS
  <2>2. \E g : Defined(Step, V, n + 1, g)
    BY <2>1, DefinedBelow
  <2> QED BY <2>2
<1> HIDE DEF Part
<1>2. ASSUME NEW n \in Nat, NEW m \in 0..n
      PROVE  f[m] = Part(n)[m]
  <2>1. m \in Nat /\ m + 1 \in Nat /\ n + 1 \in Nat /\ m + 1 <= n + 1 /\ m \in 0..(m + 1) - 1
    OBVIOUS
  <2>2. Part(m)[m] = Part(n)[m]
    BY <1>1, <2>1, DefinedOnce
  <2> QED BY <2>1, <2>2
<1>3. ASSUME NEW n \in Nat
      PROVE  f[n] \in V /\ f[n] = Step[n][Below(f, n)]
  <2>1. n \in 0..n /\ n \in 0..(n + 1) - 1 /\ \A m \in 0..n - 1 : m \in 0..n
    OBVIOUS
  <2>2. Part(n)[n] \in V /\ Part(n)[n] = Step[n][Below(Part(n), n)]
    BY <1>1, <2>1 DEF Defined
  <2>3. Below(f, n) = Below(Part(n), n)
    <3> HIDE DEF f
    <3> QED BY <1>2, <2>1 DEF Below
  <2> QED BY <1>2, <2>1, <2>2, <2>3
<1>4. f \in [Nat -> V]
  BY <1>3
<1> HIDE DEF f
<1> QED BY <1>3, <1>4 DEF Solves

\* The terms over the members of S that are no deeper than n.
Deeper(T) == T \cup {Node(x[1], x[2]) : x \in T \X T}
Levels(S, N, f) ==
  /\ DOMAIN f = 0..N
  /\ f[0] = S
  /\ \A n \in 1..N : f[n] = Deeper(f[n - 1])

LEMMA LevelsOnce ==
  ASSUME NEW S, NEW N \in Nat, NEW M \in Nat, N <= M, NEW f, NEW g,
         Levels(S, N, f), Levels(S, M, g)
  PROVE  \A n \in 0..N : f[n] = g[n]
<1> DEFINE Differ == {n \in 0..N : f[n] # g[n]}
<1> SUFFICES ASSUME Differ # {} PROVE FALSE
  OBVIOUS
<1>1. PICK n \in Differ : \A k \in Differ : n <= k
  <2>1. Differ \subseteq Nat
    OBVIOUS
  <2> HIDE DEF Differ
  <2> QED BY <2>1, LeastNat
<1>2. n \in 0..N /\ f[n] # g[n]
  BY <1>1
<1>3. n # 0
  BY <1>2 DEF Levels
<1>4. n \in 1..N /\ n \in 1..M /\ n - 1 \in 0..N
  BY <1>2, <1>3
<1>5. n - 1 \notin Differ
  BY <1>1, <1>4
<1>6. f[n - 1] = g[n - 1]
  BY <1>4, <1>5
<1>7. f[n] = Deeper(f[n - 1]) /\ g[n] = Deeper(g[n - 1])
  BY <1>4 DEF Levels
<1> QED BY <1>2, <1>6, <1>7

LEMMA LevelsExist ==
  ASSUME NEW S, NEW N \in Nat
  PROVE  \E f : Levels(S, N, f)
<1> DEFINE Bad == {n \in Nat : ~ \E f : Levels(S, n, f)}
<1> SUFFICES ASSUME Bad # {} PROVE FALSE
  OBVIOUS
<1>1. PICK n \in Bad : \A k \in Bad : n <= k
  <2>1. Bad \subseteq Nat
    OBVIOUS
  <2> HIDE DEF Bad
  <2> QED BY <2>1, LeastNat
<1>2. n \in Nat /\ ~ \E f : Levels(S, n, f)
  BY <1>1
<1>3. n # 0
  <2>1. Levels(S, 0, [m \in 0..0 |-> S])
    BY DEF Levels
  <2> QED BY <1>2, <2>1
<1> DEFINE k == n - 1
<1>4. k \in Nat /\ k \notin Bad /\ n = k + 1
  <2>1. k \in Nat /\ k < n /\ n = k + 1
    BY <1>2, <1>3
  <2> HIDE DEF k, Bad
  <2> QED BY <1>1, <1>2, <2>1
<1>5. PICK f : Levels(S, k, f)
  BY <1>4
<1> DEFINE g == [m \in 0..n |-> IF m <= k THEN f[m] ELSE Deeper(f[k])]
<1> HIDE DEF k
<1>6. \A m \in 0..k : g[m] = f[m]
  BY <1>4
<1>7. g[n] = Deeper(f[k])
  BY <1>4
<1>8. DOMAIN g = 0..n
  OBVIOUS
<1> HIDE DEF g
<1>9. Levels(S, n, g)
  <2>1. g[0] = S
    BY <1>4, <1>5, <1>6 DEF Levels
  <2>2. ASSUME NEW m \in 1..n
        PROVE  g[m] = Deeper(g[m - 1])
    <3>1. CASE m = n
      BY <1>2, <1>4, <1>6, <1>7, <3>1
    <3>2. CASE m # n
      <4>1. m \in 1..k /\ m \in 0..k /\ m - 1 \in 0..k
        BY <1>2, <1>4, <3>2
      <4>2. f[m] = Deeper(f[m - 1])
        BY <1>5, <4>1 DEF Levels
      <4> QED BY <1>6, <4>1, <4>2
    <3> QED BY <3>1, <3>2
  <2> QED BY <1>8, <2>1, <2>2 DEF Levels
<1> QED BY <1>2, <1>9

\* Any set is in one that is closed under Node: a type for the roots over its members.
Closed(H) == \A x, y \in H : Node(x, y) \in H

LEMMA Closure ==
  ASSUME NEW S
  PROVE  \E H : S \subseteq H /\ Closed(H)
<1> DEFINE Level(n) == (CHOOSE f : Levels(S, n, f))[n]
           H == UNION {Level(n) : n \in Nat}
<1>1. Level(0) = S
  <2> DEFINE f == CHOOSE f : Levels(S, 0, f)
  <2>1. Levels(S, 0, f)
    BY LevelsExist
  <2> QED BY <2>1 DEF Levels
<1>2. ASSUME NEW n \in Nat
      PROVE  Level(n + 1) = Deeper(Level(n))
  <2> DEFINE f == CHOOSE f : Levels(S, n, f)
             g == CHOOSE g : Levels(S, n + 1, g)
  <2>1. n + 1 \in Nat /\ n \in 0..n /\ n <= n + 1 /\ n + 1 \in 1..n + 1 /\ (n + 1) - 1 = n
    OBVIOUS
  <2>2. Levels(S, n, f) /\ Levels(S, n + 1, g)
    BY <2>1, LevelsExist
  <2>3. Level(n) = f[n] /\ Level(n + 1) = g[n + 1]
    OBVIOUS
  <2> HIDE DEF f, g, Level
  <2>4. f[n] = g[n]
    BY <2>1, <2>2, LevelsOnce
  <2>5. g[n + 1] = Deeper(g[n])
    BY <2>1, <2>2 DEF Levels
  <2> QED BY <2>3, <2>4, <2>5
<1> HIDE DEF Level
<1>3. ASSUME NEW n \in Nat, NEW m \in Nat, m <= n
      PROVE  Level(m) \subseteq Level(n)
  <2> DEFINE Bad == {k \in Nat : m <= k /\ ~ (Level(m) \subseteq Level(k))}
  <2> SUFFICES ASSUME Bad # {} PROVE FALSE
    BY <1>3
  <2>1. PICK k \in Bad : \A j \in Bad : k <= j
    <3>1. Bad \subseteq Nat
      OBVIOUS
    <3> HIDE DEF Bad
    <3> QED BY <3>1, LeastNat
  <2>2. k \in Nat /\ m <= k /\ k # m
    BY <2>1
  <2>3. k - 1 \in Nat /\ m <= k - 1 /\ k = (k - 1) + 1
    BY <2>2
  <2>4. k - 1 \notin Bad
    BY <2>1, <2>2, <2>3
  <2>5. Level(m) \subseteq Level(k - 1)
    BY <2>3, <2>4
  <2>6. Level(k) = Deeper(Level(k - 1))
    BY <1>2, <2>3
  <2>7. Level(m) \subseteq Level(k)
    BY <2>5, <2>6 DEF Deeper
  <2> QED BY <2>1, <2>7
<1>4. ASSUME NEW x \in H, NEW y \in H
      PROVE  Node(x, y) \in H
  <2>1. PICK n \in Nat : x \in Level(n)
    OBVIOUS
  <2>2. PICK m \in Nat : y \in Level(m)
    OBVIOUS
  <2>3. PICK k \in Nat : n <= k /\ m <= k
    BY <2>1, <2>2
  <2>4. x \in Level(k) /\ y \in Level(k)
    BY <1>3, <2>1, <2>2, <2>3
  <2>5. Node(x, y) \in Deeper(Level(k))
    <3>1. <<x, y>> \in Level(k) \X Level(k)
      BY <2>4
    <3>2. <<x, y>>[1] = x /\ <<x, y>>[2] = y
      OBVIOUS
    <3> QED BY <3>1, <3>2 DEF Deeper
  <2>6. k + 1 \in Nat /\ Level(k + 1) = Deeper(Level(k))
    BY <1>2
  <2> QED BY <2>5, <2>6
<1>5. S \subseteq H
  BY <1>1
<1> HIDE DEF H
<1> QED BY <1>4, <1>5 DEF Closed

-------------------------------------------------------------------------------
(* Powers of two, and the split of a range.                                       *)

LEMMA Pow2Form ==
  /\ Pow2[0] = 1
  /\ \A i \in Nat : Pow2[i] \in Nat /\ Pow2[i] >= 1 /\ Pow2[i + 1] = 2 * Pow2[i]
<1> DEFINE value(n, g) == IF n = 0 THEN 1 ELSE 2 * g[n - 1]
           step == [n \in Nat |-> [g \in [0..n - 1 -> Nat \ {0}] |-> value(n, g)]]
<1>1. ASSUME NEW n \in Nat, NEW g \in [0..n - 1 -> Nat \ {0}]
      PROVE  step[n][g] = value(n, g) /\ value(n, g) \in Nat \ {0}
  <2>1. step[n][g] = value(n, g)
    OBVIOUS
  <2>2. n # 0 => g[n - 1] \in Nat \ {0}
    OBVIOUS
  <2>3. value(n, g) \in Nat \ {0}
    BY <2>2
  <2> QED BY <2>1, <2>3
<1> HIDE DEF step
<1>2. PICK f : Solves(f, step, Nat \ {0})
  <2>1. Steps(step, Nat \ {0})
    BY <1>1 DEF Steps
  <2> QED BY <2>1, Recursion
<1>3. ASSUME NEW n \in Nat
      PROVE  f[n] = IF n = 0 THEN 1 ELSE 2 * f[n - 1]
  <2>1. Below(f, n) \in [0..n - 1 -> Nat \ {0}]
    BY <1>2 DEF Below, Solves
  <2>2. f[n] = value(n, Below(f, n))
    BY <1>1, <1>2, <2>1 DEF Solves
  <2>3. n # 0 => Below(f, n)[n - 1] = f[n - 1]
    BY DEF Below
  <2> QED BY <2>2, <2>3
<1>4. f = [i \in Nat |-> IF i = 0 THEN 1 ELSE 2 * f[i - 1]]
  BY <1>2, <1>3 DEF Solves
<1>5. Pow2 = [i \in Nat |-> IF i = 0 THEN 1 ELSE 2 * Pow2[i - 1]]
  BY <1>4 DEF Pow2
<1>6. \A i \in Nat : Pow2[i] = IF i = 0 THEN 1 ELSE 2 * Pow2[i - 1]
  BY <1>5
<1> DEFINE Bad == {i \in Nat : ~ (Pow2[i] \in Nat /\ Pow2[i] >= 1)}
<1>7. Bad = {}
  <2> SUFFICES ASSUME Bad # {} PROVE FALSE
    OBVIOUS
  <2>1. PICK i \in Bad : \A j \in Bad : i <= j
    <3>1. Bad \subseteq Nat
      OBVIOUS
    <3> HIDE DEF Bad
    <3> QED BY <3>1, LeastNat
  <2>2. i # 0
    BY <1>6, <2>1
  <2>3. i - 1 \in Nat /\ i - 1 \notin Bad
    BY <2>1, <2>2
  <2>4. Pow2[i] = 2 * Pow2[i - 1] /\ Pow2[i - 1] \in Nat /\ Pow2[i - 1] >= 1
    BY <1>6, <2>1, <2>2, <2>3
  <2> QED BY <2>1, <2>4
<1>8. ASSUME NEW i \in Nat
      PROVE  Pow2[i + 1] = 2 * Pow2[i]
  <2>1. i + 1 \in Nat /\ i + 1 # 0 /\ (i + 1) - 1 = i
    OBVIOUS
  <2> QED BY <1>6, <2>1
<1> QED BY <1>6, <1>7, <1>8

\* A larger power of two is a multiple of a smaller one.
LEMMA Pow2Multiple ==
  ASSUME NEW i \in Nat, NEW j \in Nat, i <= j
  PROVE  /\ \E c \in Nat : c >= 1 /\ Pow2[j] = c * Pow2[i]
         /\ i < j => \E c \in Nat : c >= 1 /\ Pow2[j] = c * (2 * Pow2[i])
<1> DEFINE Bad == {k \in Nat : i <= k /\ ~ \E c \in Nat : c >= 1 /\ Pow2[k] = c * Pow2[i]}
<1>1. Bad = {}
  <2> SUFFICES ASSUME Bad # {} PROVE FALSE
    OBVIOUS
  <2>1. PICK k \in Bad : \A m \in Bad : k <= m
    <3>1. Bad \subseteq Nat
      OBVIOUS
    <3> HIDE DEF Bad
    <3> QED BY <3>1, LeastNat
  <2>2. k # i
    <3>1. Pow2[i] = 1 * Pow2[i]
      BY Pow2Form
    <3> QED BY <2>1, <3>1
  <2>3. k - 1 \in Nat /\ i <= k - 1 /\ k - 1 \notin Bad /\ k = (k - 1) + 1
    BY <2>1, <2>2
  <2>4. PICK c \in Nat : c >= 1 /\ Pow2[k - 1] = c * Pow2[i]
    BY <2>3
  <2>5. Pow2[k] = 2 * Pow2[k - 1] /\ Pow2[i] \in Nat
    BY <2>3, Pow2Form
  <2>6. Pow2[k] = (2 * c) * Pow2[i]
    BY <2>4, <2>5
  <2>7. 2 * c \in Nat /\ 2 * c >= 1
    BY <2>4
  <2> QED BY <2>1, <2>6, <2>7
<1>2. \A k \in Nat : i <= k => \E c \in Nat : c >= 1 /\ Pow2[k] = c * Pow2[i]
  BY <1>1
<1>3. ASSUME i < j
      PROVE  \E c \in Nat : c >= 1 /\ Pow2[j] = c * (2 * Pow2[i])
  <2>1. j - 1 \in Nat /\ i <= j - 1 /\ j = (j - 1) + 1
    BY <1>3
  <2>2. PICK c \in Nat : c >= 1 /\ Pow2[j - 1] = c * Pow2[i]
    BY <1>2, <2>1
  <2>3. Pow2[j] = 2 * Pow2[j - 1] /\ Pow2[i] \in Nat
    BY <2>1, Pow2Form
  <2>4. Pow2[j] = c * (2 * Pow2[i])
    BY <2>2, <2>3
  <2> QED BY <2>2, <2>4
<1> QED BY <1>2, <1>3

LEMMA Pow2Monotone ==
  ASSUME NEW i \in Nat, NEW j \in Nat
  PROVE  /\ i <= j => Pow2[i] <= Pow2[j]
         /\ i < j => 2 * Pow2[i] <= Pow2[j]
<1>1. ASSUME NEW a \in Nat, NEW b \in Nat, NEW c \in Nat, c >= 1, b = c * a
      PROVE  a <= b
  <2>1. (c - 1) * a >= 0
    BY <1>1
  <2>2. c * a = (c - 1) * a + a
    BY <1>1
  <2> QED BY <1>1, <2>1, <2>2
<1>2. Pow2[i] \in Nat /\ Pow2[j] \in Nat /\ 2 * Pow2[i] \in Nat
  BY Pow2Form
<1>3. ASSUME i <= j PROVE Pow2[i] <= Pow2[j]
  <2>1. PICK c \in Nat : c >= 1 /\ Pow2[j] = c * Pow2[i]
    BY <1>3, Pow2Multiple
  <2> QED BY <1>1, <1>2, <2>1
<1>4. ASSUME i < j PROVE 2 * Pow2[i] <= Pow2[j]
  <2>1. PICK c \in Nat : c >= 1 /\ Pow2[j] = c * (2 * Pow2[i])
    BY <1>4, Pow2Multiple
  <2> QED BY <1>1, <1>2, <2>1
<1> QED BY <1>3, <1>4

LEMMA Pow2Grows == ASSUME NEW i \in Nat PROVE i < Pow2[i]
<1> DEFINE Bad == {k \in Nat : ~ k < Pow2[k]}
<1> SUFFICES ASSUME Bad # {} PROVE FALSE
  OBVIOUS
<1>1. PICK k \in Bad : \A m \in Bad : k <= m
  <2>1. Bad \subseteq Nat
    OBVIOUS
  <2> HIDE DEF Bad
  <2> QED BY <2>1, LeastNat
<1>2. k # 0
  BY <1>1, Pow2Form
<1>3. k - 1 \in Nat /\ k - 1 \notin Bad /\ k = (k - 1) + 1
  BY <1>1, <1>2
<1>4. k - 1 < Pow2[k - 1] /\ Pow2[k] = 2 * Pow2[k - 1] /\ Pow2[k - 1] \in Nat
  BY <1>3, Pow2Form
<1> QED BY <1>1, <1>3, <1>4

\* Every size above one is between a power of two and its double.
LEMMA Between ==
  ASSUME NEW n \in Nat, n > 1
  PROVE  \E i \in 0..n : Pow2[i] < n /\ n <= Pow2[i + 1]
<1> DEFINE T == {i \in Nat : n <= Pow2[i]}
<1>1. PICK i \in T : \A k \in T : i <= k
  <2>1. Pow2[n] \in Nat /\ n < Pow2[n]
    BY Pow2Form, Pow2Grows
  <2>2. T \subseteq Nat /\ T # {}
    BY <2>1
  <2> HIDE DEF T
  <2> QED BY <2>2, LeastNat
<1>2. i # 0
  BY <1>1, Pow2Form
<1>3. i - 1 \in Nat /\ i - 1 \notin T /\ i = (i - 1) + 1
  BY <1>1, <1>2
<1>4. Pow2[i - 1] < n /\ i - 1 < Pow2[i - 1] /\ Pow2[i - 1] \in Nat
  BY <1>3, Pow2Form, Pow2Grows
<1>5. i - 1 \in 0..n
  BY <1>3, <1>4
<1> QED BY <1>1, <1>3, <1>4, <1>5

\* largestPowerOfTwoLessThan.
LEMMA SplitIs ==
  ASSUME NEW n \in Nat, NEW i \in Nat, Pow2[i] < n, n <= Pow2[i + 1]
  PROVE  LargestPowerOfTwoLessThan(n) = Pow2[i]
<1> DEFINE Fits(p) == p < n /\ n <= 2 * p
           P == {Pow2[k] : k \in 0..n}
<1>1. Pow2[i] \in P
  <2>1. i < Pow2[i] /\ Pow2[i] \in Nat
    BY Pow2Form, Pow2Grows
  <2> QED BY <2>1
<1>2. Fits(Pow2[i])
  BY Pow2Form
<1>3. ASSUME NEW p \in P, Fits(p)
      PROVE  p = Pow2[i]
  <2>1. PICK k \in 0..n : p = Pow2[k]
    OBVIOUS
  <2>2. k \in Nat /\ Pow2[k] \in Nat /\ Pow2[i] \in Nat
    BY Pow2Form
  <2>3. ~ k < i /\ ~ i < k
    BY <1>2, <1>3, <2>1, <2>2, Pow2Monotone
  <2> QED BY <2>1, <2>2, <2>3
<1>4. LargestPowerOfTwoLessThan(n) = CHOOSE p \in P : Fits(p)
  BY DEF LargestPowerOfTwoLessThan
<1> HIDE DEF P, Fits
<1> QED BY <1>1, <1>2, <1>3, <1>4

LEMMA SplitForm ==
  ASSUME NEW n \in Nat, n > 1
  PROVE  LET split == LargestPowerOfTwoLessThan(n) IN
         /\ split \in 1..n - 1 /\ n - split \in 1..n - 1 /\ n - split <= split
         /\ \E i \in Nat : split = Pow2[i] /\ n <= Pow2[i + 1]
<1>1. PICK i \in 0..n : Pow2[i] < n /\ n <= Pow2[i + 1]
  BY Between
<1>2. i \in Nat
  OBVIOUS
<1>3. LargestPowerOfTwoLessThan(n) = Pow2[i]
  BY <1>1, <1>2, SplitIs
<1>4. Pow2[i] \in Nat /\ Pow2[i] >= 1 /\ Pow2[i + 1] = 2 * Pow2[i]
  BY <1>2, Pow2Form
<1> QED BY <1>1, <1>2, <1>3, <1>4

-------------------------------------------------------------------------------
(* Roots.                                                                         *)

Split(n) == LargestPowerOfTwoLessThan(n)

RootEquation(root, hashes) ==
  root = [size \in Nat |-> [start \in Nat |->
           IF size = 0 THEN EmptyRoot
           ELSE IF size = 1 THEN hashes[start + 1]
           ELSE Node(root[Split(size)][start],
                     root[size - Split(size)][start + Split(size)])]]

LEMMA RootSolved == ASSUME NEW hashes PROVE RootEquation(RangeRoot(hashes), hashes)
<1>1. PICK H : {EmptyRoot} \cup {hashes[i] : i \in Nat} \subseteq H /\ Closed(H)
  BY Closure
<1> DEFINE V == [Nat -> H]
           value(n, g, start) == 
             IF n = 0 THEN EmptyRoot
             ELSE IF n = 1 THEN hashes[start + 1]
             ELSE Node(g[Split(n)][start], g[n - Split(n)][start + Split(n)])
           step == [n \in Nat |-> [g \in [0..n - 1 -> V] |-> [start \in Nat |-> value(n, g, start)]]]
<1>2. ASSUME NEW n \in Nat, NEW g \in [0..n - 1 -> V]
      PROVE  /\ step[n][g] = [start \in Nat |-> value(n, g, start)]
             /\ step[n][g] \in V
  <2>1. step[n][g] = [start \in Nat |-> value(n, g, start)]
    OBVIOUS
  <2>2. ASSUME NEW start \in Nat
        PROVE  value(n, g, start) \in H
    <3>1. CASE n > 1
      <4>1. /\ Split(n) \in 0..n - 1 /\ n - Split(n) \in 0..n - 1
            /\ start + Split(n) \in Nat
        BY <3>1, SplitForm DEF Split
      <4>2. g[Split(n)] \in [Nat -> H] /\ g[n - Split(n)] \in [Nat -> H]
        BY <4>1
      <4>3. g[Split(n)][start] \in H /\ g[n - Split(n)][start + Split(n)] \in H
        BY <4>1, <4>2
      <4> QED BY <1>1, <3>1, <4>3 DEF Closed
    <3>2. CASE n = 1
      <4>1. start + 1 \in Nat
        OBVIOUS
      <4>2. hashes[start + 1] \in H
        BY <1>1, <4>1
      <4> QED BY <3>2, <4>2
    <3>3. CASE n = 0
      BY <1>1, <3>3
    <3> QED BY <3>1, <3>2, <3>3
  <2> HIDE DEF value, step
  <2> QED BY <2>1, <2>2
<1> HIDE DEF step, V
<1>3. PICK f : Solves(f, step, V)
  <2>1. Steps(step, V)
    BY <1>2 DEF Steps
  <2> QED BY <2>1, Recursion
<1>4. ASSUME NEW n \in Nat
      PROVE  f[n] = [start \in Nat |-> value(n, f, start)]
  <2>1. Below(f, n) \in [0..n - 1 -> V]
    BY <1>3 DEF Below, Solves
  <2>2. f[n] = [start \in Nat |-> value(n, Below(f, n), start)]
    <3> HIDE DEF value
    <3> QED BY <1>2, <1>3, <2>1 DEF Solves
  <2>3. ASSUME NEW start \in Nat
        PROVE  value(n, Below(f, n), start) = value(n, f, start)
    <3>1. CASE n > 1
      <4>1. Split(n) \in 0..n - 1 /\ n - Split(n) \in 0..n - 1
        BY <3>1, SplitForm DEF Split
      <4>2. /\ Below(f, n)[Split(n)] = f[Split(n)]
            /\ Below(f, n)[n - Split(n)] = f[n - Split(n)]
        BY <4>1 DEF Below
      <4> QED BY <3>1, <4>2
    <3>2. CASE ~ n > 1
      BY <3>2
    <3> QED BY <3>1, <3>2
  <2> HIDE DEF value
  <2> QED BY <2>2, <2>3
<1>5. RootEquation(f, hashes)
  <2>1. f = [n \in Nat |-> f[n]]
    BY <1>3 DEF Solves
  <2> QED BY <1>4, <2>1 DEF RootEquation
<1>6. RangeRoot(hashes) = CHOOSE root : RootEquation(root, hashes)
  BY DEF RangeRoot, RootEquation, Split
<1> QED BY <1>5, <1>6

LEMMA RootForm ==
  ASSUME NEW hashes, NEW size \in Nat, NEW start \in Nat
  PROVE  /\ size = 0 => RangeRoot(hashes)[size][start] = EmptyRoot
         /\ size = 1 => RangeRoot(hashes)[size][start] = hashes[start + 1]
         /\ size > 1 => RangeRoot(hashes)[size][start]
                          = Node(RangeRoot(hashes)[Split(size)][start],
                                 RangeRoot(hashes)[size - Split(size)][start + Split(size)])
<1> DEFINE root == RangeRoot(hashes)
           value(n, a) ==
             IF n = 0 THEN EmptyRoot
             ELSE IF n = 1 THEN hashes[a + 1]
             ELSE Node(root[Split(n)][a], root[n - Split(n)][a + Split(n)])
<1>1. root = [n \in Nat |-> [a \in Nat |-> value(n, a)]]
  BY RootSolved DEF RootEquation
<1>2. root[size][start] = value(size, start)
  <2> HIDE DEF value, root
  <2> QED BY <1>1
<1> QED BY <1>2

LEMMA SplitIn ==
  ASSUME NEW n \in Nat, n > 1
  PROVE  /\ Split(n) \in Nat /\ Split(n) >= 1 /\ Split(n) < n
         /\ n - Split(n) \in Nat /\ n - Split(n) >= 1 /\ n - Split(n) < n
BY SplitForm DEF Split

\* The hashes of g from a on and of h from b on are the same, for n of them.
SameHashes(g, a, h, b, n) == \A i \in 1..n : g[a + i] = h[b + i]

\* A root commits to the hashes below it: the roots of two ranges of one size are equal
\* exactly when the ranges are, wherever they are.
LEMMA RootsCommit ==
  ASSUME NEW g, NEW h, NEW size \in Nat, size >= 1, NEW start \in Nat, NEW other \in Nat
  PROVE  /\ RangeRoot(g)[size][start] = RangeRoot(h)[size][other]
                => SameHashes(g, start, h, other, size)
         /\ SameHashes(g, start, h, other, size)
                => RangeRoot(g)[size][start] = RangeRoot(h)[size][other]
<1> DEFINE Same(n, a, b) == SameHashes(g, a, h, b, n)
           Commits(n, a, b) == RangeRoot(g)[n][a] = RangeRoot(h)[n][b] <=> Same(n, a, b)
           Bad == {n \in Nat : n >= 1 /\ \E a, b \in Nat : ~ Commits(n, a, b)}
<1> SUFFICES ASSUME Bad # {} PROVE FALSE
  OBVIOUS
<1>1. PICK n \in Bad : \A k \in Bad : n <= k
  <2>1. Bad \subseteq Nat
    OBVIOUS
  <2> HIDE DEF Bad
  <2> QED BY <2>1, LeastNat
<1>2. PICK a \in Nat, b \in Nat : ~ Commits(n, a, b)
  BY <1>1
<1>3. n \in Nat /\ n >= 1
  BY <1>1
<1>4. n # 1
  <2>1. n = 1 => RangeRoot(g)[n][a] = g[a + 1] /\ RangeRoot(h)[n][b] = h[b + 1]
    BY <1>3, RootForm
  <2> QED BY <1>2, <2>1 DEF SameHashes
<1> DEFINE s == Split(n)
<1>5. /\ s \in Nat /\ s >= 1 /\ s < n /\ n - s \in Nat /\ n - s >= 1 /\ n - s < n
      /\ a + s \in Nat /\ b + s \in Nat
  BY <1>3, <1>4, SplitIn
<1>6. /\ RangeRoot(g)[n][a] = Node(RangeRoot(g)[s][a], RangeRoot(g)[n - s][a + s])
      /\ RangeRoot(h)[n][b] = Node(RangeRoot(h)[s][b], RangeRoot(h)[n - s][b + s])
  <2>1. n > 1
    BY <1>3, <1>4
  <2>2. RangeRoot(g)[n][a] = Node(RangeRoot(g)[s][a], RangeRoot(g)[n - s][a + s])
    BY <2>1, RootForm
  <2>3. RangeRoot(h)[n][b] = Node(RangeRoot(h)[s][b], RangeRoot(h)[n - s][b + s])
    BY <2>1, RootForm
  <2> QED BY <2>2, <2>3
<1> HIDE DEF s, Commits, Same
<1>7. Commits(s, a, b) /\ Commits(n - s, a + s, b + s)
  BY <1>1, <1>5
<1>8. Same(n, a, b) <=> Same(s, a, b) /\ Same(n - s, a + s, b + s)
  <2>1. ASSUME Same(s, a, b), Same(n - s, a + s, b + s), NEW i \in 1..n
        PROVE  g[a + i] = h[b + i]
    <3>1. CASE i <= s
      <4>1. i \in 1..s
        BY <1>5, <3>1
      <4> QED BY <2>1, <4>1 DEF Same, SameHashes
    <3>2. CASE ~ i <= s
      <4>1. i - s \in 1..n - s /\ (a + s) + (i - s) = a + i /\ (b + s) + (i - s) = b + i
        BY <1>3, <1>5, <3>2
      <4>2. g[(a + s) + (i - s)] = h[(b + s) + (i - s)]
        BY <2>1, <4>1 DEF Same, SameHashes
      <4> QED BY <4>1, <4>2
    <3> QED BY <3>1, <3>2
  <2>2. ASSUME Same(n, a, b), NEW i \in 1..s
        PROVE  g[a + i] = h[b + i]
    BY <1>3, <1>5, <2>2 DEF Same, SameHashes
  <2>3. ASSUME Same(n, a, b), NEW i \in 1..n - s
        PROVE  g[(a + s) + i] = h[(b + s) + i]
    <3>1. s + i \in 1..n /\ (a + s) + i = a + (s + i) /\ (b + s) + i = b + (s + i)
      BY <1>3, <1>5
    <3>2. g[a + (s + i)] = h[b + (s + i)]
      BY <2>3, <3>1 DEF Same, SameHashes
    <3> QED BY <3>1, <3>2
  <2> QED BY <2>1, <2>2, <2>3 DEF Same, SameHashes
<1>9. RangeRoot(g)[n][a] = RangeRoot(h)[n][b]
        <=> /\ RangeRoot(g)[s][a] = RangeRoot(h)[s][b]
            /\ RangeRoot(g)[n - s][a + s] = RangeRoot(h)[n - s][b + s]
  BY <1>6 DEF Node
<1> QED BY <1>2, <1>7, <1>8, <1>9 DEF Commits

-------------------------------------------------------------------------------
(* Audit paths.  The one from the leaves and the one from the store solve the same  *)
(* equation, with the roots and with the names of ranges as its items.            *)

Items(item) == {item[x[1]][x[2]] : x \in Nat \X Nat}

LEMMA ItemIn == ASSUME NEW item, NEW s \in Nat, NEW a \in Nat PROVE item[s][a] \in Items(item)
<1>1. <<s, a>> \in Nat \X Nat /\ <<s, a>>[1] = s /\ <<s, a>>[2] = a
  OBVIOUS
<1> DEFINE x == <<s, a>>
<1>2. x \in Nat \X Nat /\ item[x[1]][x[2]] = item[s][a]
  BY <1>1
<1> HIDE DEF x
<1> QED BY <1>2 DEF Items

Ranges == [size \in Nat |-> [start \in Nat |-> <<size, start>>]]

AuditEquation(path, item) ==
  path = [size \in Nat |-> [start \in Nat |-> [index \in Nat |->
           IF size <= 1 THEN <<>>
           ELSE IF index < Split(size)
           THEN Append(path[Split(size)][start][index],
                       item[size - Split(size)][start + Split(size)])
           ELSE Append(path[size - Split(size)][start + Split(size)][index - Split(size)],
                       item[Split(size)][start])]]]

LEMMA AuditSolved == ASSUME NEW item PROVE \E path : AuditEquation(path, item)
<1> DEFINE P == Seq(Items(item))
           V == [Nat -> [Nat -> P]]
           value(n, g, a, i) ==
             IF n <= 1 THEN <<>>
             ELSE IF i < Split(n)
             THEN Append(g[Split(n)][a][i], item[n - Split(n)][a + Split(n)])
             ELSE Append(g[n - Split(n)][a + Split(n)][i - Split(n)], item[Split(n)][a])
           step == [n \in Nat |-> [g \in [0..n - 1 -> V] |->
                     [a \in Nat |-> [i \in Nat |-> value(n, g, a, i)]]]]
<1>1. ASSUME NEW n \in Nat, NEW g \in [0..n - 1 -> V]
      PROVE  /\ step[n][g] = [a \in Nat |-> [i \in Nat |-> value(n, g, a, i)]]
             /\ step[n][g] \in V
  <2>1. step[n][g] = [a \in Nat |-> [i \in Nat |-> value(n, g, a, i)]]
    <3> HIDE DEF value, V
    <3> QED OBVIOUS
  <2>2. ASSUME NEW a \in Nat, NEW i \in Nat
        PROVE  value(n, g, a, i) \in P
    <3>1. CASE n <= 1
      BY <3>1
    <3>2. CASE ~ n <= 1
      <4>1. /\ Split(n) \in Nat /\ n - Split(n) \in Nat /\ a + Split(n) \in Nat
            /\ Split(n) \in 0..n - 1 /\ n - Split(n) \in 0..n - 1
            /\ ~ i < Split(n) => i - Split(n) \in Nat
        <5>1. n > 1
          BY <3>2
        <5>2. /\ Split(n) \in Nat /\ Split(n) >= 1 /\ Split(n) < n
              /\ n - Split(n) \in Nat /\ n - Split(n) < n
          BY <5>1, SplitIn
        <5> HIDE DEF P, value, step
        <5> QED BY <5>2
      <4>2. /\ item[n - Split(n)][a + Split(n)] \in Items(item)
            /\ item[Split(n)][a] \in Items(item)
        BY <4>1, ItemIn
      <4>3. /\ g[Split(n)][a][i] \in P
            /\ ~ i < Split(n) => g[n - Split(n)][a + Split(n)][i - Split(n)] \in P
        <5>1. g[Split(n)] \in V /\ g[n - Split(n)] \in V
          BY <4>1
        <5> HIDE DEF P
        <5> QED BY <4>1, <5>1
      <4> HIDE DEF V
      <4> QED BY <3>2, <4>2, <4>3, AppendProperties
    <3> QED BY <3>1, <3>2
  <2> HIDE DEF value, step, P
  <2> QED BY <2>1, <2>2
<1> HIDE DEF step, V
<1>2. PICK f : Solves(f, step, V)
  <2>1. Steps(step, V)
    BY <1>1 DEF Steps
  <2> QED BY <2>1, Recursion
<1>3. ASSUME NEW n \in Nat
      PROVE  f[n] = [a \in Nat |-> [i \in Nat |-> value(n, f, a, i)]]
  <2>1. Below(f, n) \in [0..n - 1 -> V]
    BY <1>2 DEF Below, Solves
  <2>2. f[n] = [a \in Nat |-> [i \in Nat |-> value(n, Below(f, n), a, i)]]
    <3> HIDE DEF value
    <3> QED BY <1>1, <1>2, <2>1 DEF Solves
  <2>3. ASSUME NEW a \in Nat, NEW i \in Nat
        PROVE  value(n, Below(f, n), a, i) = value(n, f, a, i)
    <3>1. CASE n > 1
      <4>1. Split(n) \in 0..n - 1 /\ n - Split(n) \in 0..n - 1
        BY <3>1, SplitIn
      <4>2. /\ Below(f, n)[Split(n)] = f[Split(n)]
            /\ Below(f, n)[n - Split(n)] = f[n - Split(n)]
        BY <4>1 DEF Below
      <4> QED BY <3>1, <4>2
    <3>2. CASE ~ n > 1
      BY <3>2
    <3> QED BY <3>1, <3>2
  <2> HIDE DEF value
  <2> QED BY <2>2, <2>3
<1>4. AuditEquation(f, item)
  <2>1. f = [n \in Nat |-> f[n]]
    BY <1>2 DEF Solves
  <2> QED BY <1>3, <2>1 DEF AuditEquation
<1> QED BY <1>4

\* Where the code cuts n hashes from a on: s hashes, and then c hashes from e on.
Cut(n, a, s, c, e) == s = Split(n) /\ c = n - s /\ e = a + s

\* The c hashes from e on end where the n hashes from a on end, or before.
Within(c, e, n, a) == c + e <= n + a

\* The places of a leaf, and of a size, in the right one of the two parts.
Beyond(l, i, s) == ~ i < s /\ l = i - s
Past(l, m, s) == ~ m <= s /\ l = m - s

LEMMA Divided ==
  ASSUME NEW n \in Nat, n > 1, NEW a \in Nat
  PROVE  \E s, c, e \in Nat :
           /\ Cut(n, a, s, c, e) /\ s >= 1 /\ s < n /\ c >= 1 /\ c < n
           /\ Within(s, a, n, a) /\ Within(c, e, n, a)
<1>1. PICK s \in Nat : s = Split(n) /\ s >= 1 /\ s < n
  BY SplitIn
<1>2. PICK c \in Nat, e \in Nat : c = n - s /\ e = a + s
  BY <1>1
<1>3. c >= 1 /\ c < n /\ s + a <= n + a /\ c + e <= n + a
  BY <1>1, <1>2
<1>4. Cut(n, a, s, c, e)
  BY <1>1, <1>2 DEF Cut
<1>5. Within(s, a, n, a) /\ Within(c, e, n, a)
  BY <1>3 DEF Within
<1> QED BY <1>1, <1>3, <1>4, <1>5

LEMMA RootCut ==
  ASSUME NEW hashes, NEW n \in Nat, n > 1, NEW a \in Nat, NEW s, NEW c, NEW e, Cut(n, a, s, c, e)
  PROVE  RangeRoot(hashes)[n][a] = Node(RangeRoot(hashes)[s][a], RangeRoot(hashes)[c][e])
<1>1. RangeRoot(hashes)[n][a] = Node(RangeRoot(hashes)[Split(n)][a],
                                     RangeRoot(hashes)[n - Split(n)][a + Split(n)])
  BY RootForm
<1>2. Split(n) = s /\ n - Split(n) = c /\ a + Split(n) = e
  BY DEF Cut
<1> QED BY <1>1, <1>2

LEMMA BeyondIs ==
  ASSUME NEW i \in Nat, NEW s \in Nat, ~ i < s PROVE \E l \in Nat : Beyond(l, i, s)
<1>1. i - s \in Nat
  OBVIOUS
<1> QED BY <1>1 DEF Beyond

LEMMA PastIs ==
  ASSUME NEW m \in Nat, NEW s \in Nat, ~ m <= s PROVE \E l \in Nat \ {0} : Past(l, m, s)
<1>1. m - s \in Nat \ {0}
  OBVIOUS
<1> QED BY <1>1 DEF Past

\* Sequences of items.
Paths(item) == Seq(Items(item))

\* A path and one more item.
Then(p, x) == Append(p, x)

LEMMA PathsForm ==
  ASSUME NEW item
  PROVE  /\ <<>> \in Paths(item)
         /\ \A x \in Items(item) : <<x>> \in Paths(item)
<1> DEFINE S == Items(item)
<1> HIDE DEF S
<1>1. <<>> \in Seq(S) /\ \A x \in S : <<x>> \in Seq(S)
  OBVIOUS
<1> QED BY <1>1 DEF Paths, S

LEMMA ThenPath ==
  ASSUME NEW item, NEW p \in Paths(item), NEW x \in Items(item)
  PROVE  Then(p, x) \in Paths(item)
<1> DEFINE S == Items(item)
<1>1. p \in Seq(S) /\ x \in S
  BY DEF Paths
<1> HIDE DEF S
<1>2. Append(p, x) \in Seq(S)
  BY <1>1, AppendProperties
<1> QED BY <1>2 DEF Paths, Then, S

LEMMA ThenForm ==
  ASSUME NEW item, NEW p \in Paths(item), NEW x
  PROVE  /\ Len(p) \in Nat /\ Len(Then(p, x)) = Len(p) + 1
         /\ Then(p, x)[Len(p) + 1] = x
         /\ \A k \in 1..Len(p) : Then(p, x)[k] = p[k]
         /\ Then(p, x) # <<>>
<1> DEFINE S == Items(item) \cup {x}
<1>1. p \in Seq(S)
  <2> DEFINE T == Items(item)
  <2>1. p \in Seq(T) /\ T \subseteq S
    BY DEF Paths
  <2> HIDE DEF S, T
  <2> QED BY <2>1
<1>2. x \in S
  OBVIOUS
<1> HIDE DEF S
<1>3. Len(p) \in Nat
  BY <1>1
<1>4. /\ Len(Append(p, x)) = Len(p) + 1
      /\ \A k \in 1..Len(p) + 1 : Append(p, x)[k] = IF k <= Len(p) THEN p[k] ELSE x
  BY <1>1, <1>2
<1>5. Len(p) + 1 \in 1..Len(p) + 1 /\ ~ Len(p) + 1 <= Len(p)
  BY <1>3
<1>6. Append(p, x)[Len(p) + 1] = x
  BY <1>4, <1>5
<1>7. \A k \in 1..Len(p) : Append(p, x)[k] = p[k]
  BY <1>3, <1>4
<1>8. Append(p, x) # <<>>
  <2>1. Len(p) + 1 # 0 /\ Len(<<>>) = 0
    BY <1>3
  <2> QED BY <1>4, <2>1
<1> QED BY <1>3, <1>4, <1>6, <1>7, <1>8 DEF Then

Extended(path, item, size, start, index) ==
  IF index < Split(size)
  THEN Append(path[Split(size)][start][index], item[size - Split(size)][start + Split(size)])
  ELSE Append(path[size - Split(size)][start + Split(size)][index - Split(size)],
              item[Split(size)][start])

LEMMA AuditValue ==
  ASSUME NEW item, NEW path, AuditEquation(path, item),
         NEW size \in Nat, NEW start \in Nat, NEW index \in Nat
  PROVE  /\ size <= 1 => path[size][start][index] = <<>>
         /\ size > 1 => path[size][start][index] = Extended(path, item, size, start, index)
<1> DEFINE value(n, a, i) ==
             IF n <= 1 THEN <<>> ELSE Extended(path, item, n, a, i)
<1>1. path = [n \in Nat |-> [a \in Nat |-> [i \in Nat |-> value(n, a, i)]]]
  BY DEF AuditEquation, Extended
<1>2. path[size][start][index] = value(size, start, index)
  <2> HIDE DEF value
  <2> QED BY <1>1
<1> QED BY <1>2

\* The equation, with names for the parts of the range.
AuditParts(path, item, n, a, i, s, c, e) ==
  /\ i < s => path[n][a][i] = Then(path[s][a][i], item[c][e])
  /\ \A l \in Nat : Beyond(l, i, s) => path[n][a][i] = Then(path[c][e][l], item[s][a])

LEMMA AuditForm ==
  ASSUME NEW item, NEW path, AuditEquation(path, item),
         NEW n \in Nat, n > 1, NEW a \in Nat, NEW i \in Nat,
         NEW s \in Nat, NEW c \in Nat, NEW e \in Nat, Cut(n, a, s, c, e)
  PROVE  AuditParts(path, item, n, a, i, s, c, e)
<1>1. path[n][a][i] = Extended(path, item, n, a, i)
  BY AuditValue
<1>2. Split(n) = s /\ n - Split(n) = c /\ a + Split(n) = e
  BY DEF Cut
<1>3. ASSUME i < s
      PROVE  path[n][a][i] = Then(path[s][a][i], item[c][e])
  BY <1>1, <1>2, <1>3 DEF Extended, Then
<1>4. ASSUME NEW l \in Nat, Beyond(l, i, s)
      PROVE  path[n][a][i] = Then(path[c][e][l], item[s][a])
  <2>1. i - Split(n) = l /\ ~ i < Split(n)
    BY <1>2, <1>4 DEF Beyond
  <2> QED BY <1>1, <1>2, <2>1 DEF Extended, Then
<1> QED BY <1>3, <1>4 DEF AuditParts

LEMMA AuditType ==
  ASSUME NEW item, NEW path, AuditEquation(path, item)
  PROVE  \A size, start, index \in Nat : path[size][start][index] \in Paths(item)
<1> DEFINE Typed(n) == \A a, i \in Nat : path[n][a][i] \in Paths(item)
           Bad == {n \in Nat : ~ Typed(n)}
<1> SUFFICES ASSUME Bad # {} PROVE FALSE
  OBVIOUS
<1>1. PICK n \in Bad : \A k \in Bad : n <= k
  <2>1. Bad \subseteq Nat
    OBVIOUS
  <2> HIDE DEF Bad
  <2> QED BY <2>1, LeastNat
<1>2. n \in Nat /\ ~ Typed(n)
  BY <1>1
<1>3. PICK a \in Nat, i \in Nat : path[n][a][i] \notin Paths(item)
  BY <1>2
<1>4. ASSUME NEW k \in Nat, k < n
      PROVE  Typed(k)
  <2> HIDE DEF Typed
  <2> QED BY <1>1, <1>2, <1>4
<1> HIDE DEF Typed, Bad
<1>5. n > 1
  <2> SUFFICES ASSUME n <= 1 PROVE FALSE
    BY <1>2
  <2>1. path[n][a][i] = <<>>
    BY <1>2, AuditValue
  <2> QED BY <1>3, <2>1, PathsForm
<1>6. PICK s \in Nat, c \in Nat, e \in Nat :
        Cut(n, a, s, c, e) /\ s >= 1 /\ s < n /\ c >= 1 /\ c < n
  BY <1>2, <1>5, Divided
<1>7. Typed(s) /\ Typed(c)
  BY <1>4, <1>6
<1>8. AuditParts(path, item, n, a, i, s, c, e)
  BY <1>2, <1>5, <1>6, AuditForm
<1>9. item[c][e] \in Items(item) /\ item[s][a] \in Items(item)
  BY ItemIn
<1>10. CASE i < s
  <2>1. path[n][a][i] = Then(path[s][a][i], item[c][e])
    BY <1>10, <1>8 DEF AuditParts
  <2>2. path[s][a][i] \in Paths(item)
    BY <1>7 DEF Typed
  <2> QED BY <1>3, <1>9, <2>1, <2>2, ThenPath
<1>11. CASE ~ i < s
  <2>1. PICK l \in Nat : Beyond(l, i, s)
    BY <1>11, BeyondIs
  <2>2. path[n][a][i] = Then(path[c][e][l], item[s][a])
    BY <1>8, <2>1 DEF AuditParts
  <2>3. path[c][e][l] \in Paths(item)
    BY <1>7 DEF Typed
  <2> QED BY <1>3, <1>9, <2>2, <2>3, ThenPath
<1> QED BY <1>10, <1>11

\* What a path p is to the ranges r that it is made of: in the same places, the items that
\* stand for them.  All of them are inside the size hashes from start on.
InRange(x, start, size) ==
  x[1] \in Nat /\ x[2] \in Nat /\ x[1] >= 1 /\ Within(x[1], x[2], size, start)

Maps(item, p, r, start, size) ==
  /\ Len(p) = Len(r)
  /\ \A k \in 1..Len(r) : InRange(r[k], start, size) /\ p[k] = item[r[k][1]][r[k][2]]

LEMMA MapsEmpty == ASSUME NEW item, NEW a, NEW n PROVE Maps(item, <<>>, <<>>, a, n)
BY DEF Maps

LEMMA RangeIs ==
  ASSUME NEW c \in Nat, NEW d \in Nat
  PROVE  Ranges[c][d] = <<c, d>> /\ Ranges[c][d][1] = c /\ Ranges[c][d][2] = d
BY DEF Ranges

LEMMA MapsOne ==
  ASSUME NEW item, NEW a \in Nat, NEW n \in Nat, n >= 1
  PROVE  Maps(item, <<item[n][a]>>, <<Ranges[n][a]>>, a, n)
<1> DEFINE y == item[n][a]
           z == Ranges[n][a]
<1>1. Within(n, a, n, a)
  BY DEF Within
<1>2. InRange(z, a, n) /\ y = item[z[1]][z[2]]
  BY <1>1, RangeIs DEF InRange
<1> HIDE DEF y, z
<1>3. Len(<<y>>) = 1 /\ Len(<<z>>) = 1 /\ <<y>>[1] = y /\ <<z>>[1] = z
  OBVIOUS
<1>4. \A k \in 1..Len(<<z>>) : k = 1
  BY <1>3
<1>5. Maps(item, <<y>>, <<z>>, a, n)
  BY <1>2, <1>3, <1>4 DEF Maps
<1> QED BY <1>5 DEF y, z

LEMMA MapsAppend ==
  ASSUME NEW item, NEW p \in Paths(item), NEW r \in Paths(Ranges),
         NEW b \in Nat, NEW m \in Nat, Maps(item, p, r, b, m),
         NEW a \in Nat, NEW n \in Nat, Within(m, b, n, a),
         NEW c \in Nat, NEW d \in Nat, c >= 1, Within(c, d, n, a)
  PROVE  Maps(item, Then(p, item[c][d]), Then(r, Ranges[c][d]), a, n)
<1> DEFINE y == item[c][d]
           z == Ranges[c][d]
           P == Then(p, y)
           R == Then(r, z)
           M == Len(p)
           N == Len(r)
<1>1. InRange(z, a, n) /\ y = item[z[1]][z[2]]
  BY RangeIs DEF InRange
<1> HIDE DEF y, z
<1>2. /\ M \in Nat /\ Len(P) = M + 1 /\ P[M + 1] = y
      /\ \A k \in 1..M : P[k] = p[k]
  BY ThenForm
<1>3. /\ N \in Nat /\ Len(R) = N + 1 /\ R[N + 1] = z
      /\ \A k \in 1..N : R[k] = r[k]
  BY ThenForm
<1>4. M = N /\ \A k \in 1..N : InRange(r[k], b, m) /\ p[k] = item[r[k][1]][r[k][2]]
  BY DEF Maps
<1> HIDE DEF P, R, M, N
<1>5. ASSUME NEW k \in 1..N + 1
      PROVE  InRange(R[k], a, n) /\ P[k] = item[R[k][1]][R[k][2]]
  <2>1. CASE k \in 1..N
    <3>1. InRange(r[k], b, m) /\ p[k] = item[r[k][1]][r[k][2]]
      BY <1>4, <2>1
    <3>2. P[k] = p[k] /\ R[k] = r[k]
      BY <1>2, <1>3, <1>4, <2>1
    <3>3. InRange(r[k], a, n)
      <4> DEFINE x == r[k]
      <4>1. x[1] \in Nat /\ x[2] \in Nat /\ x[1] >= 1 /\ Within(x[1], x[2], m, b)
        BY <3>1 DEF InRange
      <4>2. PICK f \in Nat, g \in Nat : f = x[1] /\ g = x[2]
        BY <4>1
      <4> HIDE DEF x
      <4>3. Within(f, g, m, b)
        BY <4>1, <4>2
      <4>4. Within(f, g, n, a)
        BY <4>3 DEF Within
      <4>5. InRange(x, a, n)
        BY <4>1, <4>2, <4>4 DEF InRange
      <4> QED BY <4>5 DEF x
    <3> QED BY <3>1, <3>2, <3>3
  <2>2. CASE k = N + 1
    <3>1. R[k] = z /\ P[k] = y
      BY <1>2, <1>3, <1>4, <2>2
    <3> QED BY <1>1, <3>1
  <2> QED BY <1>3, <2>1, <2>2
<1>6. Maps(item, P, R, a, n)
  BY <1>2, <1>3, <1>4, <1>5 DEF Maps, M, N
<1> QED BY <1>6 DEF P, R, y, z

LEMMA AuditMapped ==
  ASSUME NEW item, NEW path, AuditEquation(path, item),
         NEW ranges, AuditEquation(ranges, Ranges)
  PROVE  \A size, start, index \in Nat :
           Maps(item, path[size][start][index], ranges[size][start][index], start, size)
<1> DEFINE Mapped(n) == \A a, i \in Nat : Maps(item, path[n][a][i], ranges[n][a][i], a, n)
           Bad == {n \in Nat : ~ Mapped(n)}
<1> SUFFICES ASSUME Bad # {} PROVE FALSE
  OBVIOUS
<1>1. PICK n \in Bad : \A k \in Bad : n <= k
  <2>1. Bad \subseteq Nat
    OBVIOUS
  <2> HIDE DEF Bad
  <2> QED BY <2>1, LeastNat
<1>2. n \in Nat /\ ~ Mapped(n)
  BY <1>1
<1>3. PICK a \in Nat, i \in Nat : ~ Maps(item, path[n][a][i], ranges[n][a][i], a, n)
  BY <1>2
<1>4. ASSUME NEW k \in Nat, k < n
      PROVE  Mapped(k)
  <2> HIDE DEF Mapped
  <2> QED BY <1>1, <1>2, <1>4
<1> HIDE DEF Mapped, Bad
<1>5. n > 1
  <2> SUFFICES ASSUME n <= 1 PROVE FALSE
    BY <1>2
  <2>1. path[n][a][i] = <<>>
    BY <1>2, AuditValue
  <2>2. ranges[n][a][i] = <<>>
    BY <1>2, AuditValue
  <2> QED BY <1>3, <2>1, <2>2, MapsEmpty
<1>6. PICK s \in Nat, c \in Nat, e \in Nat :
        /\ Cut(n, a, s, c, e) /\ s >= 1 /\ s < n /\ c >= 1 /\ c < n
        /\ Within(s, a, n, a) /\ Within(c, e, n, a)
  BY <1>2, <1>5, Divided
<1>7. Mapped(s) /\ Mapped(c)
  BY <1>4, <1>6
<1>8. AuditParts(path, item, n, a, i, s, c, e)
  BY <1>2, <1>5, <1>6, AuditForm
<1>9. AuditParts(ranges, Ranges, n, a, i, s, c, e)
  BY <1>2, <1>5, <1>6, AuditForm
<1>10. CASE i < s
  <2> DEFINE p == path[s][a][i]
             r == ranges[s][a][i]
  <2>1. path[n][a][i] = Then(p, item[c][e])
    BY <1>8, <1>10 DEF AuditParts
  <2>2. ranges[n][a][i] = Then(r, Ranges[c][e])
    BY <1>9, <1>10 DEF AuditParts
  <2>3. p \in Paths(item)
    BY AuditType
  <2>4. r \in Paths(Ranges)
    BY AuditType
  <2>5. Maps(item, p, r, a, s)
    BY <1>7 DEF Mapped
  <2> HIDE DEF p, r
  <2>6. Maps(item, Then(p, item[c][e]), Then(r, Ranges[c][e]), a, n)
    BY <1>2, <1>6, <2>3, <2>4, <2>5, MapsAppend
  <2> QED BY <1>3, <2>1, <2>2, <2>6
<1>11. CASE ~ i < s
  <2>1. PICK l \in Nat : Beyond(l, i, s)
    BY <1>11, BeyondIs
  <2> DEFINE p == path[c][e][l]
             r == ranges[c][e][l]
  <2>2. path[n][a][i] = Then(p, item[s][a])
    BY <1>8, <2>1 DEF AuditParts
  <2>3. ranges[n][a][i] = Then(r, Ranges[s][a])
    BY <1>9, <2>1 DEF AuditParts
  <2>4. p \in Paths(item)
    BY AuditType
  <2>5. r \in Paths(Ranges)
    BY AuditType
  <2>6. Maps(item, p, r, e, c)
    BY <1>7 DEF Mapped
  <2> HIDE DEF p, r
  <2>7. Maps(item, Then(p, item[s][a]), Then(r, Ranges[s][a]), a, n)
    BY <1>2, <1>6, <2>4, <2>5, <2>6, MapsAppend
  <2> QED BY <1>3, <2>2, <2>3, <2>7
<1> QED BY <1>10, <1>11

LEMMA AuditPathSolves ==
  ASSUME NEW hashes PROVE AuditEquation(BuildAuditPath(hashes), RangeRoot(hashes))
<1>1. BuildAuditPath(hashes) = CHOOSE path : AuditEquation(path, RangeRoot(hashes))
  BY DEF BuildAuditPath, AuditEquation, Split
<1> QED BY <1>1, AuditSolved

LEMMA StoredAuditSolves == AuditEquation(StoredAuditRanges, Ranges)
<1> DEFINE value(path, size, start, index) ==
             IF size <= 1 THEN <<>>
             ELSE IF index < Split(size)
             THEN Append(path[Split(size)][start][index],
                         <<size - Split(size), start + Split(size)>>)
             ELSE Append(path[size - Split(size)][start + Split(size)][index - Split(size)],
                         <<Split(size), start>>)
           Stored(path) == path = [size \in Nat |-> [start \in Nat |-> [index \in Nat |->
                                    value(path, size, start, index)]]]
           other(path, size, start, index) ==
             IF size <= 1 THEN <<>>
             ELSE IF index < Split(size)
             THEN Append(path[Split(size)][start][index],
                         Ranges[size - Split(size)][start + Split(size)])
             ELSE Append(path[size - Split(size)][start + Split(size)][index - Split(size)],
                         Ranges[Split(size)][start])
<1>1. ASSUME NEW path, NEW size \in Nat, NEW start \in Nat, NEW index \in Nat
      PROVE  value(path, size, start, index) = other(path, size, start, index)
  <2>1. size > 1 => /\ Ranges[size - Split(size)][start + Split(size)]
                         = <<size - Split(size), start + Split(size)>>
                    /\ Ranges[Split(size)][start] = <<Split(size), start>>
    <3>1. size > 1 => /\ Split(size) \in Nat /\ size - Split(size) \in Nat
                      /\ start + Split(size) \in Nat
      BY SplitIn
    <3> QED BY <3>1 DEF Ranges
  <2> QED BY <2>1
<1>2. StoredAuditRanges = CHOOSE path : Stored(path)
  BY DEF StoredAuditRanges, Split
<1>3. ASSUME NEW path
      PROVE  Stored(path) <=> AuditEquation(path, Ranges)
  <2>1. AuditEquation(path, Ranges)
          <=> path = [size \in Nat |-> [start \in Nat |-> [index \in Nat |->
                       other(path, size, start, index)]]]
    BY DEF AuditEquation
  <2> HIDE DEF value, other
  <2> QED BY <1>1, <2>1
<1> HIDE DEF Stored
<1> QED BY <1>2, <1>3, AuditSolved


-------------------------------------------------------------------------------
(* The store: a range whose coordinates it has is inside the log, and resolves to  *)
(* the root of the range.                                                         *)

LEMMA DivMod ==
  ASSUME NEW a \in Nat, NEW n \in Nat, n >= 1
  PROVE  /\ a \div n \in Nat /\ a % n \in Nat /\ a % n < n /\ a \div n <= a
         /\ a = n * (a \div n) + (a % n)
OBVIOUS

LEMMA StoredOne == ASSUME NEW a \in Nat PROVE IsStored(1, a)
<1>1. 0 \in 0..1 /\ Pow2[0] = 1 /\ a % 1 = 0
  BY Pow2Form
<1>2. IsPowerOfTwo(1)
  BY <1>1 DEF IsPowerOfTwo
<1> QED BY <1>1, <1>2 DEF IsStored

\* The coordinate of a range names the node at its level and index.
LEMMA CoordinateForm ==
  ASSUME NEW n \in Nat, n >= 1, NEW a \in Nat, IsStored(n, a)
  PROVE  LET c == Coordinate(n, a) IN
         /\ c = <<c[1], c[2]>> /\ c[1] \in 0..n /\ c[2] \in 0..a
         /\ Pow2[c[1]] = n /\ c[2] * n = a /\ (c[2] + 1) * n = a + n
<1> DEFINE level == CHOOSE l \in 0..n : Pow2[l] = n
           index == a \div n
<1>1. level \in 0..n /\ Pow2[level] = n
  BY DEF IsStored, IsPowerOfTwo
<1>2. index \in 0..a /\ index * n = a /\ (index + 1) * n = a + n
  <2>1. a % n = 0
    BY DEF IsStored
  <2>2. index \in Nat /\ index <= a /\ a = n * index + 0
    BY <2>1, DivMod
  <2> HIDE DEF index
  <2>3. index * n = a
    BY <2>2
  <2>4. (index + 1) * n = index * n + n
    BY <2>2
  <2> QED BY <2>2, <2>3, <2>4
<1>3. Coordinate(n, a) = <<level, index>>
  BY DEF Coordinate
<1> HIDE DEF level, index
<1> QED BY <1>1, <1>2, <1>3

PlanEquation(plan) ==
  plan = [size \in Nat |-> [start \in Nat |->
           IF size = 0 THEN {}
           ELSE IF IsStored(size, start) THEN {Coordinate(size, start)}
           ELSE plan[Split(size)][start] \cup plan[size - Split(size)][start + Split(size)]]]

LEMMA PlanSolved == PlanEquation(PlanRange)
<1> DEFINE C == {Coordinate(x[1], x[2]) : x \in Nat \X Nat}
           V == [Nat -> SUBSET C]
           value(n, g, a) ==
             IF n = 0 THEN {}
             ELSE IF IsStored(n, a) THEN {Coordinate(n, a)}
             ELSE g[Split(n)][a] \cup g[n - Split(n)][a + Split(n)]
           step == [n \in Nat |-> [g \in [0..n - 1 -> V] |-> [a \in Nat |-> value(n, g, a)]]]
<1>1. ASSUME NEW n \in Nat, NEW a \in Nat, n # 0, ~ IsStored(n, a)
      PROVE  /\ Split(n) \in 0..n - 1 /\ n - Split(n) \in 0..n - 1
             /\ a + Split(n) \in Nat
  <2>1. n > 1
    BY <1>1, StoredOne
  <2> QED BY <2>1, SplitIn
<1>2. ASSUME NEW n \in Nat, NEW g \in [0..n - 1 -> V]
      PROVE  /\ step[n][g] = [a \in Nat |-> value(n, g, a)]
             /\ step[n][g] \in V
  <2>1. step[n][g] = [a \in Nat |-> value(n, g, a)]
    <3> HIDE DEF value, V
    <3> QED OBVIOUS
  <2>2. ASSUME NEW a \in Nat
        PROVE  value(n, g, a) \in SUBSET C
    <3>1. CASE n = 0
      BY <3>1
    <3>2. CASE n # 0 /\ IsStored(n, a)
      <4>1. Coordinate(n, a) \in C
        <5>1. <<n, a>> \in Nat \X Nat /\ <<n, a>>[1] = n /\ <<n, a>>[2] = a
          OBVIOUS
        <5> DEFINE x == <<n, a>>
        <5>2. x \in Nat \X Nat /\ Coordinate(x[1], x[2]) = Coordinate(n, a)
          BY <5>1
        <5> HIDE DEF x
        <5> QED BY <5>2
      <4> HIDE DEF C
      <4> QED BY <3>2, <4>1
    <3>3. CASE n # 0 /\ ~ IsStored(n, a)
      <4>1. g[Split(n)] \in V /\ g[n - Split(n)] \in V /\ a + Split(n) \in Nat
        BY <1>1, <3>3
      <4>2. g[Split(n)][a] \in SUBSET C /\ g[n - Split(n)][a + Split(n)] \in SUBSET C
        <5> HIDE DEF C
        <5> QED BY <4>1
      <4> HIDE DEF C, V
      <4> QED BY <3>3, <4>2
    <3> QED BY <3>1, <3>2, <3>3
  <2> HIDE DEF value, step, C
  <2> QED BY <2>1, <2>2
<1> HIDE DEF step, V
<1>3. PICK f : Solves(f, step, V)
  <2>1. Steps(step, V)
    BY <1>2 DEF Steps
  <2> QED BY <2>1, Recursion
<1>4. ASSUME NEW n \in Nat
      PROVE  f[n] = [a \in Nat |-> value(n, f, a)]
  <2>1. Below(f, n) \in [0..n - 1 -> V]
    BY <1>3 DEF Below, Solves
  <2>2. f[n] = [a \in Nat |-> value(n, Below(f, n), a)]
    <3> HIDE DEF value
    <3> QED BY <1>2, <1>3, <2>1 DEF Solves
  <2>3. ASSUME NEW a \in Nat
        PROVE  value(n, Below(f, n), a) = value(n, f, a)
    <3>1. CASE n # 0 /\ ~ IsStored(n, a)
      <4>1. /\ Below(f, n)[Split(n)] = f[Split(n)]
            /\ Below(f, n)[n - Split(n)] = f[n - Split(n)]
        BY <1>1, <3>1 DEF Below
      <4> QED BY <3>1, <4>1
    <3>2. CASE ~ (n # 0 /\ ~ IsStored(n, a))
      BY <3>2
    <3> QED BY <3>1, <3>2
  <2> HIDE DEF value
  <2> QED BY <2>2, <2>3
<1>5. PlanEquation(f)
  <2>1. f = [n \in Nat |-> f[n]]
    BY <1>3 DEF Solves
  <2> QED BY <1>4, <2>1 DEF PlanEquation
<1>6. PlanRange = CHOOSE plan : PlanEquation(plan)
  BY DEF PlanRange, PlanEquation, Split
<1> QED BY <1>5, <1>6

LEMMA PlanValue ==
  ASSUME NEW size \in Nat, NEW start \in Nat
  PROVE  PlanRange[size][start] =
           IF size = 0 THEN {}
           ELSE IF IsStored(size, start) THEN {Coordinate(size, start)}
           ELSE PlanRange[Split(size)][start] \cup PlanRange[size - Split(size)][start + Split(size)]
<1> DEFINE value(n, a) ==
             IF n = 0 THEN {}
             ELSE IF IsStored(n, a) THEN {Coordinate(n, a)}
             ELSE PlanRange[Split(n)][a] \cup PlanRange[n - Split(n)][a + Split(n)]
<1>1. PlanRange = [n \in Nat |-> [a \in Nat |-> value(n, a)]]
  BY PlanSolved DEF PlanEquation
<1>2. PlanRange[size][start] = value(size, start)
  <2> HIDE DEF value
  <2> QED BY <1>1
<1> QED BY <1>2

ResolveEquation(resolve, nodes) ==
  resolve = [size \in Nat |-> [start \in Nat |->
              IF size = 0 THEN EmptyRoot
              ELSE IF IsStored(size, start) THEN nodes[Coordinate(size, start)]
              ELSE Node(resolve[Split(size)][start],
                        resolve[size - Split(size)][start + Split(size)])]]

LEMMA ResolveSolved == ASSUME NEW nodes PROVE ResolveEquation(ResolveRange(nodes), nodes)
<1> DEFINE S == {EmptyRoot} \cup {nodes[Coordinate(x[1], x[2])] : x \in Nat \X Nat}
<1>1. PICK H : S \subseteq H /\ Closed(H)
  <2> HIDE DEF S
  <2> QED BY Closure
<1> DEFINE V == [Nat -> H]
           value(n, g, a) ==
             IF n = 0 THEN EmptyRoot
             ELSE IF IsStored(n, a) THEN nodes[Coordinate(n, a)]
             ELSE Node(g[Split(n)][a], g[n - Split(n)][a + Split(n)])
           step == [n \in Nat |-> [g \in [0..n - 1 -> V] |-> [a \in Nat |-> value(n, g, a)]]]
<1>2. ASSUME NEW n \in Nat, NEW a \in Nat, n # 0, ~ IsStored(n, a)
      PROVE  /\ Split(n) \in 0..n - 1 /\ n - Split(n) \in 0..n - 1
             /\ a + Split(n) \in Nat
  <2>1. n > 1
    BY <1>2, StoredOne
  <2> QED BY <2>1, SplitIn
<1>3. ASSUME NEW n \in Nat, NEW g \in [0..n - 1 -> V]
      PROVE  /\ step[n][g] = [a \in Nat |-> value(n, g, a)]
             /\ step[n][g] \in V
  <2>1. step[n][g] = [a \in Nat |-> value(n, g, a)]
    <3> HIDE DEF value, V
    <3> QED OBVIOUS
  <2>2. ASSUME NEW a \in Nat
        PROVE  value(n, g, a) \in H
    <3>1. CASE n = 0
      BY <1>1, <3>1
    <3>2. CASE n # 0 /\ IsStored(n, a)
      <4>1. nodes[Coordinate(n, a)] \in S
        <5>1. <<n, a>> \in Nat \X Nat /\ <<n, a>>[1] = n /\ <<n, a>>[2] = a
          OBVIOUS
        <5> DEFINE x == <<n, a>>
        <5>2. x \in Nat \X Nat /\ nodes[Coordinate(x[1], x[2])] = nodes[Coordinate(n, a)]
          BY <5>1
        <5> HIDE DEF x
        <5> QED BY <5>2
      <4> HIDE DEF S
      <4> QED BY <1>1, <3>2, <4>1
    <3>3. CASE n # 0 /\ ~ IsStored(n, a)
      <4>1. g[Split(n)] \in V /\ g[n - Split(n)] \in V /\ a + Split(n) \in Nat
        BY <1>2, <3>3
      <4>2. g[Split(n)][a] \in H /\ g[n - Split(n)][a + Split(n)] \in H
        BY <4>1
      <4> HIDE DEF V
      <4> QED BY <1>1, <3>3, <4>2 DEF Closed
    <3> QED BY <3>1, <3>2, <3>3
  <2> HIDE DEF value, step
  <2> QED BY <2>1, <2>2
<1> HIDE DEF step, V
<1>4. PICK f : Solves(f, step, V)
  <2>1. Steps(step, V)
    BY <1>3 DEF Steps
  <2> QED BY <2>1, Recursion
<1>5. ASSUME NEW n \in Nat
      PROVE  f[n] = [a \in Nat |-> value(n, f, a)]
  <2>1. Below(f, n) \in [0..n - 1 -> V]
    BY <1>4 DEF Below, Solves
  <2>2. f[n] = [a \in Nat |-> value(n, Below(f, n), a)]
    <3> HIDE DEF value
    <3> QED BY <1>3, <1>4, <2>1 DEF Solves
  <2>3. ASSUME NEW a \in Nat
        PROVE  value(n, Below(f, n), a) = value(n, f, a)
    <3>1. CASE n # 0 /\ ~ IsStored(n, a)
      <4>1. /\ Below(f, n)[Split(n)] = f[Split(n)]
            /\ Below(f, n)[n - Split(n)] = f[n - Split(n)]
        BY <1>2, <3>1 DEF Below
      <4> QED BY <3>1, <4>1
    <3>2. CASE ~ (n # 0 /\ ~ IsStored(n, a))
      BY <3>2
    <3> QED BY <3>1, <3>2
  <2> HIDE DEF value
  <2> QED BY <2>2, <2>3
<1>6. ResolveEquation(f, nodes)
  <2>1. f = [n \in Nat |-> f[n]]
    BY <1>4 DEF Solves
  <2> QED BY <1>5, <2>1 DEF ResolveEquation
<1>7. ResolveRange(nodes) = CHOOSE resolve : ResolveEquation(resolve, nodes)
  BY DEF ResolveRange, ResolveEquation, Split
<1> QED BY <1>6, <1>7

LEMMA ResolveValue ==
  ASSUME NEW nodes, NEW size \in Nat, NEW start \in Nat
  PROVE  ResolveRange(nodes)[size][start] =
           IF size = 0 THEN EmptyRoot
           ELSE IF IsStored(size, start) THEN nodes[Coordinate(size, start)]
           ELSE Node(ResolveRange(nodes)[Split(size)][start],
                     ResolveRange(nodes)[size - Split(size)][start + Split(size)])
<1> DEFINE resolve == ResolveRange(nodes)
           value(n, a) ==
             IF n = 0 THEN EmptyRoot
             ELSE IF IsStored(n, a) THEN nodes[Coordinate(n, a)]
             ELSE Node(resolve[Split(n)][a], resolve[n - Split(n)][a + Split(n)])
<1>1. resolve = [n \in Nat |-> [a \in Nat |-> value(n, a)]]
  BY ResolveSolved DEF ResolveEquation
<1>2. resolve[size][start] = value(size, start)
  <2> HIDE DEF value, resolve
  <2> QED BY <1>1
<1> QED BY <1>2


\* A range of the store's form is in it exactly when the log has all its leaves.
LEMMA StoredForm ==
  ASSUME NEW seq, Len(seq) \in Nat, NEW n \in Nat, n >= 1, NEW a \in Nat, IsStored(n, a)
  PROVE  /\ Coordinate(n, a) \in DOMAIN StoredNodes(seq) <=> a + n <= Len(seq)
         /\ a + n <= Len(seq) =>
              StoredNodes(seq)[Coordinate(n, a)] = RangeRoot(LeafHashes(seq))[n][a]
<1> DEFINE N == Len(seq)
           Complete == {c \in (0..N) \X (0..N) : (c[2] + 1) * Pow2[c[1]] <= N}
           value(c) == RangeRoot(LeafHashes(seq))[Pow2[c[1]]][c[2] * Pow2[c[1]]]
           d == Coordinate(n, a)
<1>1. StoredNodes(seq) = [c \in Complete |-> value(c)]
  BY DEF StoredNodes
<1>2. /\ d = <<d[1], d[2]>> /\ d[1] \in 0..n /\ d[2] \in 0..a
      /\ Pow2[d[1]] = n /\ d[2] * n = a /\ (d[2] + 1) * n = a + n
  BY CoordinateForm
<1> HIDE DEF d
<1>3. ASSUME d \in Complete
      PROVE  a + n <= N
  <2>1. (d[2] + 1) * Pow2[d[1]] <= N
    BY <1>3
  <2> QED BY <1>2, <2>1
<1>4. ASSUME a + n <= N
      PROVE  d \in Complete
  <2>1. d[1] \in 0..N /\ d[2] \in 0..N
    BY <1>2, <1>4
  <2>2. <<d[1], d[2]>> \in (0..N) \X (0..N)
    BY <2>1
  <2>3. d \in (0..N) \X (0..N)
    BY <1>2, <2>2
  <2>4. (d[2] + 1) * Pow2[d[1]] <= N
    BY <1>2, <1>4
  <2> QED BY <2>3, <2>4
<1>5. value(d) = RangeRoot(LeafHashes(seq))[n][a]
  BY <1>2
<1> HIDE DEF value, Complete
<1> QED BY <1>1, <1>3, <1>4, <1>5 DEF d

\* A range all of whose coordinates the store has is inside the log.
LEMMA PlanInside ==
  ASSUME NEW seq, Len(seq) \in Nat, NEW size \in Nat, size >= 1, NEW start \in Nat,
         PlanRange[size][start] \subseteq DOMAIN StoredNodes(seq)
  PROVE  start + size <= Len(seq)
<1> DEFINE N == Len(seq)
           Held(n, a) == PlanRange[n][a] \subseteq DOMAIN StoredNodes(seq)
           Inside(n) == \A a \in Nat : Held(n, a) => a + n <= N
           Bad == {n \in Nat : n >= 1 /\ ~ Inside(n)}
<1> SUFFICES ASSUME Bad # {} PROVE FALSE
  OBVIOUS
<1>1. PICK n \in Bad : \A k \in Bad : n <= k
  <2>1. Bad \subseteq Nat
    OBVIOUS
  <2> HIDE DEF Bad
  <2> QED BY <2>1, LeastNat
<1>2. n \in Nat /\ n >= 1 /\ ~ Inside(n)
  BY <1>1
<1>3. PICK a \in Nat : Held(n, a) /\ ~ a + n <= N
  BY <1>2
<1>4. ASSUME NEW k \in Nat, k >= 1, k < n
      PROVE  Inside(k)
  <2> HIDE DEF Inside
  <2> QED BY <1>1, <1>2, <1>4
<1> DEFINE s == Split(n)
<1> HIDE DEF Inside, Bad
<1>5. CASE IsStored(n, a)
  <2>1. PlanRange[n][a] = {Coordinate(n, a)}
    <3>1. n # 0
      BY <1>2
    <3> QED BY <1>2, <1>5, <3>1, PlanValue
  <2>2. Coordinate(n, a) \in DOMAIN StoredNodes(seq)
    BY <1>3, <2>1
  <2> QED BY <1>2, <1>3, <1>5, <2>2, StoredForm
<1>6. CASE ~ IsStored(n, a)
  <2>1. n > 1
    BY <1>2, <1>6, StoredOne
  <2>2. /\ s \in Nat /\ s >= 1 /\ s < n /\ n - s \in Nat /\ n - s >= 1 /\ n - s < n
        /\ a + s \in Nat
    <3>1. s \in Nat /\ s >= 1 /\ s < n
      BY <1>2, <2>1, SplitIn
    <3> HIDE DEF s
    <3> QED BY <1>2, <3>1
  <2>3. PlanRange[n][a] = PlanRange[s][a] \cup PlanRange[n - s][a + s]
    <3>1. n # 0
      BY <1>2
    <3> QED BY <1>2, <1>6, <3>1, PlanValue
  <2> HIDE DEF s
  <2>4. Held(n - s, a + s)
    BY <1>3, <2>3
  <2>5. (a + s) + (n - s) <= N
    BY <1>4, <2>2, <2>4 DEF Inside
  <2> QED BY <1>2, <1>3, <2>2, <2>5
<1> QED BY <1>5, <1>6

\* resolveRangePlan: over the store of a log, the root of any range inside it.
LEMMA ResolveExact ==
  ASSUME NEW seq, Len(seq) \in Nat, NEW size \in Nat, NEW start \in Nat,
         size + start <= Len(seq)
  PROVE  ResolveRange(StoredNodes(seq))[size][start] = RangeRoot(LeafHashes(seq))[size][start]
<1> DEFINE N == Len(seq)
           resolve == ResolveRange(StoredNodes(seq))
           root == RangeRoot(LeafHashes(seq))
           Exact(n) == \A a \in Nat : n + a <= N => resolve[n][a] = root[n][a]
           Bad == {n \in Nat : ~ Exact(n)}
<1> SUFFICES ASSUME Bad # {} PROVE FALSE
  OBVIOUS
<1>1. PICK n \in Bad : \A k \in Bad : n <= k
  <2>1. Bad \subseteq Nat
    OBVIOUS
  <2> HIDE DEF Bad
  <2> QED BY <2>1, LeastNat
<1>2. n \in Nat /\ ~ Exact(n)
  BY <1>1
<1>3. PICK a \in Nat : n + a <= N /\ resolve[n][a] # root[n][a]
  BY <1>2
<1>4. ASSUME NEW k \in Nat, k < n
      PROVE  Exact(k)
  <2> HIDE DEF Exact
  <2> QED BY <1>1, <1>2, <1>4
<1> DEFINE s == Split(n)
<1> HIDE DEF Exact, Bad
<1>5. CASE n = 0
  <2>1. resolve[n][a] = EmptyRoot
    BY <1>2, <1>5, ResolveValue
  <2>2. root[n][a] = EmptyRoot
    BY <1>2, <1>5, RootForm
  <2> QED BY <1>3, <2>1, <2>2
<1>6. CASE n # 0 /\ IsStored(n, a)
  <2>1. resolve[n][a] = StoredNodes(seq)[Coordinate(n, a)]
    BY <1>2, <1>6, ResolveValue
  <2>2. n >= 1 /\ a + n <= Len(seq)
    BY <1>2, <1>3, <1>6
  <2>3. StoredNodes(seq)[Coordinate(n, a)] = root[n][a]
    BY <1>2, <1>6, <2>2, StoredForm
  <2> QED BY <1>3, <2>1, <2>3
<1>7. CASE n # 0 /\ ~ IsStored(n, a)
  <2>1. n > 1
    BY <1>2, <1>7, StoredOne
  <2>2. /\ s \in Nat /\ s >= 1 /\ s < n /\ n - s \in Nat /\ n - s >= 1 /\ n - s < n
        /\ a + s \in Nat
    <3>1. s \in Nat /\ s >= 1 /\ s < n
      BY <1>2, <2>1, SplitIn
    <3> HIDE DEF s
    <3> QED BY <1>2, <3>1
  <2>3. resolve[n][a] = Node(resolve[s][a], resolve[n - s][a + s])
    BY <1>2, <1>7, ResolveValue
  <2>4. root[n][a] = Node(root[s][a], root[n - s][a + s])
    BY <1>2, <2>1, RootForm
  <2> HIDE DEF s, resolve, root
  <2>5. s + a <= N /\ (n - s) + (a + s) <= N
    BY <1>2, <1>3, <2>2
  <2>6. resolve[s][a] = root[s][a] /\ resolve[n - s][a + s] = root[n - s][a + s]
    BY <1>4, <2>2, <2>5 DEF Exact
  <2> QED BY <1>3, <2>3, <2>4, <2>6
<1> QED BY <1>5, <1>6, <1>7


LEMMA SameRoot ==
  ASSUME NEW g, NEW h, NEW size \in Nat, NEW start \in Nat,
         SameHashes(g, start, h, start, size)
  PROVE  RangeRoot(g)[size][start] = RangeRoot(h)[size][start]
<1>1. CASE size = 0
  <2>1. RangeRoot(g)[size][start] = EmptyRoot
    BY <1>1, RootForm
  <2>2. RangeRoot(h)[size][start] = EmptyRoot
    BY <1>1, RootForm
  <2> QED BY <2>1, <2>2
<1>2. CASE size # 0
  <2>1. size >= 1
    BY <1>2
  <2> QED BY <2>1, RootsCommit
<1> QED BY <1>1, <1>2

\* The root of a range inside a prefix of a log is the same in the log.
LEMMA PrefixRoot ==
  ASSUME NEW T, NEW seq \in Seq(T), NEW N \in Nat, N <= Len(seq),
         NEW size \in Nat, NEW start \in Nat, size + start <= N
  PROVE  RangeRoot(LeafHashes(SubSeq(seq, 1, N)))[size][start]
           = RangeRoot(LeafHashes(seq))[size][start]
<1> DEFINE prefix == SubSeq(seq, 1, N)
           g == LeafHashes(prefix)
           h == LeafHashes(seq)
<1>1. prefix \in Seq(T) /\ Len(prefix) = N /\ \A i \in 1..N : prefix[i] = seq[i]
  BY SubSeqProperties
<1> HIDE DEF prefix
<1>2. ASSUME NEW i \in 1..size
      PROVE  g[start + i] = h[start + i]
  <2>1. start + i \in 1..N /\ start + i \in DOMAIN prefix /\ start + i \in DOMAIN seq
    BY <1>1
  <2> QED BY <1>1, <2>1 DEF LeafHashes
<1> HIDE DEF g, h
<1>3. RangeRoot(g)[size][start] = RangeRoot(h)[size][start]
  <2>1. SameHashes(g, start, h, start, size)
    BY <1>2 DEF SameHashes
  <2> QED BY <2>1, SameRoot
<1> QED BY <1>3 DEF g, h, prefix

\* resolveRangePlan of each range: the path from the store is the path from the leaves.
LEMMA PathResolves ==
  ASSUME NEW T, NEW seq \in Seq(T), NEW N \in Nat, N <= Len(seq),
         NEW roots, NEW p \in Paths(roots), NEW r \in Paths(Ranges),
         Maps(RangeRoot(LeafHashes(SubSeq(seq, 1, N))), p, r, 0, N)
  PROVE  ResolvePath(r, StoredNodes(seq)) = p
<1> DEFINE item == RangeRoot(LeafHashes(SubSeq(seq, 1, N)))
           value(k) == ResolveRange(StoredNodes(seq))[r[k][1]][r[k][2]]
<1>1. Len(p) = Len(r)
  BY DEF Maps
<1>2. ASSUME NEW k \in 1..Len(r)
      PROVE  value(k) = p[k]
  <2>1. InRange(r[k], 0, N) /\ p[k] = item[r[k][1]][r[k][2]]
    BY DEF Maps
  <2>2. /\ r[k][1] \in Nat /\ r[k][2] \in Nat /\ Within(r[k][1], r[k][2], N, 0)
    BY <2>1 DEF InRange
  <2>3. PICK x \in Nat, y \in Nat : x = r[k][1] /\ y = r[k][2]
    BY <2>2
  <2>4. Within(x, y, N, 0)
    BY <2>2, <2>3
  <2>5. x + y <= N /\ x + y <= Len(seq)
    BY <2>4 DEF Within
  <2>6. item[x][y] = RangeRoot(LeafHashes(seq))[x][y]
    BY <2>5, PrefixRoot
  <2>7. ResolveRange(StoredNodes(seq))[x][y] = RangeRoot(LeafHashes(seq))[x][y]
    BY <2>5, ResolveExact
  <2> HIDE DEF item
  <2> QED BY <2>1, <2>3, <2>6, <2>7
<1>3. ResolvePath(r, StoredNodes(seq)) = [k \in 1..Len(r) |-> value(k)]
  <2> DEFINE R == Items(Ranges)
  <2>1. r \in Seq(R)
    BY DEF Paths
  <2> HIDE DEF R
  <2>2. DOMAIN r = 1..Len(r)
    BY <2>1
  <2> QED BY <2>2 DEF ResolvePath
<1>4. p = [k \in 1..Len(p) |-> p[k]]
  <2> DEFINE S == Items(roots)
  <2>1. p \in Seq(S)
    BY DEF Paths
  <2> HIDE DEF S
  <2> QED BY <2>1
<1> HIDE DEF value
<1> QED BY <1>1, <1>2, <1>3, <1>4

-------------------------------------------------------------------------------
(* Consistency paths, in the same way.                                            *)

ConsistencyEquation(path, item) ==
  path = [size \in Nat |-> [start \in Nat |-> [first \in Nat \ {0} |-> [complete \in BOOLEAN |->
           IF first >= size
           THEN IF complete THEN <<>> ELSE <<item[size][start]>>
           ELSE IF first <= Split(size)
           THEN Append(path[Split(size)][start][first][complete],
                       item[size - Split(size)][start + Split(size)])
           ELSE Append(path[size - Split(size)][start + Split(size)][first - Split(size)][FALSE],
                       item[Split(size)][start])]]]]

LEMMA ConsistencySolved == ASSUME NEW item PROVE \E path : ConsistencyEquation(path, item)
<1> DEFINE P == Seq(Items(item))
           B == [BOOLEAN -> P]
           W == [Nat \ {0} -> B]
           V == [Nat -> W]
           value(n, g, a, m, c) ==
             IF m >= n
             THEN IF c THEN <<>> ELSE <<item[n][a]>>
             ELSE IF m <= Split(n)
             THEN Append(g[Split(n)][a][m][c], item[n - Split(n)][a + Split(n)])
             ELSE Append(g[n - Split(n)][a + Split(n)][m - Split(n)][FALSE], item[Split(n)][a])
           step == [n \in Nat |-> [g \in [0..n - 1 -> V] |->
                     [a \in Nat |-> [m \in Nat \ {0} |-> [c \in BOOLEAN |-> value(n, g, a, m, c)]]]]]
<1>1. ASSUME NEW n \in Nat, NEW a \in Nat, NEW m \in Nat \ {0}, ~ m >= n
      PROVE  /\ Split(n) \in Nat /\ n - Split(n) \in Nat /\ a + Split(n) \in Nat
             /\ Split(n) \in 0..n - 1 /\ n - Split(n) \in 0..n - 1
             /\ ~ m <= Split(n) => m - Split(n) \in Nat \ {0}
  <2>1. n > 1
    BY <1>1
  <2>2. /\ Split(n) \in Nat /\ Split(n) >= 1 /\ Split(n) < n
        /\ n - Split(n) \in Nat /\ n - Split(n) < n
    BY <2>1, SplitIn
  <2> HIDE DEF P, value, step
  <2> QED BY <2>2
<1>2. ASSUME NEW n \in Nat, NEW g \in [0..n - 1 -> V]
      PROVE  /\ step[n][g] = [a \in Nat |-> [m \in Nat \ {0} |-> [c \in BOOLEAN |->
                               value(n, g, a, m, c)]]]
             /\ step[n][g] \in V
  <2>1. step[n][g] = [a \in Nat |-> [m \in Nat \ {0} |-> [c \in BOOLEAN |-> value(n, g, a, m, c)]]]
    <3> HIDE DEF value, V
    <3> QED OBVIOUS
  <2>2. ASSUME NEW a \in Nat, NEW m \in Nat \ {0}, NEW c \in BOOLEAN
        PROVE  value(n, g, a, m, c) \in P
    <3>1. CASE m >= n
      <4>1. item[n][a] \in Items(item)
        BY ItemIn
      <4>2. <<>> \in P /\ <<item[n][a]>> \in P
        <5> DEFINE I == Items(item)
                   x == item[n][a]
        <5> HIDE DEF I, x
        <5>1. <<>> \in Seq(I) /\ (x \in I => <<x>> \in Seq(I))
          OBVIOUS
        <5> QED BY <4>1, <5>1 DEF I, x
      <4> HIDE DEF P
      <4> QED BY <3>1, <4>2
    <3>2. CASE ~ m >= n
      <4>1. /\ Split(n) \in Nat /\ n - Split(n) \in Nat /\ a + Split(n) \in Nat
            /\ Split(n) \in 0..n - 1 /\ n - Split(n) \in 0..n - 1
            /\ ~ m <= Split(n) => m - Split(n) \in Nat \ {0}
        BY <1>1, <3>2
      <4>2. /\ item[n - Split(n)][a + Split(n)] \in Items(item)
            /\ item[Split(n)][a] \in Items(item)
        BY <4>1, ItemIn
      <4>3. /\ g[Split(n)][a][m][c] \in P
            /\ ~ m <= Split(n) => g[n - Split(n)][a + Split(n)][m - Split(n)][FALSE] \in P
        <5>1. g[Split(n)] \in V /\ g[n - Split(n)] \in V
          BY <4>1
        <5>2. g[Split(n)][a] \in W /\ g[n - Split(n)][a + Split(n)] \in W
          <6> HIDE DEF W
          <6> QED BY <4>1, <5>1
        <5>3. g[Split(n)][a][m] \in B
          <6> HIDE DEF B
          <6> QED BY <5>2
        <5>4. ~ m <= Split(n) => g[n - Split(n)][a + Split(n)][m - Split(n)] \in B
          <6> HIDE DEF B
          <6> QED BY <4>1, <5>2
        <5> HIDE DEF P
        <5> QED BY <5>3, <5>4
      <4> HIDE DEF V
      <4> QED BY <3>2, <4>2, <4>3, AppendProperties
    <3> QED BY <3>1, <3>2
  <2> HIDE DEF value, step, P
  <2> QED BY <2>1, <2>2
<1> HIDE DEF step, V
<1>3. PICK f : Solves(f, step, V)
  <2>1. Steps(step, V)
    BY <1>2 DEF Steps
  <2> QED BY <2>1, Recursion
<1>4. ASSUME NEW n \in Nat
      PROVE  f[n] = [a \in Nat |-> [m \in Nat \ {0} |-> [c \in BOOLEAN |-> value(n, f, a, m, c)]]]
  <2>1. Below(f, n) \in [0..n - 1 -> V]
    BY <1>3 DEF Below, Solves
  <2>2. f[n] = [a \in Nat |-> [m \in Nat \ {0} |-> [c \in BOOLEAN |->
                 value(n, Below(f, n), a, m, c)]]]
    <3> HIDE DEF value
    <3> QED BY <1>2, <1>3, <2>1 DEF Solves
  <2>3. ASSUME NEW a \in Nat, NEW m \in Nat \ {0}, NEW c \in BOOLEAN
        PROVE  value(n, Below(f, n), a, m, c) = value(n, f, a, m, c)
    <3>1. CASE ~ m >= n
      <4>1. Split(n) \in 0..n - 1 /\ n - Split(n) \in 0..n - 1
        BY <1>1, <3>1
      <4>2. /\ Below(f, n)[Split(n)] = f[Split(n)]
            /\ Below(f, n)[n - Split(n)] = f[n - Split(n)]
        BY <4>1 DEF Below
      <4> QED BY <3>1, <4>2
    <3>2. CASE m >= n
      BY <3>2
    <3> QED BY <3>1, <3>2
  <2> HIDE DEF value
  <2>4. ASSUME NEW a \in Nat, NEW m \in Nat \ {0}
        PROVE  [c \in BOOLEAN |-> value(n, Below(f, n), a, m, c)]
                 = [c \in BOOLEAN |-> value(n, f, a, m, c)]
    BY <2>3, Zenon
  <2> QED BY <2>2, <2>4
<1>5. ConsistencyEquation(f, item)
  <2>1. f = [n \in Nat |-> f[n]]
    BY <1>3 DEF Solves
  <2> QED BY <1>4, <2>1, Zenon DEF ConsistencyEquation
<1> QED BY <1>5

\* The two values of complete, and what the equation says for each.
Whole == TRUE
Part == FALSE

Continued(path, item, n, a, m, rest) ==
  IF m <= Split(n)
  THEN Append(path[Split(n)][a][m][rest], item[n - Split(n)][a + Split(n)])
  ELSE Append(path[n - Split(n)][a + Split(n)][m - Split(n)][Part], item[Split(n)][a])

Ended(item, n, a, complete) == IF complete THEN <<>> ELSE <<item[n][a]>>

LEMMA ConsistencyValue ==
  ASSUME NEW item, NEW path, ConsistencyEquation(path, item),
         NEW n \in Nat, NEW a \in Nat, NEW m \in Nat \ {0}
  PROVE  /\ path[n][a][m][Whole] =
              IF m >= n THEN Ended(item, n, a, Whole) ELSE Continued(path, item, n, a, m, Whole)
         /\ path[n][a][m][Part] =
              IF m >= n THEN Ended(item, n, a, Part) ELSE Continued(path, item, n, a, m, Part)
<1> DEFINE value(size, start, first, complete, rest) ==
             IF first >= size
             THEN Ended(item, size, start, complete)
             ELSE Continued(path, item, size, start, first, rest)
<1>1. path = [size \in Nat |-> [start \in Nat |-> [first \in Nat \ {0} |->
               [complete \in BOOLEAN |-> value(size, start, first, complete, complete)]]]]
  BY Zenon DEF ConsistencyEquation, Continued, Ended, Part
<1>2. path[n][a][m] = [complete \in BOOLEAN |-> value(n, a, m, complete, complete)]
  <2> HIDE DEF value
  <2> QED BY <1>1
<1>3. /\ path[n][a][m][Whole] = value(n, a, m, Whole, Whole)
      /\ path[n][a][m][Part] = value(n, a, m, Part, Part)
  <2>1. /\ path[n][a][m][TRUE] = value(n, a, m, TRUE, TRUE)
        /\ path[n][a][m][FALSE] = value(n, a, m, FALSE, FALSE)
    <3> HIDE DEF value
    <3> QED BY <1>2
  <2> HIDE DEF value
  <2> QED BY <2>1 DEF Whole, Part
<1> QED BY <1>3

LEMMA ConsistencyEnd ==
  ASSUME NEW item, NEW path, ConsistencyEquation(path, item),
         NEW n \in Nat, NEW a \in Nat, NEW m \in Nat \ {0}, m >= n
  PROVE  path[n][a][m][Whole] = <<>> /\ path[n][a][m][Part] = <<item[n][a]>>
<1>1. path[n][a][m][Whole] = Ended(item, n, a, Whole)
  BY ConsistencyValue
<1>2. path[n][a][m][Part] = Ended(item, n, a, Part)
  BY ConsistencyValue
<1>3. Ended(item, n, a, Whole) = <<>> /\ Ended(item, n, a, Part) = <<item[n][a]>>
  BY DEF Ended, Whole, Part
<1> QED BY <1>1, <1>2, <1>3

\* The equation, with names for the parts of the range.
ConsistencyParts(path, item, n, a, m, s, c, e) ==
  /\ m <= s => /\ path[n][a][m][Whole] = Then(path[s][a][m][Whole], item[c][e])
               /\ path[n][a][m][Part] = Then(path[s][a][m][Part], item[c][e])
  /\ \A l \in Nat \ {0} : Past(l, m, s) =>
       /\ path[n][a][m][Whole] = Then(path[c][e][l][Part], item[s][a])
       /\ path[n][a][m][Part] = Then(path[c][e][l][Part], item[s][a])

LEMMA ConsistencyForm ==
  ASSUME NEW item, NEW path, ConsistencyEquation(path, item),
         NEW n \in Nat, NEW a \in Nat, NEW m \in Nat \ {0}, m < n,
         NEW s \in Nat, NEW c \in Nat, NEW e \in Nat, Cut(n, a, s, c, e)
  PROVE  ConsistencyParts(path, item, n, a, m, s, c, e)
<1>1. ~ m >= n
  OBVIOUS
<1>2. path[n][a][m][Whole] = Continued(path, item, n, a, m, Whole)
  BY <1>1, ConsistencyValue
<1>3. path[n][a][m][Part] = Continued(path, item, n, a, m, Part)
  BY <1>1, ConsistencyValue
<1>4. Split(n) = s /\ n - Split(n) = c /\ a + Split(n) = e
  BY DEF Cut
<1>5. ASSUME m <= s, NEW rest
      PROVE  Continued(path, item, n, a, m, rest) = Then(path[s][a][m][rest], item[c][e])
  BY <1>4, <1>5 DEF Continued, Then
<1>6. ASSUME NEW l \in Nat \ {0}, Past(l, m, s), NEW rest
      PROVE  Continued(path, item, n, a, m, rest) = Then(path[c][e][l][Part], item[s][a])
  <2>1. m - Split(n) = l /\ ~ m <= Split(n)
    BY <1>4, <1>6 DEF Past
  <2> QED BY <1>4, <2>1 DEF Continued, Then
<1> QED BY <1>2, <1>3, <1>5, <1>6 DEF ConsistencyParts

LEMMA ConsistencyType ==
  ASSUME NEW item, NEW path, ConsistencyEquation(path, item)
  PROVE  \A size, start \in Nat : \A first \in Nat \ {0} :
           path[size][start][first][Whole] \in Paths(item) /\ path[size][start][first][Part] \in Paths(item)
<1> DEFINE Typed(n) == \A a \in Nat : \A m \in Nat \ {0} :
             path[n][a][m][Whole] \in Paths(item) /\ path[n][a][m][Part] \in Paths(item)
           Bad == {n \in Nat : ~ Typed(n)}
<1> SUFFICES ASSUME Bad # {} PROVE FALSE
  OBVIOUS
<1>1. PICK n \in Bad : \A k \in Bad : n <= k
  <2>1. Bad \subseteq Nat
    OBVIOUS
  <2> HIDE DEF Bad
  <2> QED BY <2>1, LeastNat
<1>2. n \in Nat /\ ~ Typed(n)
  BY <1>1
<1>3. PICK a \in Nat, m \in Nat \ {0} :
        ~ (path[n][a][m][Whole] \in Paths(item) /\ path[n][a][m][Part] \in Paths(item))
  BY <1>2
<1>4. ASSUME NEW k \in Nat, k < n
      PROVE  Typed(k)
  <2> HIDE DEF Typed
  <2> QED BY <1>1, <1>2, <1>4
<1> HIDE DEF Typed, Bad
<1>5. CASE m >= n
  <2>1. path[n][a][m][Whole] = <<>> /\ path[n][a][m][Part] = <<item[n][a]>>
    BY <1>2, <1>5, ConsistencyEnd
  <2>2. item[n][a] \in Items(item)
    BY <1>2, ItemIn
  <2> QED BY <1>3, <2>1, <2>2, PathsForm
<1>6. CASE ~ m >= n
  <2>1. m < n /\ n > 1
    BY <1>2, <1>6
  <2>2. PICK s \in Nat, c \in Nat, e \in Nat :
          Cut(n, a, s, c, e) /\ s >= 1 /\ s < n /\ c >= 1 /\ c < n
    BY <1>2, <2>1, Divided
  <2>3. Typed(s) /\ Typed(c)
    BY <1>4, <2>2
  <2>4. item[c][e] \in Items(item) /\ item[s][a] \in Items(item)
    BY ItemIn
  <2>5. ConsistencyParts(path, item, n, a, m, s, c, e)
    BY <1>2, <2>1, <2>2, ConsistencyForm
  <2>6. CASE m <= s
    <3>1. /\ path[n][a][m][Whole] = Then(path[s][a][m][Whole], item[c][e])
          /\ path[n][a][m][Part] = Then(path[s][a][m][Part], item[c][e])
      BY <2>6, <2>5 DEF ConsistencyParts
    <3>2. path[s][a][m][Whole] \in Paths(item) /\ path[s][a][m][Part] \in Paths(item)
      BY <2>3 DEF Typed
    <3>3. path[n][a][m][Whole] \in Paths(item)
      BY <2>4, <3>1, <3>2, ThenPath
    <3>4. path[n][a][m][Part] \in Paths(item)
      BY <2>4, <3>1, <3>2, ThenPath
    <3> QED BY <1>3, <3>3, <3>4
  <2>7. CASE ~ m <= s
    <3>1. PICK l \in Nat \ {0} : Past(l, m, s)
      BY <2>7, PastIs
    <3>2. /\ path[n][a][m][Whole] = Then(path[c][e][l][Part], item[s][a])
          /\ path[n][a][m][Part] = Then(path[c][e][l][Part], item[s][a])
      BY <2>5, <3>1 DEF ConsistencyParts
    <3>3. path[c][e][l][Part] \in Paths(item)
      BY <2>3 DEF Typed
    <3>4. Then(path[c][e][l][Part], item[s][a]) \in Paths(item)
      BY <2>4, <3>3, ThenPath
    <3> QED BY <1>3, <3>2, <3>4
  <2> QED BY <2>6, <2>7
<1> QED BY <1>5, <1>6

LEMMA ConsistencyMapped ==
  ASSUME NEW item, NEW path, ConsistencyEquation(path, item),
         NEW ranges, ConsistencyEquation(ranges, Ranges)
  PROVE  \A size \in Nat \ {0} : \A start \in Nat : \A first \in Nat \ {0} :
           /\ Maps(item, path[size][start][first][Whole], ranges[size][start][first][Whole],
                   start, size)
           /\ Maps(item, path[size][start][first][Part], ranges[size][start][first][Part],
                   start, size)
<1> DEFINE OfWhole(n, a, m) == Maps(item, path[n][a][m][Whole], ranges[n][a][m][Whole], a, n)
           OfPart(n, a, m) == Maps(item, path[n][a][m][Part], ranges[n][a][m][Part], a, n)
           Mapped(n) == \A a \in Nat : \A m \in Nat \ {0} : OfWhole(n, a, m) /\ OfPart(n, a, m)
           Bad == {n \in Nat \ {0} : ~ Mapped(n)}
<1> SUFFICES ASSUME Bad # {} PROVE FALSE
  OBVIOUS
<1>1. PICK n \in Bad : \A k \in Bad : n <= k
  <2>1. Bad \subseteq Nat
    OBVIOUS
  <2> HIDE DEF Bad
  <2> QED BY <2>1, LeastNat
<1>2. n \in Nat /\ n # 0 /\ ~ Mapped(n)
  BY <1>1
<1>3. PICK a \in Nat, m \in Nat \ {0} : ~ (OfWhole(n, a, m) /\ OfPart(n, a, m))
  BY <1>2
<1>4. ASSUME NEW k \in Nat, k >= 1, k < n
      PROVE  Mapped(k)
  <2> HIDE DEF Mapped
  <2> QED BY <1>1, <1>2, <1>4
<1> HIDE DEF Mapped, Bad
<1>5. CASE m >= n
  <2>1. path[n][a][m][Whole] = <<>> /\ path[n][a][m][Part] = <<item[n][a]>>
    BY <1>2, <1>5, ConsistencyEnd
  <2>2. ranges[n][a][m][Whole] = <<>> /\ ranges[n][a][m][Part] = <<Ranges[n][a]>>
    BY <1>2, <1>5, ConsistencyEnd
  <2>3. Maps(item, <<>>, <<>>, a, n)
    BY MapsEmpty
  <2>4. Maps(item, <<item[n][a]>>, <<Ranges[n][a]>>, a, n)
    BY <1>2, MapsOne
  <2> QED BY <1>3, <2>1, <2>2, <2>3, <2>4
<1>6. CASE ~ m >= n
  <2>1. m < n /\ n > 1
    BY <1>2, <1>6
  <2>2. PICK s \in Nat, c \in Nat, e \in Nat :
          /\ Cut(n, a, s, c, e) /\ s >= 1 /\ s < n /\ c >= 1 /\ c < n
          /\ Within(s, a, n, a) /\ Within(c, e, n, a)
    BY <1>2, <2>1, Divided
  <2>3. Mapped(s) /\ Mapped(c)
    BY <1>4, <2>2
  <2>4. ConsistencyParts(path, item, n, a, m, s, c, e)
    BY <1>2, <2>1, <2>2, ConsistencyForm
  <2>5. ConsistencyParts(ranges, Ranges, n, a, m, s, c, e)
    BY <1>2, <2>1, <2>2, ConsistencyForm
  <2>6. CASE m <= s
    <3> DEFINE p == path[s][a][m][Whole]
               q == path[s][a][m][Part]
               r == ranges[s][a][m][Whole]
               t == ranges[s][a][m][Part]
    <3>1. /\ path[n][a][m][Whole] = Then(p, item[c][e])
          /\ path[n][a][m][Part] = Then(q, item[c][e])
      BY <2>6, <2>4 DEF ConsistencyParts
    <3>2. /\ ranges[n][a][m][Whole] = Then(r, Ranges[c][e])
          /\ ranges[n][a][m][Part] = Then(t, Ranges[c][e])
      BY <2>6, <2>5 DEF ConsistencyParts
    <3>3. p \in Paths(item) /\ q \in Paths(item)
      BY ConsistencyType
    <3>4. r \in Paths(Ranges) /\ t \in Paths(Ranges)
      BY ConsistencyType
    <3>5. Maps(item, p, r, a, s) /\ Maps(item, q, t, a, s)
      BY <2>3 DEF Mapped
    <3> HIDE DEF p, q, r, t
    <3>6. Maps(item, Then(p, item[c][e]), Then(r, Ranges[c][e]), a, n)
      BY <1>2, <2>2, <3>3, <3>4, <3>5, MapsAppend
    <3>7. Maps(item, Then(q, item[c][e]), Then(t, Ranges[c][e]), a, n)
      BY <1>2, <2>2, <3>3, <3>4, <3>5, MapsAppend
    <3> QED BY <1>3, <3>1, <3>2, <3>6, <3>7
  <2>7. CASE ~ m <= s
    <3>1. PICK l \in Nat \ {0} : Past(l, m, s)
      BY <2>7, PastIs
    <3> DEFINE p == path[c][e][l][Part]
               r == ranges[c][e][l][Part]
    <3>2. /\ path[n][a][m][Whole] = Then(p, item[s][a])
          /\ path[n][a][m][Part] = Then(p, item[s][a])
      BY <2>4, <3>1 DEF ConsistencyParts
    <3>3. /\ ranges[n][a][m][Whole] = Then(r, Ranges[s][a])
          /\ ranges[n][a][m][Part] = Then(r, Ranges[s][a])
      BY <2>5, <3>1 DEF ConsistencyParts
    <3>4. p \in Paths(item)
      BY ConsistencyType
    <3>5. r \in Paths(Ranges)
      BY ConsistencyType
    <3>6. Maps(item, p, r, e, c)
      BY <2>3 DEF Mapped
    <3> HIDE DEF p, r
    <3>7. Maps(item, Then(p, item[s][a]), Then(r, Ranges[s][a]), a, n)
      BY <1>2, <2>2, <3>4, <3>5, <3>6, MapsAppend
    <3> QED BY <1>3, <3>2, <3>3, <3>7
  <2> QED BY <2>6, <2>7
<1> QED BY <1>5, <1>6

LEMMA ConsistencyPathSolves ==
  ASSUME NEW hashes PROVE ConsistencyEquation(BuildConsistencyPath(hashes), RangeRoot(hashes))
<1>1. BuildConsistencyPath(hashes) = CHOOSE path : ConsistencyEquation(path, RangeRoot(hashes))
  BY DEF BuildConsistencyPath, ConsistencyEquation, Split
<1> QED BY <1>1, ConsistencySolved

LEMMA StoredConsistencySolves == ConsistencyEquation(StoredConsistencyRanges, Ranges)
<1> DEFINE value(path, size, start, first, complete) ==
             IF first >= size
             THEN IF complete THEN <<>> ELSE <<<<size, start>>>>
             ELSE IF first <= Split(size)
             THEN Append(path[Split(size)][start][first][complete],
                         <<size - Split(size), start + Split(size)>>)
             ELSE Append(path[size - Split(size)][start + Split(size)][first - Split(size)][FALSE],
                         <<Split(size), start>>)
           other(path, size, start, first, complete) ==
             IF first >= size
             THEN IF complete THEN <<>> ELSE <<Ranges[size][start]>>
             ELSE IF first <= Split(size)
             THEN Append(path[Split(size)][start][first][complete],
                         Ranges[size - Split(size)][start + Split(size)])
             ELSE Append(path[size - Split(size)][start + Split(size)][first - Split(size)][FALSE],
                         Ranges[Split(size)][start])
           Stored(path) == path = [size \in Nat |-> [start \in Nat |-> [first \in Nat \ {0} |->
                             [complete \in BOOLEAN |-> value(path, size, start, first, complete)]]]]
           Same(path) == path = [size \in Nat |-> [start \in Nat |-> [first \in Nat \ {0} |->
                           [complete \in BOOLEAN |-> other(path, size, start, first, complete)]]]]
<1>1. ASSUME NEW path, NEW size \in Nat, NEW start \in Nat, NEW first \in Nat \ {0},
             NEW complete \in BOOLEAN
      PROVE  value(path, size, start, first, complete) = other(path, size, start, first, complete)
  <2>1. Ranges[size][start] = <<size, start>>
    BY DEF Ranges
  <2>2. ~ first >= size => /\ Ranges[size - Split(size)][start + Split(size)]
                                = <<size - Split(size), start + Split(size)>>
                           /\ Ranges[Split(size)][start] = <<Split(size), start>>
    <3>1. ~ first >= size => size > 1
      OBVIOUS
    <3>2. ~ first >= size => /\ Split(size) \in Nat /\ size - Split(size) \in Nat
                             /\ start + Split(size) \in Nat
      BY <3>1, SplitIn
    <3> QED BY <3>2 DEF Ranges
  <2> QED BY <2>1, <2>2
<1>2. StoredConsistencyRanges = CHOOSE path : Stored(path)
  BY DEF StoredConsistencyRanges, Split
<1>3. ASSUME NEW path
      PROVE  Stored(path) <=> Same(path)
  <2> HIDE DEF value, other
  <2>1. ASSUME NEW size \in Nat, NEW start \in Nat, NEW first \in Nat \ {0}
        PROVE  [complete \in BOOLEAN |-> value(path, size, start, first, complete)]
                 = [complete \in BOOLEAN |-> other(path, size, start, first, complete)]
    BY <1>1
  <2> QED BY <2>1
<1>4. ASSUME NEW path
      PROVE  Same(path) <=> ConsistencyEquation(path, Ranges)
  BY DEF ConsistencyEquation
<1> HIDE DEF Stored, Same
<1> QED BY <1>2, <1>3, <1>4, ConsistencySolved


\* The hashes of a log, and of a prefix of it.
LEMMA HashesOf ==
  ASSUME NEW T, NEW seq \in Seq(T)
  PROVE  /\ Len(LeafHashes(seq)) = Len(seq) /\ Len(seq) \in Nat
         /\ LeafHashes(seq) \in Seq({Leaf(x) : x \in T})
         /\ \A i \in 1..Len(seq) : LeafHashes(seq)[i] = Leaf(seq[i])
<1>1. DOMAIN seq = 1..Len(seq) /\ Len(seq) \in Nat /\ \A i \in 1..Len(seq) : seq[i] \in T
  OBVIOUS
<1> DEFINE L == {Leaf(x) : x \in T}
<1>2. ASSUME NEW i \in 1..Len(seq)
      PROVE  Leaf(seq[i]) \in L
  BY <1>1
<1> HIDE DEF L
<1>3. LeafHashes(seq) = [i \in 1..Len(seq) |-> Leaf(seq[i])]
  BY <1>1 DEF LeafHashes
<1>4. LeafHashes(seq) \in [1..Len(seq) -> L]
  BY <1>2, <1>3
<1>5. LeafHashes(seq) \in Seq(L) /\ Len(LeafHashes(seq)) = Len(seq)
  BY <1>1, <1>4
<1> QED BY <1>1, <1>3, <1>5 DEF L

LEMMA PrefixHashes ==
  ASSUME NEW T, NEW seq \in Seq(T), NEW n \in Nat, n <= Len(seq)
  PROVE  LeafHashes(SubSeq(seq, 1, n)) = SubSeq(LeafHashes(seq), 1, n)
<1> DEFINE p == SubSeq(seq, 1, n)
           h == LeafHashes(seq)
           q == SubSeq(h, 1, n)
           L == {Leaf(x) : x \in T}
<1>1. p \in Seq(T) /\ Len(p) = n /\ \A i \in 1..n : p[i] = seq[i]
  BY SubSeqProperties
<1>2. h \in Seq(L) /\ Len(h) = Len(seq) /\ \A i \in 1..Len(seq) : h[i] = Leaf(seq[i])
  BY HashesOf
<1> HIDE DEF h, p, L
<1>3. q \in Seq(L) /\ Len(q) = n /\ \A i \in 1..n : q[i] = h[i]
  BY <1>2, SubSeqProperties
<1>4. LeafHashes(p) \in Seq(L) /\ Len(LeafHashes(p)) = n
      /\ \A i \in 1..n : LeafHashes(p)[i] = Leaf(p[i])
  BY <1>1, HashesOf DEF L
<1> HIDE DEF q
<1>5. ASSUME NEW i \in 1..n
      PROVE  LeafHashes(p)[i] = q[i]
  <2>1. LeafHashes(p)[i] = Leaf(p[i]) /\ p[i] = seq[i] /\ q[i] = h[i]
    BY <1>1, <1>3, <1>4
  <2>2. i \in 1..Len(seq)
    OBVIOUS
  <2>3. h[i] = Leaf(seq[i])
    BY <1>2, <2>2
  <2> QED BY <2>1, <2>3
<1>6. LeafHashes(p) = q
  <2> DEFINE g == LeafHashes(p)
  <2>1. g \in Seq(L) /\ q \in Seq(L) /\ Len(g) = Len(q) /\ \A i \in 1..Len(q) : g[i] = q[i]
    BY <1>3, <1>4, <1>5
  <2> HIDE DEF g
  <2>2. g = q
    BY <2>1
  <2> QED BY <2>2 DEF g
<1> QED BY <1>6 DEF p, q, h

\* createStoredMerkleConsistencyProof: what the store makes when it has every coordinate.
LEMMA StoreIsExact ==
  ASSUME NEW T, NEW seq \in Seq(T), NEW first \in Nat, NEW second \in Nat, first <= second,
         RequestedCoordinates(first, second) \subseteq DOMAIN StoredNodes(seq)
  PROVE  LET leaves == SubSeq(seq, 1, second)
             hashes == LeafHashes(leaves)
             nodes  == StoredNodes(seq)
         IN  /\ second <= Len(seq) /\ leaves \in Seq(T) /\ Len(leaves) = second
             /\ ResolveRange(nodes)[second][0] = SubtreeRoot(hashes)
             /\ ResolveRange(nodes)[first][0] = SubtreeRoot(SubSeq(hashes, 1, first))
             /\ ResolvePath(ConsistencyRanges(first, second), nodes) = ConsistencyPath(hashes, first)
<1> DEFINE leaves == SubSeq(seq, 1, second)
           hashes == LeafHashes(leaves)
           nodes == StoredNodes(seq)
<1>1. Len(seq) \in Nat
  OBVIOUS
<1>2. second <= Len(seq)
  <2>1. CASE second = 0
    BY <1>1, <2>1
  <2>2. CASE second # 0
    <3>1. PlanRange[second][0] \subseteq DOMAIN nodes
      BY DEF RequestedCoordinates
    <3>2. second >= 1 /\ 0 \in Nat
      BY <2>2
    <3>3. 0 + second <= Len(seq)
      BY <1>1, <3>1, <3>2, PlanInside
    <3> QED BY <3>3
  <2> QED BY <2>1, <2>2
<1>3. leaves \in Seq(T) /\ Len(leaves) = second
  BY <1>2, SubSeqProperties
<1>4. Len(hashes) = second /\ hashes \in Seq({Leaf(x) : x \in T})
  BY <1>3, HashesOf
<1>5. ASSUME NEW n \in Nat, n <= second
      PROVE  ResolveRange(nodes)[n][0] = RangeRoot(LeafHashes(SubSeq(seq, 1, n)))[n][0]
  <2>1. 0 \in Nat /\ n + 0 <= Len(seq) /\ n + 0 <= n /\ n <= Len(seq)
    BY <1>1, <1>2, <1>5
  <2>2. ResolveRange(nodes)[n][0] = RangeRoot(LeafHashes(seq))[n][0]
    BY <1>1, <2>1, ResolveExact
  <2>3. RangeRoot(LeafHashes(SubSeq(seq, 1, n)))[n][0] = RangeRoot(LeafHashes(seq))[n][0]
    BY <2>1, PrefixRoot
  <2> QED BY <2>2, <2>3
<1>6. ResolveRange(nodes)[second][0] = SubtreeRoot(hashes)
  BY <1>4, <1>5 DEF SubtreeRoot
<1>7. ResolveRange(nodes)[first][0] = SubtreeRoot(SubSeq(hashes, 1, first))
  <2> DEFINE head == SubSeq(seq, 1, first)
  <2>1. head \in Seq(T) /\ Len(head) = first
    BY <1>2, SubSeqProperties
  <2>2. SubSeq(leaves, 1, first) = head
    <3>1. SubSeq(leaves, 1, first) \in Seq(T) /\ Len(SubSeq(leaves, 1, first)) = first
          /\ \A i \in 1..first : SubSeq(leaves, 1, first)[i] = leaves[i]
      <4> HIDE DEF leaves
      <4> QED BY <1>3, SubSeqProperties
    <3>2. \A i \in 1..second : leaves[i] = seq[i]
      BY <1>2, SubSeqProperties
    <3>3. \A i \in 1..first : head[i] = seq[i]
      BY <1>2, SubSeqProperties
    <3> DEFINE p == SubSeq(leaves, 1, first)
    <3>4. p \in Seq(T) /\ head \in Seq(T) /\ Len(p) = Len(head)
          /\ \A i \in 1..Len(head) : p[i] = head[i]
      BY <2>1, <3>1, <3>2, <3>3
    <3> HIDE DEF p, head
    <3>5. p = head
      BY <3>4
    <3> QED BY <3>5 DEF p
  <2>3. SubSeq(hashes, 1, first) = LeafHashes(head)
    <3>1. first <= Len(leaves)
      BY <1>3
    <3>2. LeafHashes(SubSeq(leaves, 1, first)) = SubSeq(LeafHashes(leaves), 1, first)
      <4> HIDE DEF leaves
      <4> QED BY <1>3, <3>1, PrefixHashes
    <3> QED BY <2>2, <3>2
  <2>4. Len(LeafHashes(head)) = first
    BY <2>1, HashesOf
  <2>5. ResolveRange(nodes)[first][0] = RangeRoot(LeafHashes(head))[first][0]
    BY <1>5
  <2> HIDE DEF head, hashes
  <2> QED BY <2>3, <2>4, <2>5 DEF SubtreeRoot
<1>8. ResolvePath(ConsistencyRanges(first, second), nodes) = ConsistencyPath(hashes, first)
  <2>1. CASE first = 0 \/ first = second
    <3>1. ConsistencyRanges(first, second) = <<>> /\ ConsistencyPath(hashes, first) = <<>>
      BY <1>4, <2>1 DEF ConsistencyRanges, ConsistencyPath
    <3>2. ResolvePath(<<>>, nodes) = <<>>
      BY DEF ResolvePath
    <3> QED BY <3>1, <3>2
  <2>2. CASE ~ (first = 0 \/ first = second)
    <3> DEFINE p == BuildConsistencyPath(hashes)[second][0][first][Whole]
               r == StoredConsistencyRanges[second][0][first][Whole]
               item == RangeRoot(hashes)
    <3>1. ConsistencyRanges(first, second) = r /\ ConsistencyPath(hashes, first) = p
      <4>1. ConsistencyRanges(first, second) = r
        BY <2>2 DEF ConsistencyRanges, Whole
      <4>2. ConsistencyPath(hashes, first) = BuildConsistencyPath(hashes)[Len(hashes)][0][first][Whole]
        <5> HIDE DEF hashes
        <5> QED BY <1>4, <2>2 DEF ConsistencyPath, Whole
      <4> QED BY <1>4, <4>1, <4>2
    <3>2. second \in Nat \ {0} /\ 0 \in Nat /\ first \in Nat \ {0}
      BY <2>2
    <3>3. ConsistencyEquation(BuildConsistencyPath(hashes), item)
      BY ConsistencyPathSolves
    <3>4. p \in Paths(item)
      <4> HIDE DEF hashes, item
      <4> QED BY <3>2, <3>3, ConsistencyType
    <3>5. r \in Paths(Ranges)
      BY <3>2, StoredConsistencySolves, ConsistencyType
    <3>6. Maps(item, p, r, 0, second)
      <4> HIDE DEF hashes, item
      <4> QED BY <3>2, <3>3, StoredConsistencySolves, ConsistencyMapped
    <3> HIDE DEF p, r
    <3>7. ResolvePath(r, nodes) = p
      BY <1>2, <3>4, <3>5, <3>6, PathResolves
    <3> QED BY <3>1, <3>7
  <2> QED BY <2>1, <2>2
<1> QED BY <1>2, <1>3, <1>6, <1>7, <1>8


\* The same for an inclusion proof that the store of a log makes.
LEMMA StoredAuditIsExact ==
  ASSUME NEW T, NEW seq \in Seq(T), NEW index \in Nat
  PROVE  ResolvePath(StoredAuditRanges[Len(seq)][0][index], StoredNodes(seq))
           = AuditPath(LeafHashes(seq), index)
<1> DEFINE N == Len(seq)
           hashes == LeafHashes(seq)
           item == RangeRoot(hashes)
           p == BuildAuditPath(hashes)[N][0][index]
           r == StoredAuditRanges[N][0][index]
<1>1. N \in Nat /\ 0 \in Nat /\ N <= Len(seq)
  OBVIOUS
<1>2. SubSeq(seq, 1, N) = seq
  <2> DEFINE q == SubSeq(seq, 1, N)
  <2>1. q \in Seq(T) /\ Len(q) = N /\ \A i \in 1..N : q[i] = seq[i]
    BY <1>1, SubSeqProperties
  <2> HIDE DEF q
  <2>2. q = seq
    BY <2>1
  <2> QED BY <2>2 DEF q
<1>3. AuditEquation(BuildAuditPath(hashes), item)
  BY AuditPathSolves
<1>4. p \in Paths(item)
  <2> HIDE DEF hashes, item, N
  <2> QED BY <1>1, <1>3, AuditType
<1>5. r \in Paths(Ranges)
  <2> HIDE DEF N
  <2> QED BY <1>1, StoredAuditSolves, AuditType
<1>6. Maps(item, p, r, 0, N)
  <2> HIDE DEF hashes, item, N
  <2> QED BY <1>1, <1>3, StoredAuditSolves, AuditMapped
<1>7. AuditPath(hashes, index) = p
  <2>1. Len(hashes) = N
    BY HashesOf
  <2> HIDE DEF hashes, N
  <2> QED BY <2>1 DEF AuditPath
<1> HIDE DEF p, r
<1>8. Maps(RangeRoot(LeafHashes(SubSeq(seq, 1, N))), p, r, 0, N)
  BY <1>2, <1>6
<1>9. ResolvePath(r, StoredNodes(seq)) = p
  BY <1>1, <1>4, <1>5, <1>8, PathResolves
<1> QED BY <1>7, <1>9 DEF r

-------------------------------------------------------------------------------
(* Inclusion: reconstructRoot takes as many nodes as the audit path has, and makes  *)
(* the root exactly when it starts from the leaf and takes the nodes of that path.  *)

\* A node of the proof goes to the right of what was built, or to its left.
OnRight(proof, child) ==
  [root |-> Node(child.root, NextProofNode(proof, child.used)), used |-> child.used + 1]
OnLeft(proof, child) ==
  [root |-> Node(NextProofNode(proof, child.used), child.root), used |-> child.used + 1]

RebuildEquation(build, leafHash, proof) ==
  build = [size \in Nat |-> [index \in Nat |->
            IF size <= 1 THEN [root |-> leafHash, used |-> 0]
            ELSE IF index < Split(size) THEN OnRight(proof, build[Split(size)][index])
            ELSE OnLeft(proof, build[size - Split(size)][index - Split(size)])]]

LEMMA RebuildSolved ==
  ASSUME NEW leafHash, NEW proof
  PROVE  RebuildEquation(ReconstructRoot(leafHash, proof), leafHash, proof)
<1> DEFINE S == {leafHash} \cup {NextProofNode(proof, k) : k \in Nat}
<1>1. PICK H : S \subseteq H /\ Closed(H)
  BY Closure
<1> DEFINE R == [root : H, used : Nat]
           V == [Nat -> R]
           value(n, g, i) ==
             IF n <= 1 THEN [root |-> leafHash, used |-> 0]
             ELSE IF i < Split(n) THEN OnRight(proof, g[Split(n)][i])
             ELSE OnLeft(proof, g[n - Split(n)][i - Split(n)])
           step == [n \in Nat |-> [g \in [0..n - 1 -> V] |-> [i \in Nat |-> value(n, g, i)]]]
<1>2. ASSUME NEW child \in R
      PROVE  OnRight(proof, child) \in R /\ OnLeft(proof, child) \in R
  <2>1. child.root \in H /\ child.used \in Nat /\ child.used + 1 \in Nat
    OBVIOUS
  <2>2. NextProofNode(proof, child.used) \in H
    BY <1>1, <2>1
  <2>3. /\ Node(child.root, NextProofNode(proof, child.used)) \in H
        /\ Node(NextProofNode(proof, child.used), child.root) \in H
    BY <1>1, <2>1, <2>2 DEF Closed
  <2> QED BY <2>1, <2>3 DEF OnRight, OnLeft
<1>3. ASSUME NEW n \in Nat, ~ n <= 1
      PROVE  /\ Split(n) \in 0..n - 1 /\ n - Split(n) \in 0..n - 1
             /\ \A i \in Nat : ~ i < Split(n) => i - Split(n) \in Nat
  <2>1. n > 1
    BY <1>3
  <2>2. Split(n) \in Nat /\ Split(n) >= 1 /\ Split(n) < n
    BY <2>1, SplitIn
  <2> QED BY <2>2
<1>4. ASSUME NEW n \in Nat, NEW g \in [0..n - 1 -> V]
      PROVE  /\ step[n][g] = [i \in Nat |-> value(n, g, i)]
             /\ step[n][g] \in V
  <2>1. step[n][g] = [i \in Nat |-> value(n, g, i)]
    <3> HIDE DEF value, V
    <3> QED OBVIOUS
  <2>2. ASSUME NEW i \in Nat
        PROVE  value(n, g, i) \in R
    <3>1. CASE n <= 1
      BY <1>1, <3>1
    <3>2. CASE ~ n <= 1 /\ i < Split(n)
      <4>1. g[Split(n)] \in V
        BY <1>3, <3>2
      <4> HIDE DEF R
      <4>2. g[Split(n)][i] \in R
        BY <4>1
      <4> QED BY <1>2, <3>2, <4>2
    <3>3. CASE ~ n <= 1 /\ ~ i < Split(n)
      <4>1. g[n - Split(n)] \in V /\ i - Split(n) \in Nat
        BY <1>3, <3>3
      <4> HIDE DEF R
      <4>2. g[n - Split(n)][i - Split(n)] \in R
        BY <4>1
      <4> QED BY <1>2, <3>3, <4>2
    <3> QED BY <3>1, <3>2, <3>3
  <2> HIDE DEF value, step, R
  <2> QED BY <2>1, <2>2
<1> HIDE DEF step, V
<1>5. PICK f : Solves(f, step, V)
  <2>1. Steps(step, V)
    BY <1>4 DEF Steps
  <2> QED BY <2>1, Recursion
<1>6. ASSUME NEW n \in Nat
      PROVE  f[n] = [i \in Nat |-> value(n, f, i)]
  <2>1. Below(f, n) \in [0..n - 1 -> V]
    BY <1>5 DEF Below, Solves
  <2>2. f[n] = [i \in Nat |-> value(n, Below(f, n), i)]
    <3> HIDE DEF value
    <3> QED BY <1>4, <1>5, <2>1 DEF Solves
  <2>3. ASSUME NEW i \in Nat
        PROVE  value(n, Below(f, n), i) = value(n, f, i)
    <3>1. CASE ~ n <= 1
      <4>1. Split(n) \in 0..n - 1 /\ n - Split(n) \in 0..n - 1
        BY <1>3, <3>1
      <4>2. /\ Below(f, n)[Split(n)] = f[Split(n)]
            /\ Below(f, n)[n - Split(n)] = f[n - Split(n)]
        BY <4>1 DEF Below
      <4> QED BY <3>1, <4>2
    <3>2. CASE n <= 1
      BY <3>2
    <3> QED BY <3>1, <3>2
  <2> HIDE DEF value
  <2> QED BY <2>2, <2>3
<1>7. RebuildEquation(f, leafHash, proof)
  <2>1. f = [n \in Nat |-> f[n]]
    BY <1>5 DEF Solves
  <2> QED BY <1>6, <2>1 DEF RebuildEquation
<1>8. ReconstructRoot(leafHash, proof) = CHOOSE build : RebuildEquation(build, leafHash, proof)
  BY DEF ReconstructRoot, RebuildEquation, OnRight, OnLeft, Split
<1> QED BY <1>7, <1>8

RebuiltOnRight(leafHash, proof, n, i) ==
  OnRight(proof, ReconstructRoot(leafHash, proof)[Split(n)][i])
RebuiltOnLeft(leafHash, proof, n, i) ==
  OnLeft(proof, ReconstructRoot(leafHash, proof)[n - Split(n)][i - Split(n)])

LEMMA RebuildValue ==
  ASSUME NEW leafHash, NEW proof, NEW n \in Nat, NEW i \in Nat
  PROVE  /\ n <= 1 => ReconstructRoot(leafHash, proof)[n][i] = [root |-> leafHash, used |-> 0]
         /\ n > 1 /\ i < Split(n) =>
              ReconstructRoot(leafHash, proof)[n][i] = RebuiltOnRight(leafHash, proof, n, i)
         /\ n > 1 /\ ~ i < Split(n) =>
              ReconstructRoot(leafHash, proof)[n][i] = RebuiltOnLeft(leafHash, proof, n, i)
<1> DEFINE build == ReconstructRoot(leafHash, proof)
           value(size, index) ==
             IF size <= 1 THEN [root |-> leafHash, used |-> 0]
             ELSE IF index < Split(size) THEN OnRight(proof, build[Split(size)][index])
             ELSE OnLeft(proof, build[size - Split(size)][index - Split(size)])
<1>1. build = [size \in Nat |-> [index \in Nat |-> value(size, index)]]
  BY RebuildSolved DEF RebuildEquation
<1>2. build[n][i] = value(n, i)
  <2> HIDE DEF value, build
  <2> QED BY <1>1
<1> HIDE DEF build
<1>3. /\ n <= 1 => build[n][i] = [root |-> leafHash, used |-> 0]
      /\ n > 1 /\ i < Split(n) => build[n][i] = OnRight(proof, build[Split(n)][i])
      /\ n > 1 /\ ~ i < Split(n) => build[n][i] = OnLeft(proof, build[n - Split(n)][i - Split(n)])
  BY <1>2
<1> QED BY <1>3 DEF build, RebuiltOnRight, RebuiltOnLeft


\* The equation, with names for the parts of the range.
RebuildParts(build, proof, n, i, s, c) ==
  /\ i < s => build[n][i] = OnRight(proof, build[s][i])
  /\ \A l \in Nat : Beyond(l, i, s) => build[n][i] = OnLeft(proof, build[c][l])

LEMMA RebuildForm ==
  ASSUME NEW leafHash, NEW proof, NEW n \in Nat, n > 1, NEW i \in Nat,
         NEW a, NEW s, NEW c, NEW e, Cut(n, a, s, c, e)
  PROVE  RebuildParts(ReconstructRoot(leafHash, proof), proof, n, i, s, c)
<1>1. Split(n) = s /\ n - Split(n) = c
  BY DEF Cut
<1>2. ASSUME i < s
      PROVE  ReconstructRoot(leafHash, proof)[n][i]
               = OnRight(proof, ReconstructRoot(leafHash, proof)[s][i])
  <2>1. ReconstructRoot(leafHash, proof)[n][i] = RebuiltOnRight(leafHash, proof, n, i)
    BY <1>1, <1>2, RebuildValue
  <2> QED BY <1>1, <2>1 DEF RebuiltOnRight
<1>3. ASSUME NEW l \in Nat, Beyond(l, i, s)
      PROVE  ReconstructRoot(leafHash, proof)[n][i]
               = OnLeft(proof, ReconstructRoot(leafHash, proof)[c][l])
  <2>1. i - Split(n) = l /\ ~ i < Split(n)
    BY <1>1, <1>3 DEF Beyond
  <2>2. ReconstructRoot(leafHash, proof)[n][i] = RebuiltOnLeft(leafHash, proof, n, i)
    BY <2>1, RebuildValue
  <2> QED BY <1>1, <2>1, <2>2 DEF RebuiltOnLeft
<1> QED BY <1>2, <1>3 DEF RebuildParts

\* A proof whose first nodes are those of a path.
Begins(proof, path) == \A k \in 1..Len(path) : proof[k] = path[k]

LEMMA BeginsAppend ==
  ASSUME NEW item, NEW path \in Paths(item), NEW x, NEW proof
  PROVE  /\ Begins(proof, Then(path, x)) => Begins(proof, path) /\ proof[Len(path) + 1] = x
         /\ Begins(proof, path) /\ proof[Len(path) + 1] = x => Begins(proof, Then(path, x))
<1> DEFINE p == Then(path, x)
<1>1. /\ Len(path) \in Nat /\ Len(p) = Len(path) + 1
      /\ \A k \in 1..Len(path) : p[k] = path[k]
      /\ p[Len(path) + 1] = x
  BY ThenForm
<1> HIDE DEF p
<1>2. ASSUME Begins(proof, p)
      PROVE  Begins(proof, path) /\ proof[Len(path) + 1] = x
  BY <1>1, <1>2 DEF Begins
<1>3. ASSUME Begins(proof, path), proof[Len(path) + 1] = x
      PROVE  Begins(proof, p)
  <2>1. ASSUME NEW k \in 1..Len(p)
        PROVE  proof[k] = p[k]
    <3>1. k \in 1..Len(path) \/ k = Len(path) + 1
      BY <1>1
    <3> QED BY <1>1, <1>3, <3>1 DEF Begins
  <2> QED BY <2>1 DEF Begins
<1> QED BY <1>2, <1>3 DEF p

Rebuilt(hashes, leafHash, proof, n, a, j) ==
  LET path  == BuildAuditPath(hashes)[n][a][j]
      built == ReconstructRoot(leafHash, proof)[n][j]
      exact == leafHash = hashes[a + j + 1] /\ Begins(proof, path)
  IN  /\ built.used = Len(path)
      /\ Len(path) <= Len(proof) =>
           /\ built.root = RangeRoot(hashes)[n][a] => exact
           /\ exact => built.root = RangeRoot(hashes)[n][a]

\* The node that the proof has after those of a path.
NextOf(proof, path) == proof[Len(path) + 1]

IsSequence(proof) == Len(proof) \in Nat /\ DOMAIN proof = 1..Len(proof)

LEMMA NextIs ==
  ASSUME NEW item, NEW path \in Paths(item), NEW x, NEW proof, IsSequence(proof),
         NEW child, child.used = Len(path)
  PROVE  /\ OnRight(proof, child).used = Len(Then(path, x))
         /\ OnLeft(proof, child).used = Len(Then(path, x))
         /\ Len(Then(path, x)) <= Len(proof) =>
              /\ Len(path) <= Len(proof)
              /\ OnRight(proof, child).root = Node(child.root, NextOf(proof, path))
              /\ OnLeft(proof, child).root = Node(NextOf(proof, path), child.root)
<1> DEFINE M == Len(path)
           N == Len(proof)
<1>1. M \in Nat /\ Len(Then(path, x)) = M + 1
  BY ThenForm
<1>2. N \in Nat /\ DOMAIN proof = 1..N
  BY DEF IsSequence
<1>3. OnRight(proof, child).used = M + 1 /\ OnLeft(proof, child).used = M + 1
  BY DEF OnRight, OnLeft
<1>4. ASSUME M + 1 <= N
      PROVE  /\ M <= N
             /\ NextProofNode(proof, child.used) = NextOf(proof, path)
  <2>1. M <= N /\ M + 1 \in 1..N
    BY <1>1, <1>2, <1>4
  <2> QED BY <1>2, <2>1 DEF NextProofNode, NextOf
<1>5. /\ OnRight(proof, child).root = Node(child.root, NextProofNode(proof, child.used))
      /\ OnLeft(proof, child).root = Node(NextProofNode(proof, child.used), child.root)
  BY DEF OnRight, OnLeft
<1> QED BY <1>1, <1>3, <1>4, <1>5

LEMMA NodeInjective ==
  ASSUME NEW x, NEW y, NEW u, NEW v
  PROVE  Node(x, y) = Node(u, v) => x = u /\ y = v
BY DEF Node

\* A hash is rebuilt exactly: it is the hash of the range just when the leaf is the one
\* that is asked for and the proof begins with its path.
Exactly(used, hash, path, is, proof, root) ==
  /\ used = Len(path)
  /\ Len(path) <= Len(proof) => /\ hash = root => is /\ Begins(proof, path)
                                /\ is /\ Begins(proof, path) => hash = root

LEMMA ExactOnRight ==
  ASSUME NEW item, NEW path \in Paths(item), NEW x, NEW proof, IsSequence(proof),
         NEW child, NEW base, NEW is \in BOOLEAN,
         Exactly(child.used, child.root, path, is, proof, base)
  PROVE  Exactly(OnRight(proof, child).used, OnRight(proof, child).root, Then(path, x), is,
                 proof, Node(base, x))
<1> DEFINE q == Then(path, x)
           y == NextOf(proof, path)
           new == OnRight(proof, child).root
<1>1. child.used = Len(path)
  BY DEF Exactly
<1>2. /\ OnRight(proof, child).used = Len(q)
      /\ Len(q) <= Len(proof) => Len(path) <= Len(proof) /\ new = Node(child.root, y)
  BY <1>1, NextIs
<1>3. /\ Begins(proof, q) => Begins(proof, path) /\ y = x
      /\ Begins(proof, path) /\ y = x => Begins(proof, q)
  BY BeginsAppend DEF NextOf
<1> HIDE DEF q, y, new
<1>4. ASSUME Len(q) <= Len(proof)
      PROVE  /\ new = Node(base, x) => is /\ Begins(proof, q)
             /\ is /\ Begins(proof, q) => new = Node(base, x)
  <2>1. new = Node(child.root, y) /\ Len(path) <= Len(proof)
    BY <1>2, <1>4
  <2>2. /\ child.root = base => is /\ Begins(proof, path)
        /\ is /\ Begins(proof, path) => child.root = base
    BY <2>1 DEF Exactly
  <2>3. new = Node(base, x) => child.root = base /\ y = x
    BY <2>1, NodeInjective
  <2>4. child.root = base /\ y = x => new = Node(base, x)
    BY <2>1
  <2> QED BY <1>3, <2>2, <2>3, <2>4
<1>5. Exactly(OnRight(proof, child).used, new, q, is, proof, Node(base, x))
  BY <1>2, <1>4 DEF Exactly
<1> QED BY <1>5 DEF q, new

LEMMA ExactOnLeft ==
  ASSUME NEW item, NEW path \in Paths(item), NEW x, NEW proof, IsSequence(proof),
         NEW child, NEW base, NEW is \in BOOLEAN,
         Exactly(child.used, child.root, path, is, proof, base)
  PROVE  Exactly(OnLeft(proof, child).used, OnLeft(proof, child).root, Then(path, x), is,
                 proof, Node(x, base))
<1> DEFINE q == Then(path, x)
           y == NextOf(proof, path)
           new == OnLeft(proof, child).root
<1>1. child.used = Len(path)
  BY DEF Exactly
<1>2. /\ OnLeft(proof, child).used = Len(q)
      /\ Len(q) <= Len(proof) => Len(path) <= Len(proof) /\ new = Node(y, child.root)
  BY <1>1, NextIs
<1>3. /\ Begins(proof, q) => Begins(proof, path) /\ y = x
      /\ Begins(proof, path) /\ y = x => Begins(proof, q)
  BY BeginsAppend DEF NextOf
<1> HIDE DEF q, y, new
<1>4. ASSUME Len(q) <= Len(proof)
      PROVE  /\ new = Node(x, base) => is /\ Begins(proof, q)
             /\ is /\ Begins(proof, q) => new = Node(x, base)
  <2>1. new = Node(y, child.root) /\ Len(path) <= Len(proof)
    BY <1>2, <1>4
  <2>2. /\ child.root = base => is /\ Begins(proof, path)
        /\ is /\ Begins(proof, path) => child.root = base
    BY <2>1 DEF Exactly
  <2>3. new = Node(x, base) => child.root = base /\ y = x
    BY <2>1, NodeInjective
  <2>4. child.root = base /\ y = x => new = Node(x, base)
    BY <2>1
  <2> QED BY <1>3, <2>2, <2>3, <2>4
<1>5. Exactly(OnLeft(proof, child).used, new, q, is, proof, Node(x, base))
  BY <1>2, <1>4 DEF Exactly
<1> QED BY <1>5 DEF q, new

\* The leaf at an index of a range.
Holds(hashes, leafHash, a, j) == leafHash = hashes[a + j + 1]

LEMMA RebuiltForm ==
  ASSUME NEW hashes, NEW leafHash, NEW proof, NEW n, NEW a, NEW j
  PROVE  Rebuilt(hashes, leafHash, proof, n, a, j)
           = Exactly(ReconstructRoot(leafHash, proof)[n][j].used,
                     ReconstructRoot(leafHash, proof)[n][j].root,
                     BuildAuditPath(hashes)[n][a][j], Holds(hashes, leafHash, a, j),
                     proof, RangeRoot(hashes)[n][a])
BY DEF Rebuilt, Exactly, Holds

InPlace(l, c) == l \in 0..c - 1

LEMMA LeafPlace ==
  ASSUME NEW n \in Nat, NEW a \in Nat, NEW j \in 0..n - 1, NEW s \in Nat, NEW c \in Nat,
         NEW e \in Nat, NEW l \in Nat, Cut(n, a, s, c, e), Beyond(l, j, s),
         NEW hashes, NEW leafHash
  PROVE  InPlace(l, c) /\ Holds(hashes, leafHash, e, l) = Holds(hashes, leafHash, a, j)
<1>1. c = n - s /\ e = a + s /\ l = j - s
  BY DEF Cut, Beyond
<1>2. l \in 0..c - 1 /\ e + l + 1 = a + j + 1
  BY <1>1
<1> QED BY <1>2 DEF Holds, InPlace

LEMMA RebuiltExactly ==
  ASSUME NEW hashes, NEW leafHash, NEW proof, IsSequence(proof),
         NEW size \in Nat, size >= 1, NEW start \in Nat, NEW index \in 0..size - 1
  PROVE  Rebuilt(hashes, leafHash, proof, size, start, index)
<1> DEFINE All(n) == \A a \in Nat : \A j \in 0..n - 1 : Rebuilt(hashes, leafHash, proof, n, a, j)
           Bad == {n \in Nat : n >= 1 /\ ~ All(n)}
<1> SUFFICES ASSUME Bad # {} PROVE FALSE
  OBVIOUS
<1>1. PICK n \in Bad : \A k \in Bad : n <= k
  <2>1. Bad \subseteq Nat
    OBVIOUS
  <2> HIDE DEF Bad
  <2> QED BY <2>1, LeastNat
<1>2. n \in Nat /\ n >= 1 /\ ~ All(n)
  BY <1>1
<1>3. PICK a \in Nat, j \in 0..n - 1 : ~ Rebuilt(hashes, leafHash, proof, n, a, j)
  BY <1>2
<1>4. ASSUME NEW k \in Nat, k >= 1, k < n
      PROVE  All(k)
  <2> HIDE DEF All
  <2> QED BY <1>1, <1>2, <1>4
<1> DEFINE path == BuildAuditPath(hashes)
           root == RangeRoot(hashes)
           build == ReconstructRoot(leafHash, proof)
           is == Holds(hashes, leafHash, a, j)
<1> HIDE DEF All, Bad
<1>5. AuditEquation(path, root)
  BY AuditPathSolves
<1>6. j \in Nat /\ is \in BOOLEAN
  BY <1>2 DEF Holds
<1>7. n > 1
  <2> SUFFICES ASSUME n = 1 PROVE FALSE
    BY <1>2
  <2>1. j = 0 /\ a + j + 1 = a + 1
    OBVIOUS
  <2>2. path[n][a][j] = <<>>
    <3> HIDE DEF path, root
    <3> QED BY <1>2, <1>5, <1>6, AuditValue
  <2>3. build[n][j] = [root |-> leafHash, used |-> 0]
    BY <1>2, <1>6, RebuildValue
  <2>4. root[n][a] = hashes[a + 1]
    BY <1>2, RootForm
  <2>5. Begins(proof, <<>>) /\ Len(<<>>) = 0
    BY DEF Begins
  <2> QED BY <1>3, <2>1, <2>2, <2>3, <2>4, <2>5 DEF Rebuilt
<1>8. PICK s \in Nat, c \in Nat, e \in Nat :
        Cut(n, a, s, c, e) /\ s >= 1 /\ s < n /\ c >= 1 /\ c < n
  BY <1>2, <1>7, Divided
<1>9. root[n][a] = Node(root[s][a], root[c][e])
  BY <1>2, <1>7, <1>8, RootCut
<1>10. All(s) /\ All(c)
  BY <1>4, <1>8
<1>11. AuditParts(path, root, n, a, j, s, c, e)
  <2> HIDE DEF path, root
  <2> QED BY <1>2, <1>5, <1>6, <1>7, <1>8, AuditForm
<1>12. RebuildParts(build, proof, n, j, s, c)
  BY <1>2, <1>6, <1>7, <1>8, RebuildForm
<1>13. CASE j < s
  <2> DEFINE p == path[s][a][j]
             x == root[c][e]
             child == build[s][j]
  <2>1. p \in Paths(root)
    <3> HIDE DEF path, root
    <3> QED BY <1>5, <1>6, AuditType
  <2>2. Rebuilt(hashes, leafHash, proof, s, a, j)
    <3>1. j \in 0..s - 1
      BY <1>6, <1>13
    <3> QED BY <1>10, <3>1 DEF All
  <2>3. build[n][j] = OnRight(proof, child)
    BY <1>13, <1>12 DEF RebuildParts
  <2>4. path[n][a][j] = Then(p, x)
    BY <1>13, <1>11 DEF AuditParts
  <2>5. Exactly(child.used, child.root, p, is, proof, root[s][a])
    BY <2>2, RebuiltForm
  <2> HIDE DEF p, x, child, is, path, root
  <2>6. Exactly(OnRight(proof, child).used, OnRight(proof, child).root, Then(p, x), is,
                proof, Node(root[s][a], x))
    BY <1>6, <2>1, <2>5, ExactOnRight
  <2>7. Exactly(build[n][j].used, build[n][j].root, path[n][a][j], is, proof, root[n][a])
    BY <1>9, <2>3, <2>4, <2>6 DEF x
  <2> QED BY <1>3, <2>7, RebuiltForm DEF is, path, root
<1>14. CASE ~ j < s
  <2>1. PICK l \in Nat : Beyond(l, j, s)
    BY <1>6, <1>14, BeyondIs
  <2>2. l \in 0..c - 1 /\ Holds(hashes, leafHash, e, l) = is
    <3>1. InPlace(l, c) /\ Holds(hashes, leafHash, e, l) = is
      BY <1>2, <1>8, <2>1, LeafPlace
    <3> QED BY <3>1 DEF InPlace
  <2> DEFINE p == path[c][e][l]
             x == root[s][a]
             child == build[c][l]
  <2>3. p \in Paths(root)
    <3> HIDE DEF path, root
    <3> QED BY <1>5, AuditType
  <2>4. Rebuilt(hashes, leafHash, proof, c, e, l)
    BY <1>10, <2>2 DEF All
  <2>5. build[n][j] = OnLeft(proof, child)
    BY <1>12, <2>1 DEF RebuildParts
  <2>6. path[n][a][j] = Then(p, x)
    BY <1>11, <2>1 DEF AuditParts
  <2>7. Exactly(child.used, child.root, p, is, proof, root[c][e])
    BY <2>2, <2>4, RebuiltForm
  <2> HIDE DEF p, x, child, is, path, root
  <2>8. Exactly(OnLeft(proof, child).used, OnLeft(proof, child).root, Then(p, x), is,
                proof, Node(x, root[c][e]))
    BY <1>6, <2>3, <2>7, ExactOnLeft
  <2>9. Exactly(build[n][j].used, build[n][j].root, path[n][a][j], is, proof, root[n][a])
    BY <1>9, <2>5, <2>6, <2>8 DEF x
  <2> QED BY <1>3, <2>9, RebuiltForm DEF is, path, root
<1> QED BY <1>13, <1>14

\* verifyMerkleLeafHashInclusion accepts a proof exactly when it is the audit path of the
\* leaf hash that is at that index.
THEOREM InclusionVerifies ==
  ASSUME NEW H, NEW hashes \in Seq(H), NEW leafHash, NEW P, NEW proof \in Seq(P),
         NEW index \in 0..Len(hashes) - 1
  PROVE  /\ VerifyInclusion(leafHash, index, Len(hashes), proof, SubtreeRoot(hashes))
              => leafHash = hashes[index + 1] /\ proof = AuditPath(hashes, index)
         /\ leafHash = hashes[index + 1] /\ proof = AuditPath(hashes, index)
              => VerifyInclusion(leafHash, index, Len(hashes), proof, SubtreeRoot(hashes))
<1> DEFINE N == Len(hashes)
           path == BuildAuditPath(hashes)[N][0][index]
           built == ReconstructRoot(leafHash, proof)[N][index]
           root == RangeRoot(hashes)
<1>1. N \in Nat /\ N >= 1 /\ 0 \in Nat /\ index \in Nat /\ 0 + index + 1 = index + 1
  OBVIOUS
<1>2. Rebuilt(hashes, leafHash, proof, N, 0, index)
  <2>1. IsSequence(proof) /\ index \in 0..N - 1
    BY DEF IsSequence
  <2> HIDE DEF N
  <2> QED BY <1>1, <2>1, RebuiltExactly
<1>3. path \in Paths(root)
  <2>1. AuditEquation(BuildAuditPath(hashes), root)
    BY AuditPathSolves
  <2> HIDE DEF N, root
  <2> QED BY <1>1, <2>1, AuditType
<1>4. /\ built.used = Len(path)
      /\ Len(path) <= Len(proof) =>
           /\ built.root = root[N][0] => leafHash = hashes[index + 1] /\ Begins(proof, path)
           /\ leafHash = hashes[index + 1] /\ Begins(proof, path) => built.root = root[N][0]
  BY <1>1, <1>2 DEF Rebuilt
<1>5. VerifyInclusion(leafHash, index, N, proof, root[N][0])
        <=> built.used = Len(proof) /\ built.root = root[N][0]
  BY <1>1 DEF VerifyInclusion
<1>6. SubtreeRoot(hashes) = root[N][0] /\ AuditPath(hashes, index) = path
  BY DEF SubtreeRoot, AuditPath
<1> HIDE DEF path, built, root, N
<1> DEFINE I == Items(root)
<1>7. path \in Seq(I)
  BY <1>3 DEF Paths
<1> HIDE DEF I
<1>8. ASSUME Len(proof) = Len(path), Begins(proof, path)
      PROVE  proof = path
  BY <1>7, <1>8 DEF Begins
<1>9. proof = path => Len(proof) = Len(path) /\ Begins(proof, path)
  BY DEF Begins
<1>10. CASE Len(path) = Len(proof)
  BY <1>4, <1>5, <1>6, <1>8, <1>9, <1>10 DEF N
<1>11. CASE Len(path) # Len(proof)
  BY <1>4, <1>5, <1>6, <1>9, <1>11 DEF N
<1> QED BY <1>10, <1>11


-------------------------------------------------------------------------------
(* Levels.  The verifier of consistency proofs climbs both trees at once, from     *)
(* level to level; at each of them the last node may be short.                    *)

LEMMA DivUnique ==
  ASSUME NEW a \in Nat, NEW n \in Nat, n >= 1, NEW q \in Nat, q * n <= a, a < (q + 1) * n
  PROVE  a \div n = q
OBVIOUS

LEMMA DivBounds ==
  ASSUME NEW a \in Nat, NEW n \in Nat, n >= 1
  PROVE  a \div n \in Nat /\ (a \div n) * n <= a /\ a < (a \div n) * n + n
<1> DEFINE q == a \div n
           r == a % n
<1>1. q \in Nat /\ r \in Nat /\ r < n /\ a = n * q + r
  BY DivMod
<1> HIDE DEF q, r
<1>2. n * q = q * n /\ q * n \in Nat
  BY <1>1
<1> QED BY <1>1, <1>2 DEF q

LEMMA Pow2Sum ==
  ASSUME NEW i \in Nat, NEW j \in Nat PROVE Pow2[i + j] = Pow2[i] * Pow2[j]
<1> DEFINE Bad == {k \in Nat : Pow2[i + k] # Pow2[i] * Pow2[k]}
<1> SUFFICES ASSUME Bad # {} PROVE FALSE
  OBVIOUS
<1>1. PICK k \in Bad : \A m \in Bad : k <= m
  <2>1. Bad \subseteq Nat
    OBVIOUS
  <2> HIDE DEF Bad
  <2> QED BY <2>1, LeastNat
<1>2. k # 0
  BY <1>1, Pow2Form
<1>3. k - 1 \in Nat /\ k - 1 \notin Bad /\ k = (k - 1) + 1 /\ i + k = (i + (k - 1)) + 1 /\ i + (k - 1) \in Nat
  BY <1>1, <1>2
<1>4. Pow2[i + (k - 1)] = Pow2[i] * Pow2[k - 1]
  BY <1>3
<1>5. Pow2[k] = 2 * Pow2[k - 1] /\ Pow2[i + k] = 2 * Pow2[i + (k - 1)]
  BY <1>3, Pow2Form
<1>6. Pow2[i] \in Nat /\ Pow2[k - 1] \in Nat
  BY <1>3, Pow2Form
<1>7. 2 * (Pow2[i] * Pow2[k - 1]) = Pow2[i] * (2 * Pow2[k - 1])
  BY <1>6
<1> QED BY <1>1, <1>4, <1>5, <1>7

\* Two shifts are one.
LEMMA DivTwice ==
  ASSUME NEW x \in Nat, NEW i \in Nat, NEW j \in Nat
  PROVE  (x \div Pow2[i]) \div Pow2[j] = x \div Pow2[i + j]
<1> DEFINE a == Pow2[i]
           b == Pow2[j]
           q == x \div a
           r == q \div b
<1>1. a \in Nat /\ a >= 1 /\ b \in Nat /\ b >= 1 /\ Pow2[i + j] = a * b
  BY Pow2Form, Pow2Sum
<1> HIDE DEF a, b
<1>2. q \in Nat /\ q * a <= x /\ x < q * a + a
  BY <1>1, DivBounds
<1> HIDE DEF q
<1>3. r \in Nat /\ r * b <= q /\ q < r * b + b
  BY <1>1, <1>2, DivBounds
<1> HIDE DEF r
<1>4. r * (a * b) <= x
  <2>1. (r * b) * a <= q * a
    BY <1>1, <1>2, <1>3
  <2>2. (r * b) * a = r * (a * b)
    BY <1>1, <1>3
  <2>3. r * (a * b) \in Nat /\ q * a \in Nat
    BY <1>1, <1>2, <1>3
  <2> QED BY <1>2, <2>1, <2>2, <2>3
<1>5. x < (r + 1) * (a * b)
  <2> DEFINE u == r * b
             v == (r + 1) * b
             t == q * a
             w == v * a
  <2>1. u \in Nat /\ v = u + b /\ q < u + b
    BY <1>1, <1>3
  <2> HIDE DEF u, v
  <2>2. v \in Nat /\ q + 1 <= v
    BY <1>1, <1>2, <2>1
  <2>3. (q + 1) * a <= v * a
    BY <1>1, <1>2, <2>2
  <2>4. (q + 1) * a = t + a /\ t \in Nat /\ w \in Nat
    BY <1>1, <1>2, <2>2
  <2>5. w = (r + 1) * (a * b)
    BY <1>1, <1>3 DEF v
  <2>6. x < t + a
    BY <1>2
  <2>7. t + a <= w
    BY <2>3, <2>4
  <2> HIDE DEF t, w
  <2>8. x < w
    BY <1>1, <2>4, <2>6, <2>7
  <2> QED BY <2>5, <2>8
<1>6. a * b \in Nat /\ a * b >= 1
  <2>1. a * b \in Nat /\ (a - 1) * b >= 0 /\ a * b = (a - 1) * b + b /\ (a - 1) * b \in Int
    BY <1>1
  <2> QED BY <1>1, <2>1
<1>7. x \div (a * b) = r
  BY <1>3, <1>4, <1>5, <1>6, DivUnique
<1> QED BY <1>1, <1>7 DEF r, q, a, b

\* LowOnes(x) is the number of ones that x ends with.
LEMMA LowOnesForm ==
  ASSUME NEW x \in Nat
  PROVE  LET k == LowOnes(x) IN
         k \in Nat /\ ~ IsOdd(x \div Pow2[k]) /\ x + 1 = (x \div Pow2[k] + 1) * Pow2[k]
<1> DEFINE Ends(k) == ~ IsOdd(x \div Pow2[k]) /\ \A j \in 0..k - 1 : IsOdd(x \div Pow2[j])
           k == LowOnes(x)
<1>1. \E l \in 0..x : Ends(l)
  <2> DEFINE Evens == {l \in Nat : ~ IsOdd(x \div Pow2[l])}
  <2>1. x \in Evens
    <3>1. Pow2[x] \in Nat /\ Pow2[x] >= 1 /\ x < Pow2[x]
      BY Pow2Form, Pow2Grows
    <3>2. 0 * Pow2[x] <= x /\ x < (0 + 1) * Pow2[x]
      BY <3>1
    <3>3. x \div Pow2[x] = 0
      BY <3>1, <3>2, DivUnique
    <3>4. ~ IsOdd(0)
      BY DEF IsOdd
    <3> QED BY <3>3, <3>4
  <2>2. PICK l \in Evens : \A j \in Evens : l <= j
    <3>1. Evens \subseteq Nat /\ Evens # {}
      BY <2>1
    <3> HIDE DEF Evens
    <3> QED BY <3>1, LeastNat
  <2>3. l \in 0..x /\ ~ IsOdd(x \div Pow2[l])
    BY <2>1, <2>2
  <2>4. ASSUME NEW j \in 0..l - 1
        PROVE  IsOdd(x \div Pow2[j])
    <3>1. j \in Nat /\ j < l
      BY <2>3
    <3>2. j \notin Evens
      <4> HIDE DEF Evens
      <4> QED BY <2>2, <2>3, <3>1
    <3> QED BY <3>1, <3>2
  <2> QED BY <2>3, <2>4
<1>2. k \in 0..x /\ Ends(k)
  <2>1. k = CHOOSE l \in 0..x : Ends(l)
    BY DEF LowOnes
  <2> HIDE DEF k, Ends
  <2> QED BY <1>1, <2>1
<1> HIDE DEF k
<1> DEFINE Shifted(j) == x + 1 = (x \div Pow2[j] + 1) * Pow2[j]
           Bad == {j \in Nat : j <= k /\ ~ Shifted(j)}
<1>3. Bad = {}
  <2> SUFFICES ASSUME Bad # {} PROVE FALSE
    OBVIOUS
  <2>1. PICK j \in Bad : \A i \in Bad : j <= i
    <3>1. Bad \subseteq Nat
      OBVIOUS
    <3> HIDE DEF Bad
    <3> QED BY <3>1, LeastNat
  <2>2. j # 0
    <3>1. Pow2[0] = 1 /\ x \div 1 = x
      BY Pow2Form
    <3> QED BY <2>1, <3>1
  <2>3. j \in Nat /\ j <= k /\ j - 1 \in Nat /\ j - 1 <= k /\ j - 1 \notin Bad /\ j = (j - 1) + 1
        /\ j - 1 \in 0..k - 1
    BY <1>2, <2>1, <2>2
  <2> DEFINE i == j - 1
             p == Pow2[i]
             y == x \div p
             z == x \div Pow2[j]
  <2>4. Shifted(i) /\ IsOdd(y)
    BY <1>2, <2>3
  <2>5. p \in Nat /\ p >= 1 /\ Pow2[j] = 2 * p /\ Pow2[1] = 2
    <3>1. Pow2[0 + 1] = 2 * Pow2[0] /\ 0 + 1 = 1
      BY Pow2Form
    <3> QED BY <2>3, <3>1, Pow2Form
  <2>6. y \in Nat /\ z = y \div 2
    <3>1. y \in Nat
      BY <2>5, DivMod
    <3>2. 1 \in Nat /\ i \in Nat /\ i + 1 = j
      BY <2>3
    <3>3. (x \div Pow2[i]) \div Pow2[1] = x \div Pow2[i + 1]
      <4> HIDE DEF i
      <4> QED BY <3>2, DivTwice
    <3> QED BY <2>5, <3>1, <3>2, <3>3
  <2> HIDE DEF i, p, y, z
  <2>7. y = 2 * z + 1 /\ z \in Nat
    BY <2>4, <2>6 DEF IsOdd
  <2>8. x + 1 = (y + 1) * p
    BY <2>4 DEF p, y
  <2>9. (y + 1) * p = (z + 1) * (2 * p)
    BY <2>5, <2>7
  <2>10. Shifted(j)
    BY <2>5, <2>8, <2>9 DEF z
  <2> QED BY <2>1, <2>10
<1>4. Shifted(k)
  BY <1>2, <1>3
<1> QED BY <1>2, <1>4 DEF k

\* LowZeros(n) is the number of zeros that n ends with, above which there is a one.
LEMMA LowZerosForm ==
  ASSUME NEW n \in Nat, n >= 1
  PROVE  LET z == LowZeros(n) IN
         z \in Nat /\ IsOdd(n \div Pow2[z]) /\ n = (n \div Pow2[z]) * Pow2[z]
<1> DEFINE z == LowOnes(n - 1)
           q == (n - 1) \div Pow2[z]
<1>1. n - 1 \in Nat /\ n # 0
  OBVIOUS
<1>2. LowZeros(n) = z
  BY <1>1 DEF LowZeros
<1>3. z \in Nat /\ ~ IsOdd(q) /\ (n - 1) + 1 = (q + 1) * Pow2[z]
  BY <1>1, LowOnesForm
<1> HIDE DEF z
<1>4. Pow2[z] \in Nat /\ Pow2[z] >= 1
  BY <1>3, Pow2Form
<1>5. q \in Nat
  BY <1>1, <1>4, DivMod
<1> HIDE DEF q
<1>6. n = (q + 1) * Pow2[z] /\ n < ((q + 1) + 1) * Pow2[z]
  <2>1. ((q + 1) + 1) * Pow2[z] = (q + 1) * Pow2[z] + Pow2[z] /\ (q + 1) * Pow2[z] \in Nat
    BY <1>4, <1>5
  <2> QED BY <1>1, <1>3, <1>4, <2>1
<1>7. n \div Pow2[z] = q + 1
  BY <1>4, <1>5, <1>6, DivUnique
<1>8. IsOdd(q + 1)
  BY <1>3, <1>5 DEF IsOdd
<1> QED BY <1>2, <1>3, <1>6, <1>7, <1>8


\* Node i of level k, in the tree of the first N hashes: how many hashes it is over, and
\* its hash.
Width(N, k, i) == IF (i + 1) * Pow2[k] <= N THEN Pow2[k] ELSE N - i * Pow2[k]
Tree(h, N, k, i) == RangeRoot(h)[Width(N, k, i)][i * Pow2[k]]

\* A node with two children.
LEMMA TreePair ==
  ASSUME NEW h, NEW N \in Nat, NEW k \in Nat, NEW i \in Nat, (2 * i + 1) * Pow2[k] < N
  PROVE  Tree(h, N, k + 1, i) = Node(Tree(h, N, k, 2 * i), Tree(h, N, k, 2 * i + 1))
<1> DEFINE p == Pow2[k]
           a == (2 * i) * p
           w == Width(N, k + 1, i)
<1>1. p \in Nat /\ p >= 1 /\ Pow2[k + 1] = 2 * p
  BY Pow2Form
<1> HIDE DEF p
<1>2. a \in Nat /\ i * (2 * p) = a /\ (2 * i + 1) * p = a + p
      /\ (2 * i + 1 + 1) * p = a + 2 * p /\ (i + 1) * (2 * p) = a + 2 * p
  BY <1>1
<1> HIDE DEF a
<1>3. a + p < N
  BY <1>2 DEF p
<1>4. w = IF a + 2 * p <= N THEN 2 * p ELSE N - a
  BY <1>1, <1>2 DEF Width
<1>5. Width(N, k, 2 * i) = p
  BY <1>1, <1>2, <1>3 DEF Width, p
<1>6. Width(N, k, 2 * i + 1) = IF a + 2 * p <= N THEN p ELSE N - (a + p)
  BY <1>2 DEF Width, p
<1> HIDE DEF w
<1>7. w \in Nat /\ w > 1 /\ p < w /\ w <= 2 * p /\ w - p = Width(N, k, 2 * i + 1)
  BY <1>1, <1>2, <1>3, <1>4, <1>6
<1>8. Split(w) = p
  BY <1>1, <1>7, SplitIs DEF Split, p
<1>9. RangeRoot(h)[w][a] = Node(RangeRoot(h)[p][a], RangeRoot(h)[w - p][a + p])
  BY <1>2, <1>7, <1>8, RootForm
<1>10. Tree(h, N, k + 1, i) = RangeRoot(h)[w][a]
  BY <1>1, <1>2 DEF Tree, w
<1>11. Tree(h, N, k, 2 * i) = RangeRoot(h)[p][a]
  BY <1>5 DEF Tree, p, a
<1>12. Tree(h, N, k, 2 * i + 1) = RangeRoot(h)[w - p][a + p]
  BY <1>2, <1>7 DEF Tree, p
<1> QED BY <1>9, <1>10, <1>11, <1>12

\* The last node of a level goes up unchanged as long as it has no sibling.
Up(k, z) == k + z
Shifted(i, j, z) == i = j * Pow2[z]
IsLast(N, k, i) == i * Pow2[k] < N /\ N <= (i + 1) * Pow2[k]

LEMMA TreeLast ==
  ASSUME NEW h, NEW N \in Nat, NEW k \in Nat, NEW z \in Nat, NEW i \in Nat, NEW j \in Nat,
         Shifted(i, j, z), IsLast(N, k, i)
  PROVE  Tree(h, N, Up(k, z), j) = Tree(h, N, k, i)
<1> DEFINE p == Pow2[k]
           r == Pow2[k + z]
           a == i * p
<1>1. p \in Nat /\ p >= 1 /\ Pow2[z] \in Nat /\ r \in Nat /\ r = p * Pow2[z] /\ p <= r
  <2>1. k + z \in Nat /\ k <= k + z
    OBVIOUS
  <2> QED BY <2>1, Pow2Form, Pow2Sum, Pow2Monotone
<1>2. j * r = a
  <2> DEFINE s == Pow2[z]
  <2>1. s \in Nat /\ i = j * s /\ r = p * s
    BY <1>1 DEF Shifted
  <2> HIDE DEF s, r, p
  <2> QED BY <1>1, <2>1
<1>3. (j + 1) * r = a + r /\ (i + 1) * p = a + p /\ a \in Nat
  <2>1. (j + 1) * r = j * r + r
    <3> HIDE DEF r
    <3> QED BY <1>1
  <2>2. (i + 1) * p = i * p + p /\ i * p \in Nat
    <3> HIDE DEF p
    <3> QED BY <1>1
  <2> QED BY <1>2, <2>1, <2>2
<1>4. a < N /\ N <= a + p
  BY <1>3 DEF IsLast
<1>5. Width(N, k, i) = IF a + p <= N THEN p ELSE N - a
  BY <1>3 DEF Width
<1>6. Width(N, k + z, j) = IF a + r <= N THEN r ELSE N - a
  BY <1>2, <1>3 DEF Width
<1>7. Tree(h, N, k, i) = RangeRoot(h)[Width(N, k, i)][a]
  BY DEF Tree
<1>8. Tree(h, N, k + z, j) = RangeRoot(h)[Width(N, k + z, j)][a]
  BY <1>2 DEF Tree
<1>9. p \in Nat /\ r \in Nat /\ p <= r /\ a \in Nat /\ a < N /\ N <= a + p
  BY <1>1, <1>3, <1>4
<1> HIDE DEF a, p, r
<1>10. Width(N, k, i) = Width(N, k + z, j)
  <2>1. (IF a + p <= N THEN p ELSE N - a) = (IF a + r <= N THEN r ELSE N - a)
    BY <1>9
  <2> QED BY <1>5, <1>6, <2>1
<1> QED BY <1>7, <1>8, <1>10 DEF Up

-------------------------------------------------------------------------------
(* The verifier.                                                                  *)

Start(first, second, path) ==
  [ok |-> TRUE, first |-> (first - 1) \div Pow2[LowOnes(first - 1)],
   second |-> (second - 1) \div Pow2[LowOnes(first - 1)],
   firstRoot |-> path[1], secondRoot |-> path[1]]

ClimbsEquation(at, first, second, path) ==
  at = [i \in Nat |-> IF i <= 1 THEN Start(first, second, path) ELSE Climb(at[i - 1], path[i])]

States(H) == [ok : BOOLEAN, first : Nat, second : Nat, firstRoot : H, secondRoot : H]

LEMMA ClimbType ==
  ASSUME NEW H, Closed(H), NEW at \in States(H), NEW node \in H
  PROVE  Climb(at, node) \in States(H)
<1>1. /\ at.first \in Nat /\ at.second \in Nat /\ at.firstRoot \in H /\ at.secondRoot \in H
      /\ at.ok \in BOOLEAN
  BY DEF States
<1>2. /\ Node(node, at.firstRoot) \in H /\ Node(node, at.secondRoot) \in H
      /\ Node(at.secondRoot, node) \in H
  BY <1>1 DEF Closed
<1>3. LowZeros(at.first) + 1 \in Nat
  <2>1. CASE at.first = 0
    BY <2>1 DEF LowZeros
  <2>2. CASE at.first # 0
    BY <1>1, <2>2, LowZerosForm
  <2> QED BY <2>1, <2>2
<1>4. ASSUME NEW k \in Nat
      PROVE  at.first \div Pow2[k] \in Nat /\ at.second \div Pow2[k] \in Nat
  BY <1>1, Pow2Form, DivMod
<1>5. at.first \div 2 \in Nat /\ at.second \div 2 \in Nat
  BY <1>1
<1> DEFINE k == IF IsOdd(at.first) THEN 1 ELSE LowZeros(at.first) + 1
<1>6. k \in Nat
  BY <1>3
<1>7. CASE at.second = 0
  <2>1. Climb(at, node) = [at EXCEPT !.ok = FALSE]
    BY <1>7 DEF Climb
  <2> QED BY <2>1 DEF States
<1>8. CASE at.second # 0 /\ (IsOdd(at.first) \/ at.first = at.second)
  <2>1. Climb(at, node) =
          [at EXCEPT !.first = @ \div Pow2[k], !.second = @ \div Pow2[k],
                     !.firstRoot = Node(node, @), !.secondRoot = Node(node, @)]
    BY <1>8 DEF Climb
  <2> HIDE DEF k
  <2> QED BY <1>1, <1>2, <1>4, <1>6, <2>1 DEF States
<1>9. CASE at.second # 0 /\ ~ (IsOdd(at.first) \/ at.first = at.second)
  <2>1. Climb(at, node) =
          [at EXCEPT !.first = @ \div 2, !.second = @ \div 2, !.secondRoot = Node(@, node)]
    BY <1>9 DEF Climb
  <2> QED BY <1>1, <1>2, <1>5, <2>1 DEF States
<1> QED BY <1>7, <1>8, <1>9

LEMMA ClimbsSolved ==
  ASSUME NEW first \in Nat, first >= 1, NEW second \in Nat, second >= 1, NEW path
  PROVE  ClimbsEquation(Climbs(first, second, path), first, second, path)
<1> DEFINE S == {path[i] : i \in Nat}
<1>1. PICK H : S \subseteq H /\ Closed(H)
  BY Closure
<1> DEFINE V == States(H)
           start == Start(first, second, path)
           value(n, g) == IF n <= 1 THEN start ELSE Climb(g[n - 1], path[n])
           step == [n \in Nat |-> [g \in [0..n - 1 -> V] |-> value(n, g)]]
<1>2. start \in V
  <2>1. first - 1 \in Nat /\ second - 1 \in Nat
    OBVIOUS
  <2>2. LowOnes(first - 1) \in Nat
    BY <2>1, LowOnesForm
  <2>3. Pow2[LowOnes(first - 1)] \in Nat /\ Pow2[LowOnes(first - 1)] >= 1
    BY <2>2, Pow2Form
  <2>4. /\ (first - 1) \div Pow2[LowOnes(first - 1)] \in Nat
        /\ (second - 1) \div Pow2[LowOnes(first - 1)] \in Nat
    BY <2>1, <2>3, DivMod
  <2>5. path[1] \in H
    BY <1>1
  <2> QED BY <2>4, <2>5 DEF Start, States
<1> HIDE DEF start
<1>3. ASSUME NEW n \in Nat, NEW g \in [0..n - 1 -> V]
      PROVE  step[n][g] = value(n, g) /\ value(n, g) \in V
  <2>1. step[n][g] = value(n, g)
    <3> HIDE DEF value, V
    <3> QED OBVIOUS
  <2>2. CASE n <= 1
    BY <1>2, <2>1, <2>2
  <2>3. CASE ~ n <= 1
    <3>1. g[n - 1] \in V /\ path[n] \in H
      <4>1. n - 1 \in 0..n - 1
        BY <2>3
      <4> HIDE DEF V
      <4> QED BY <1>1, <4>1
    <3>2. Climb(g[n - 1], path[n]) \in V
      BY <1>1, <3>1, ClimbType
    <3> QED BY <2>1, <2>3, <3>2
  <2> QED BY <2>2, <2>3
<1> HIDE DEF step, V
<1>4. PICK f : Solves(f, step, V)
  <2>1. Steps(step, V)
    BY <1>3 DEF Steps
  <2> QED BY <2>1, Recursion
<1>5. ASSUME NEW n \in Nat
      PROVE  f[n] = value(n, f)
  <2>1. Below(f, n) \in [0..n - 1 -> V]
    BY <1>4 DEF Below, Solves
  <2>2. f[n] = value(n, Below(f, n))
    BY <1>3, <1>4, <2>1 DEF Solves
  <2>3. ~ n <= 1 => Below(f, n)[n - 1] = f[n - 1]
    BY DEF Below
  <2> QED BY <2>2, <2>3
<1>6. ClimbsEquation(f, first, second, path)
  <2>1. f = [n \in Nat |-> f[n]]
    BY <1>4 DEF Solves
  <2> HIDE DEF value
  <2>2. f = [n \in Nat |-> value(n, f)]
    BY <1>5, <2>1
  <2> QED BY <2>2 DEF ClimbsEquation, value, start
<1>7. Climbs(first, second, path) = CHOOSE at : ClimbsEquation(at, first, second, path)
  BY DEF Climbs, ClimbsEquation, Start
<1> QED BY <1>6, <1>7

\* The states of the loop, one by one.
ClimbsOn(at, first, second, path) ==
  /\ \A i \in Nat : i <= 1 => at[i] = Start(first, second, path)
  /\ \A i \in Nat : i > 1 => at[i] = Climb(at[i - 1], path[i])

LEMMA ClimbsValue ==
  ASSUME NEW first \in Nat, first >= 1, NEW second \in Nat, second >= 1, NEW path
  PROVE  ClimbsOn(Climbs(first, second, path), first, second, path)
<1> DEFINE at == Climbs(first, second, path)
           value(n) == IF n <= 1 THEN Start(first, second, path) ELSE Climb(at[n - 1], path[n])
<1>1. at = [n \in Nat |-> value(n)]
  BY ClimbsSolved DEF ClimbsEquation
<1> HIDE DEF at
<1>2. ASSUME NEW i \in Nat
      PROVE  /\ i <= 1 => at[i] = Start(first, second, path)
             /\ i > 1 => at[i] = Climb(at[i - 1], path[i])
  <2>1. at[i] = value(i)
    <3> HIDE DEF value
    <3> QED BY <1>1
  <2> QED BY <2>1
<1>3. ClimbsOn(at, first, second, path)
  BY <1>2 DEF ClimbsOn
<1> QED BY <1>3 DEF at


\* What a number has besides its odd part.
LEMMA OddPart ==
  ASSUME NEW i \in Nat, NEW j \in Nat, NEW u \in Nat, NEW v \in Nat,
         (2 * u + 1) * Pow2[i] = (2 * v + 1) * Pow2[j]
  PROVE  ~ i < j
<1> SUFFICES ASSUME i < j PROVE FALSE
  OBVIOUS
<1> DEFINE p == Pow2[i]
           q == Pow2[j]
<1>1. p \in Nat /\ p >= 1
  BY Pow2Form
<1>2. PICK c \in Nat : q = c * (2 * p)
  BY Pow2Multiple
<1>3. (2 * u + 1) * p = (2 * v + 1) * q
  OBVIOUS
<1> HIDE DEF p, q
<1> DEFINE x == (2 * v + 1) * c
<1>4. x \in Nat /\ (2 * u + 1) * p = (2 * x) * p
  BY <1>1, <1>2, <1>3
<1> HIDE DEF x
<1>5. 2 * u + 1 = 2 * x
  BY <1>1, <1>4
<1> QED BY <1>4, <1>5

LEMMA SameOddPart ==
  ASSUME NEW i \in Nat, NEW j \in Nat, NEW u \in Nat, NEW v \in Nat,
         (2 * u + 1) * Pow2[i] = (2 * v + 1) * Pow2[j]
  PROVE  i = j
<1>1. ~ i < j
  BY OddPart
<1>2. ~ j < i
  BY OddPart
<1> QED BY <1>1, <1>2

\* One turn, by the cases of the verifier.
LEMMA ClimbForm ==
  ASSUME NEW H, NEW s \in States(H), NEW node
  PROVE  LET t == Climb(s, node)
             k == IF IsOdd(s.first) THEN 1 ELSE LowZeros(s.first) + 1
         IN  /\ s.second = 0 => ~ t.ok
             /\ s.second # 0 => t.ok = s.ok
             /\ s.second # 0 /\ (IsOdd(s.first) \/ s.first = s.second) =>
                  /\ t.first = s.first \div Pow2[k] /\ t.second = s.second \div Pow2[k]
                  /\ t.firstRoot = Node(node, s.firstRoot)
                  /\ t.secondRoot = Node(node, s.secondRoot)
             /\ s.second # 0 /\ ~ IsOdd(s.first) /\ s.first # s.second =>
                  /\ t.first = s.first \div 2 /\ t.second = s.second \div 2
                  /\ t.firstRoot = s.firstRoot
                  /\ t.secondRoot = Node(s.secondRoot, node)
BY DEF Climb, States

LEMMA ClimbsType ==
  ASSUME NEW H, Closed(H), NEW first \in Nat, first >= 1, NEW second \in Nat, second >= 1,
         NEW path, \A i \in Nat : path[i] \in H
  PROVE  \A i \in Nat : Climbs(first, second, path)[i] \in States(H)
<1> DEFINE at == Climbs(first, second, path)
           Bad == {i \in Nat : at[i] \notin States(H)}
<1> SUFFICES ASSUME Bad # {} PROVE FALSE
  OBVIOUS
<1>1. PICK i \in Bad : \A j \in Bad : i <= j
  <2>1. Bad \subseteq Nat
    OBVIOUS
  <2> HIDE DEF Bad
  <2> QED BY <2>1, LeastNat
<1>2. i \in Nat /\ at[i] \notin States(H)
  BY <1>1
<1>3. ClimbsOn(at, first, second, path)
  BY ClimbsValue
<1>4. CASE i <= 1
  <2>1. at[i] = Start(first, second, path)
    <3> HIDE DEF at
    <3> QED BY <1>2, <1>4, <1>3 DEF ClimbsOn
  <2>2. first - 1 \in Nat /\ second - 1 \in Nat
    OBVIOUS
  <2>3. LowOnes(first - 1) \in Nat
    BY <2>2, LowOnesForm
  <2>4. Pow2[LowOnes(first - 1)] \in Nat /\ Pow2[LowOnes(first - 1)] >= 1
    BY <2>3, Pow2Form
  <2>5. /\ (first - 1) \div Pow2[LowOnes(first - 1)] \in Nat
        /\ (second - 1) \div Pow2[LowOnes(first - 1)] \in Nat
    BY <2>2, <2>4, DivMod
  <2>6. path[1] \in H
    OBVIOUS
  <2>7. Start(first, second, path) \in States(H)
    BY <2>5, <2>6 DEF Start, States
  <2> QED BY <1>2, <2>1, <2>7
<1>5. CASE i > 1
  <2>1. i - 1 \in Nat /\ i - 1 < i
    BY <1>2, <1>5
  <2> HIDE DEF at
  <2>2. at[i] = Climb(at[i - 1], path[i])
    BY <1>2, <1>5, <1>3 DEF ClimbsOn
  <2>3. at[i - 1] \in States(H)
    BY <1>1, <2>1
  <2>4. path[i] \in H
    BY <1>2
  <2>5. Climb(at[i - 1], path[i]) \in States(H)
    BY <2>3, <2>4, ClimbType
  <2> QED BY <1>2, <2>2, <2>5
<1> QED BY <1>2, <1>4, <1>5

\* The verifier is at level k of a tree of m hashes and of one of n: what it climbs there is
\* the last node of the first tree, and it knows where the last one of the second is.
AtLevel(s, m, n, k) == s.first = (m - 1) \div Pow2[k] /\ s.second = (n - 1) \div Pow2[k]

LEMMA LevelBounds ==
  ASSUME NEW m \in Nat, m >= 1, NEW k \in Nat
  PROVE  LET f == (m - 1) \div Pow2[k] IN
         f \in Nat /\ f * Pow2[k] \in Nat /\ f * Pow2[k] < m /\ IsLast(m, k, f)
<1> DEFINE p == Pow2[k]
           f == (m - 1) \div p
<1>1. p \in Nat /\ p >= 1
  BY Pow2Form
<1>2. m - 1 \in Nat
  OBVIOUS
<1> HIDE DEF p
<1>3. f \in Nat /\ f * p <= m - 1 /\ m - 1 < f * p + p
  BY <1>1, <1>2, DivBounds
<1> HIDE DEF f
<1>4. (f + 1) * p = f * p + p /\ f * p \in Nat
  BY <1>1, <1>3
<1>5. f * p < m /\ m <= (f + 1) * p
  BY <1>1, <1>3, <1>4
<1> QED BY <1>3, <1>4, <1>5 DEF p, f, IsLast


Raised(t, s, l) == t.first = s.first \div Pow2[l] /\ t.second = s.second \div Pow2[l]

LEMMA LevelUp ==
  ASSUME NEW m \in Nat, m >= 1, NEW n \in Nat, n >= 1, NEW k \in Nat, NEW l \in Nat,
         NEW s, AtLevel(s, m, n, k), NEW t, Raised(t, s, l)
  PROVE  AtLevel(t, m, n, k + l)
<1> DEFINE x == m - 1
           y == n - 1
<1>1. x \in Nat /\ y \in Nat
  OBVIOUS
<1> HIDE DEF x, y
<1>2. (x \div Pow2[k]) \div Pow2[l] = x \div Pow2[k + l]
  BY <1>1, DivTwice
<1>3. (y \div Pow2[k]) \div Pow2[l] = y \div Pow2[k + l]
  BY <1>1, DivTwice
<1> QED BY <1>2, <1>3 DEF AtLevel, Raised, x, y

\* The turn that joins the last node with the one left of it: it may have gone up z levels
\* without a sibling, if it is the last one in both trees.
Joins(a, f, z) == Shifted(a, 2 * f + 1, z)
Joined(s, node, g, m, h, n, k, z, f) ==
  LET t == Climb(s, node) IN
  /\ t.ok = s.ok /\ t.first = f /\ AtLevel(t, m, n, k + z + 1)
  /\ t.firstRoot = Node(node, s.firstRoot) /\ t.secondRoot = Node(node, s.secondRoot)
  /\ Tree(g, m, k + z + 1, f) = Node(Tree(g, m, k + z, 2 * f), Tree(g, m, k, s.first))
  /\ Tree(h, n, k + z + 1, f) = Node(Tree(h, n, k + z, 2 * f), Tree(h, n, k, s.first))
  /\ (2 * f + 1) * Pow2[k + z] = s.first * Pow2[k]
  /\ (2 * f + 1) * Pow2[k + z] < m

LEMMA ClimbJoins ==
  ASSUME NEW H, NEW s \in States(H), NEW node, NEW g, NEW h,
         NEW m \in Nat, m >= 1, NEW n \in Nat, m < n, NEW k \in Nat, AtLevel(s, m, n, k),
         s.second # 0, NEW z \in Nat, NEW f \in Nat, Joins(s.first, f, z),
         z = 0 \/ s.first = s.second
  PROVE  Joined(s, node, g, m, h, n, k, z, f)
<1> DEFINE a == s.first
           b == s.second
           t == Climb(s, node)
           p == Pow2[z]
           u == 2 * f + 1
           e == Pow2[k]
           r == Pow2[k + z]
<1>1. a \in Nat /\ b \in Nat /\ u \in Nat /\ k + z \in Nat /\ z + 1 \in Nat /\ k + (z + 1) = k + z + 1
  BY DEF States
<1>2. p \in Nat /\ p >= 1 /\ e \in Nat /\ e >= 1 /\ r \in Nat /\ r >= 1
      /\ Pow2[z + 1] = 2 * p /\ r = e * p /\ Pow2[0] = 1 /\ Pow2[1] = 2
  <2>1. Pow2[0 + 1] = 2 * Pow2[0] /\ 0 + 1 = 1 /\ 0 \in Nat
    BY Pow2Form
  <2>2. Pow2[k + z] = Pow2[k] * Pow2[z]
    BY Pow2Sum
  <2>3. Pow2[k + z] \in Nat /\ Pow2[k + z] >= 1
    BY <1>1, Pow2Form
  <2>4. Pow2[k] \in Nat /\ Pow2[k] >= 1 /\ Pow2[z] \in Nat /\ Pow2[z] >= 1
        /\ Pow2[z + 1] = 2 * Pow2[z] /\ Pow2[0] = 1
    BY Pow2Form
  <2> QED BY <2>1, <2>2, <2>3, <2>4
<1>3. a = u * p
  BY DEF Joins, Shifted
<1>4. IsOdd(u) /\ u \div 2 = f
  <2>1. u % 2 = 1 /\ u \div 2 = f
    OBVIOUS
  <2> QED BY <2>1 DEF IsOdd
<1>5. (IF IsOdd(a) THEN 1 ELSE LowZeros(a) + 1) = z + 1 /\ (IsOdd(a) \/ a = b)
  <2>1. CASE z = 0
    <3>1. p = 1
      BY <1>2, <2>1
    <3>2. a = u
      <4> HIDE DEF a, u, p
      <4> QED BY <1>1, <1>3, <3>1
    <3> HIDE DEF a, u
    <3> QED BY <1>4, <2>1, <3>2
  <2>2. CASE z # 0
    <3>1. ~ IsOdd(a)
      <4>1. z - 1 \in Nat /\ (z - 1) + 1 = z
        BY <2>2
      <4>2. Pow2[z] = 2 * Pow2[z - 1] /\ Pow2[z - 1] \in Nat
        BY <4>1, Pow2Form
      <4> DEFINE q == Pow2[z - 1]
                 x == u * q
      <4>3. q \in Nat /\ p = 2 * q
        BY <4>2
      <4> HIDE DEF p, q, a, u
      <4>4. x \in Nat /\ a = 2 * x
        BY <1>1, <1>3, <4>3
      <4> HIDE DEF x
      <4>5. a % 2 = 0
        BY <4>4
      <4> QED BY <4>5 DEF IsOdd
    <3>2. a >= 1
      <4> HIDE DEF a, u, p
      <4>1. u >= 1
        BY <1>1, <1>4 DEF IsOdd
      <4> QED BY <1>1, <1>2, <1>3, <4>1
    <3> DEFINE y == LowZeros(a)
               v == (a \div Pow2[y]) \div 2
    <3>3. y \in Nat /\ IsOdd(a \div Pow2[y]) /\ a = (a \div Pow2[y]) * Pow2[y]
      <4> HIDE DEF a
      <4> QED BY <1>1, <3>2, LowZerosForm
    <3>4. a \div Pow2[y] \in Nat
      <4> HIDE DEF y
      <4>1. Pow2[y] \in Nat /\ Pow2[y] >= 1
        BY <3>3, Pow2Form
      <4> QED BY <1>1, <4>1, DivMod
    <3>5. v \in Nat /\ a \div Pow2[y] = 2 * v + 1
      BY <3>3, <3>4 DEF IsOdd
    <3> HIDE DEF v, y
    <3>6. (2 * f + 1) * Pow2[z] = (2 * v + 1) * Pow2[y]
      BY <1>3, <3>3, <3>5
    <3>7. y = z
      BY <3>3, <3>5, <3>6, SameOddPart
    <3> QED BY <2>2, <3>1, <3>7 DEF y
  <2> QED BY <2>1, <2>2
<1>6. /\ t.ok = s.ok /\ t.first = a \div Pow2[z + 1] /\ t.second = b \div Pow2[z + 1]
      /\ t.firstRoot = Node(node, s.firstRoot) /\ t.secondRoot = Node(node, s.secondRoot)
  BY <1>5, ClimbForm
<1>7. AtLevel(t, m, n, k + z + 1)
  <2>1. PICK l \in Nat : l = z + 1
    BY <1>1
  <2>2. Raised(t, s, l) /\ n >= 1
    BY <1>6, <2>1 DEF Raised
  <2> HIDE DEF t
  <2>3. AtLevel(t, m, n, k + l)
    BY <2>2, LevelUp
  <2>4. k + l = k + z + 1
    BY <2>1
  <2> QED BY <2>3, <2>4
<1>8. t.first = f
  <2> HIDE DEF p, t, a
  <2>1. f * (2 * p) <= u * p /\ u * p < (f + 1) * (2 * p)
    <3> DEFINE x == f * p
    <3>1. x \in Nat /\ f * (2 * p) = 2 * x /\ u * p = 2 * x + p /\ (f + 1) * (2 * p) = 2 * x + 2 * p
      BY <1>2
    <3> HIDE DEF x, u
    <3> QED BY <1>2, <3>1
  <2>2. a \div (2 * p) = f
    <3> HIDE DEF u
    <3>1. 2 * p \in Nat /\ 2 * p >= 1
      BY <1>2
    <3> QED BY <1>1, <1>3, <2>1, <3>1, DivUnique
  <2> QED BY <1>2, <1>6, <2>2
<1>9. u * r = a * e
  <2> HIDE DEF u, a, r, e, p
  <2> QED BY <1>1, <1>2, <1>3
<1>10. a * e \in Nat /\ a * e < m /\ a * e < n /\ IsLast(m, k, a)
  <2>1. a = (m - 1) \div e
    BY DEF AtLevel
  <2>2. a * e \in Nat /\ a * e < m /\ IsLast(m, k, a)
    BY <2>1, LevelBounds
  <2> HIDE DEF a, e
  <2> QED BY <2>2
<1>11. Tree(g, m, k + z, u) = Tree(g, m, k, a)
  <2>1. Shifted(a, u, z) /\ IsLast(m, k, a)
    BY <1>10 DEF Joins
  <2>2. PICK i \in Nat : i = a
    BY <1>1
  <2>3. PICK j \in Nat : j = u
    BY <1>1
  <2> HIDE DEF a, u
  <2>4. Shifted(i, j, z) /\ IsLast(m, k, i)
    BY <2>1, <2>2, <2>3
  <2>5. Tree(g, m, Up(k, z), j) = Tree(g, m, k, i)
    BY <2>4, TreeLast
  <2> QED BY <2>2, <2>3, <2>5 DEF Up
<1>12. Tree(h, n, k + z, u) = Tree(h, n, k, a)
  <2>1. CASE z = 0
    <3>1. p = 1 /\ k + z = k
      BY <1>2, <2>1
    <3>2. a = u
      <4> HIDE DEF a, u, p
      <4> QED BY <1>1, <1>3, <3>1
    <3> HIDE DEF a, u
    <3> QED BY <3>1, <3>2
  <2>2. CASE a = b
    <3>1. a = (n - 1) \div e
      BY <2>2 DEF AtLevel
    <3>2. n >= 1
      OBVIOUS
    <3>3. Shifted(a, u, z) /\ IsLast(n, k, a)
      BY <3>1, <3>2, LevelBounds DEF Joins
    <3>4. PICK i \in Nat : i = a
      BY <1>1
    <3>5. PICK j \in Nat : j = u
      BY <1>1
    <3> HIDE DEF a, u
    <3>6. Shifted(i, j, z) /\ IsLast(n, k, i)
      BY <3>3, <3>4, <3>5
    <3>7. Tree(h, n, Up(k, z), j) = Tree(h, n, k, i)
      BY <3>6, TreeLast
    <3> QED BY <3>4, <3>5, <3>7 DEF Up
  <2> QED BY <2>1, <2>2
<1>13. u * r < m /\ u * r < n
  BY <1>9, <1>10
<1>14. Tree(g, m, k + z + 1, f) = Node(Tree(g, m, k + z, 2 * f), Tree(g, m, k + z, u))
  BY <1>1, <1>13, TreePair
<1>15. Tree(h, n, k + z + 1, f) = Node(Tree(h, n, k + z, 2 * f), Tree(h, n, k + z, u))
  BY <1>1, <1>13, TreePair
<1> QED BY <1>6, <1>7, <1>8, <1>9, <1>11, <1>12, <1>13, <1>14, <1>15 DEF Joined

\* The turn that joins the climbed node of the second tree with the one right of it; the
\* first tree has none there.
Twice(a, f) == a = 2 * f
Alone(s, node, g, m, h, n, k, f) ==
  LET t == Climb(s, node) IN
  /\ t.ok = s.ok /\ t.first = f /\ AtLevel(t, m, n, k + 1)
  /\ t.firstRoot = s.firstRoot /\ t.secondRoot = Node(s.secondRoot, node)
  /\ Tree(g, m, k + 1, f) = Tree(g, m, k, s.first)
  /\ Tree(h, n, k + 1, f) = Node(Tree(h, n, k, s.first), Tree(h, n, k, 2 * f + 1))
  /\ f * Pow2[k + 1] = s.first * Pow2[k]

LEMMA ClimbAlone ==
  ASSUME NEW H, NEW s \in States(H), NEW node, NEW g, NEW h,
         NEW m \in Nat, m >= 1, NEW n \in Nat, m < n, NEW k \in Nat, AtLevel(s, m, n, k),
         s.second # 0, NEW f \in Nat, Twice(s.first, f), s.first # s.second
  PROVE  Alone(s, node, g, m, h, n, k, f)
<1> DEFINE a == s.first
           b == s.second
           t == Climb(s, node)
           e == Pow2[k]
<1>1. a = 2 * f
  BY DEF Twice
<1>2. a \in Nat /\ b \in Nat /\ k + 1 \in Nat
  BY DEF States
<1>3. e \in Nat /\ e >= 1 /\ Pow2[k + 1] = 2 * e /\ Pow2[1] = 2
  <2>1. Pow2[0 + 1] = 2 * Pow2[0] /\ 0 + 1 = 1 /\ 0 \in Nat /\ Pow2[0] = 1
    BY Pow2Form
  <2> QED BY <2>1, Pow2Form
<1>4. ~ IsOdd(a) /\ a \div 2 = f
  BY <1>2, <1>1 DEF IsOdd
<1>5. /\ t.ok = s.ok /\ t.first = a \div 2 /\ t.second = b \div 2
      /\ t.firstRoot = s.firstRoot /\ t.secondRoot = Node(s.secondRoot, node)
  BY <1>4, ClimbForm
<1>6. AtLevel(t, m, n, k + 1)
  <2>1. Raised(t, s, 1) /\ n >= 1 /\ 1 \in Nat
    BY <1>3, <1>5 DEF Raised
  <2> HIDE DEF t
  <2> QED BY <2>1, LevelUp
<1>7. a * e \in Nat /\ a * e < m /\ m <= (a + 1) * e /\ IsLast(m, k, a)
  <2>1. a = (m - 1) \div e
    BY DEF AtLevel
  <2> QED BY <2>1, LevelBounds DEF IsLast
<1>8. b * e \in Nat /\ b * e < n /\ n <= (b + 1) * e
  <2>1. b = (n - 1) \div e /\ n >= 1
    BY DEF AtLevel
  <2> QED BY <2>1, LevelBounds DEF IsLast
<1>9. a < b
  <2> SUFFICES ASSUME b + 1 <= a PROVE FALSE
    BY <1>2
  <2> HIDE DEF a, b, e
  <2>1. (b + 1) * e <= a * e
    BY <1>2, <1>3
  <2>2. (b + 1) * e \in Nat
    BY <1>2, <1>3
  <2> QED BY <1>7, <1>8, <2>1, <2>2
<1>10. (a + 1) * e < n
  <2> HIDE DEF a, b, e
  <2>1. (a + 1) * e <= b * e
    BY <1>2, <1>3, <1>9
  <2>2. (a + 1) * e \in Nat
    BY <1>2, <1>3
  <2> QED BY <1>8, <2>1, <2>2
<1>11. Shifted(a, f, 1) /\ 1 \in Nat
  BY <1>3, <1>1 DEF Shifted
<1>12. Tree(g, m, k + 1, f) = Tree(g, m, k, a)
  <2>1. PICK i \in Nat : i = a
    BY <1>2
  <2> HIDE DEF a
  <2>2. Shifted(i, f, 1) /\ IsLast(m, k, i) /\ 1 \in Nat
    BY <1>7, <1>11, <2>1
  <2>3. Tree(g, m, Up(k, 1), f) = Tree(g, m, k, i)
    BY <2>2, TreeLast
  <2> QED BY <2>1, <2>3 DEF Up
<1>13. Tree(h, n, k + 1, f) = Node(Tree(h, n, k, 2 * f), Tree(h, n, k, 2 * f + 1))
  <2>1. (2 * f + 1) * Pow2[k] < n
    <3>1. 2 * f + 1 = a + 1
      BY <1>1
    <3> HIDE DEF a
    <3> QED BY <1>10, <3>1
  <2> QED BY <2>1, TreePair
<1>14. f * (2 * e) = a * e
  <2> HIDE DEF e
  <2> QED BY <1>3, <1>1
<1> QED BY <1>3, <1>4, <1>5, <1>6, <1>12, <1>13, <1>14, <1>1 DEF Alone


-------------------------------------------------------------------------------
(* What a consistency proof shows.                                                *)

\* The hashes of g after position a are those of h, as far as g goes.
Agree(g, h, a, m) == \A x \in a + 1..m : g[x] = h[x]

LEMMA AgreeMore ==
  ASSUME NEW g, NEW h, NEW m \in Nat, NEW a \in Nat, NEW n \in Nat,
         SameHashes(g, a, h, a, n), Agree(g, h, a + n, m)
  PROVE  Agree(g, h, a, m)
<1> SUFFICES ASSUME NEW x \in a + 1..m PROVE g[x] = h[x]
  BY DEF Agree
<1>1. CASE x <= a + n
  <2>1. x - a \in 1..n /\ a + (x - a) = x
    BY <1>1
  <2>2. g[a + (x - a)] = h[a + (x - a)]
    BY <2>1 DEF SameHashes
  <2> QED BY <2>1, <2>2
<1>2. CASE ~ x <= a + n
  <2>1. x \in a + n + 1..m
    BY <1>2
  <2> QED BY <2>1 DEF Agree
<1> QED BY <1>1, <1>2

\* A node that is not short, at the place of its first hash.
LEMMA FullNode ==
  ASSUME NEW h, NEW N \in Nat, NEW k \in Nat, NEW i \in Nat, (i + 1) * Pow2[k] <= N
  PROVE  Tree(h, N, k, i) = RangeRoot(h)[Pow2[k]][i * Pow2[k]]
BY DEF Tree, Width

\* Where both trees have a node that is not short, the same hash means the same hashes.
LEMMA SameNode ==
  ASSUME NEW g, NEW h, NEW m \in Nat, NEW n \in Nat, NEW k \in Nat, NEW i \in Nat,
         (i + 1) * Pow2[k] <= m, m <= n, Tree(g, m, k, i) = Tree(h, n, k, i)
  PROVE  i * Pow2[k] \in Nat /\ SameHashes(g, i * Pow2[k], h, i * Pow2[k], Pow2[k])
<1> DEFINE p == Pow2[k]
           a == i * p
           b == (i + 1) * p
<1>1. p \in Nat /\ p >= 1
  BY Pow2Form
<1>2. a \in Nat /\ b \in Nat
  <2> HIDE DEF p
  <2> QED BY <1>1
<1>3. b <= n
  <2>1. b <= m
    OBVIOUS
  <2> HIDE DEF b
  <2> QED BY <1>2, <2>1
<1>4. Tree(g, m, k, i) = RangeRoot(g)[p][a] /\ Tree(h, n, k, i) = RangeRoot(h)[p][a]
  BY <1>3, FullNode
<1>5. RangeRoot(g)[p][a] = RangeRoot(h)[p][a]
  BY <1>4
<1> HIDE DEF p, a, b
<1>6. SameHashes(g, a, h, a, p)
  BY <1>1, <1>2, <1>5, RootsCommit
<1> QED BY <1>2, <1>6 DEF p, a

\* What the verifier has at a level is what the trees have there, and g begins h if only
\* it does so from there on.
Good(s, g, m, h, n, k) ==
  /\ s.firstRoot = Tree(g, m, k, s.first)
  /\ s.secondRoot = Tree(h, n, k, s.first)
  /\ Agree(g, h, s.first * Pow2[k], m) => Agree(g, h, 0, m)

LEMMA JoinDescends ==
  ASSUME NEW H, NEW s \in States(H), NEW node, NEW g, NEW h,
         NEW m \in Nat, m >= 1, NEW n \in Nat, m < n, NEW k \in Nat, AtLevel(s, m, n, k),
         s.second # 0, NEW z \in Nat, NEW f \in Nat, Joins(s.first, f, z),
         z = 0 \/ s.first = s.second
  PROVE  \E l \in Nat : /\ AtLevel(Climb(s, node), m, n, l)
                        /\ Good(Climb(s, node), g, m, h, n, l) => Good(s, g, m, h, n, k)
<1> DEFINE t == Climb(s, node)
           j == k + z
           l == k + z + 1
           r == Pow2[j]
           c == (2 * f) * r
<1>1. Joined(s, node, g, m, h, n, k, z, f)
  BY ClimbJoins
<1>2. /\ t.ok = s.ok /\ t.first = f /\ AtLevel(t, m, n, k + z + 1)
      /\ t.firstRoot = Node(node, s.firstRoot) /\ t.secondRoot = Node(node, s.secondRoot)
      /\ Tree(g, m, k + z + 1, f) = Node(Tree(g, m, k + z, 2 * f), Tree(g, m, k, s.first))
      /\ Tree(h, n, k + z + 1, f) = Node(Tree(h, n, k + z, 2 * f), Tree(h, n, k, s.first))
      /\ (2 * f + 1) * Pow2[k + z] = s.first * Pow2[k]
      /\ (2 * f + 1) * Pow2[k + z] < m
  BY <1>1 DEF Joined
<1>3. j \in Nat /\ l \in Nat /\ l = j + 1 /\ r \in Nat /\ r >= 1 /\ Pow2[l] = 2 * r
  BY Pow2Form
<1>4. c \in Nat /\ (2 * f + 1) * r = c + r /\ f * (2 * r) = c
  <2> HIDE DEF r
  <2> QED BY <1>3
<1>5. ASSUME Good(t, g, m, h, n, l)
      PROVE  Good(s, g, m, h, n, k)
  <2>1. t.firstRoot = Tree(g, m, l, f) /\ t.secondRoot = Tree(h, n, l, f)
        /\ (Agree(g, h, f * Pow2[l], m) => Agree(g, h, 0, m))
    BY <1>2, <1>5 DEF Good
  <2>2. Node(node, s.firstRoot) = Node(Tree(g, m, j, 2 * f), Tree(g, m, k, s.first))
        /\ Node(node, s.secondRoot) = Node(Tree(h, n, j, 2 * f), Tree(h, n, k, s.first))
    BY <1>2, <2>1
  <2>3. /\ s.firstRoot = Tree(g, m, k, s.first) /\ s.secondRoot = Tree(h, n, k, s.first)
        /\ Tree(g, m, j, 2 * f) = Tree(h, n, j, 2 * f)
    BY <2>2 DEF Node
  <2>4. (2 * f + 1) * Pow2[j] <= m
    <3> HIDE DEF r
    <3>1. c + r < m /\ (2 * f + 1) * Pow2[j] = c + r
      BY <1>2, <1>4 DEF r
    <3> HIDE DEF c
    <3> QED BY <1>3, <1>4, <3>1
  <2>5. SameHashes(g, c, h, c, r)
    <3>1. PICK i \in Nat : i = 2 * f
      OBVIOUS
    <3>2. (i + 1) * Pow2[j] <= m /\ m <= n /\ Tree(g, m, j, i) = Tree(h, n, j, i)
      BY <2>3, <2>4, <3>1
    <3> HIDE DEF j
    <3>3. SameHashes(g, i * Pow2[j], h, i * Pow2[j], Pow2[j])
      BY <1>3, <3>2, SameNode
    <3> QED BY <3>1, <3>3
  <2>6. ASSUME Agree(g, h, s.first * Pow2[k], m)
        PROVE  Agree(g, h, 0, m)
    <3>1. Agree(g, h, c + r, m)
      <4>1. s.first * Pow2[k] = c + r
        BY <1>2, <1>4
      <4> HIDE DEF c, r
      <4> QED BY <2>6, <4>1
    <3>2. Agree(g, h, c, m)
      <4> HIDE DEF c, r
      <4> QED BY <1>3, <1>4, <2>5, <3>1, AgreeMore
    <3>3. f * Pow2[l] = c
      <4>1. f * Pow2[l] = f * (2 * r)
        BY <1>3
      <4> HIDE DEF r, l, c
      <4> QED BY <1>4, <4>1
    <3> HIDE DEF c, l
    <3> QED BY <2>1, <3>2, <3>3
  <2> QED BY <2>3, <2>6 DEF Good
<1> QED BY <1>2, <1>3, <1>5

LEMMA AloneDescends ==
  ASSUME NEW H, NEW s \in States(H), NEW node, NEW g, NEW h,
         NEW m \in Nat, m >= 1, NEW n \in Nat, m < n, NEW k \in Nat, AtLevel(s, m, n, k),
         s.second # 0, NEW f \in Nat, Twice(s.first, f), s.first # s.second
  PROVE  \E l \in Nat : /\ AtLevel(Climb(s, node), m, n, l)
                        /\ Good(Climb(s, node), g, m, h, n, l) => Good(s, g, m, h, n, k)
<1> DEFINE t == Climb(s, node)
           l == k + 1
<1>1. Alone(s, node, g, m, h, n, k, f)
  BY ClimbAlone
<1>2. /\ t.ok = s.ok /\ t.first = f /\ AtLevel(t, m, n, k + 1)
      /\ t.firstRoot = s.firstRoot /\ t.secondRoot = Node(s.secondRoot, node)
      /\ Tree(g, m, k + 1, f) = Tree(g, m, k, s.first)
      /\ Tree(h, n, k + 1, f) = Node(Tree(h, n, k, s.first), Tree(h, n, k, 2 * f + 1))
      /\ f * Pow2[k + 1] = s.first * Pow2[k]
  BY <1>1 DEF Alone
<1>3. l \in Nat
  OBVIOUS
<1>4. ASSUME Good(t, g, m, h, n, l)
      PROVE  Good(s, g, m, h, n, k)
  <2>1. t.firstRoot = Tree(g, m, l, f) /\ t.secondRoot = Tree(h, n, l, f)
        /\ (Agree(g, h, f * Pow2[l], m) => Agree(g, h, 0, m))
    BY <1>2, <1>4 DEF Good
  <2>2. Node(s.secondRoot, node) = Node(Tree(h, n, k, s.first), Tree(h, n, k, 2 * f + 1))
        /\ s.firstRoot = Tree(g, m, k, s.first)
    BY <1>2, <2>1
  <2>3. s.secondRoot = Tree(h, n, k, s.first)
    BY <2>2 DEF Node
  <2>4. f * Pow2[l] = s.first * Pow2[k]
    BY <1>2
  <2> QED BY <2>1, <2>2, <2>3, <2>4 DEF Good
<1> QED BY <1>2, <1>3, <1>4

LEMMA Descends ==
  ASSUME NEW H, NEW s \in States(H), NEW node, NEW g, NEW h,
         NEW m \in Nat, m >= 1, NEW n \in Nat, m < n, NEW k \in Nat, AtLevel(s, m, n, k),
         s.second # 0
  PROVE  \E l \in Nat : /\ AtLevel(Climb(s, node), m, n, l)
                        /\ Good(Climb(s, node), g, m, h, n, l) => Good(s, g, m, h, n, k)
<1> DEFINE a == s.first
<1>1. a \in Nat
  BY DEF States
<1>2. CASE IsOdd(a)
  <2>1. PICK f \in Nat : a = 2 * f + 1
    BY <1>1, <1>2 DEF IsOdd
  <2>2. Joins(a, f, 0)
    <3>1. Pow2[0] = 1
      BY Pow2Form
    <3> QED BY <2>1, <3>1 DEF Joins, Shifted
  <2>3. 0 \in Nat
    OBVIOUS
  <2> QED BY <2>2, <2>3, JoinDescends
<1>3. CASE ~ IsOdd(a) /\ a = s.second
  <2> DEFINE z == LowZeros(a)
             q == a \div Pow2[z]
  <2>1. z \in Nat /\ IsOdd(q) /\ a = q * Pow2[z]
    BY <1>1, <1>3, LowZerosForm
  <2>2. q \in Nat
    <3> HIDE DEF z
    <3>1. Pow2[z] \in Nat /\ Pow2[z] >= 1
      BY <2>1, Pow2Form
    <3> QED BY <1>1, <3>1, DivMod
  <2> HIDE DEF z, q
  <2>3. PICK f \in Nat : q = 2 * f + 1
    BY <2>1, <2>2 DEF IsOdd
  <2>4. Joins(s.first, f, z)
    BY <2>1, <2>3 DEF Joins, Shifted
  <2> QED BY <1>3, <2>1, <2>4, JoinDescends
<1>4. CASE ~ IsOdd(a) /\ a # s.second
  <2>1. PICK f \in Nat : a = 2 * f
    BY <1>1, <1>4 DEF IsOdd
  <2>2. Twice(s.first, f)
    BY <2>1 DEF Twice
  <2> QED BY <1>4, <2>2, AloneDescends
<1> QED BY <1>2, <1>3, <1>4


\* Where the verifier starts: the last node of the first tree that is not short.
LEMMA Starts ==
  ASSUME NEW m \in Nat, m >= 1, NEW n \in Nat, m < n
  PROVE  \E k \in Nat : \E f \in Nat :
           /\ k = LowOnes(m - 1) /\ f = (m - 1) \div Pow2[k] /\ ~ IsOdd(f)
           /\ m = (f + 1) * Pow2[k]
<1> DEFINE x == m - 1
           k == LowOnes(x)
           f == x \div Pow2[k]
<1>1. x \in Nat /\ x + 1 = m
  OBVIOUS
<1> HIDE DEF x
<1>2. k \in Nat /\ ~ IsOdd(f) /\ x + 1 = (f + 1) * Pow2[k]
  BY <1>1, LowOnesForm
<1> HIDE DEF k
<1>3. Pow2[k] \in Nat /\ Pow2[k] >= 1
  BY <1>2, Pow2Form
<1>4. f \in Nat
  BY <1>1, <1>3, DivMod
<1> HIDE DEF f
<1> QED BY <1>1, <1>2, <1>4 DEF f, k, x

\* Every turn but the last is made while the second tree goes on.
LEMMA GoesOn ==
  ASSUME NEW H, Closed(H), NEW m \in Nat, m >= 1, NEW n \in Nat, n >= 1,
         NEW path, \A i \in Nat : path[i] \in H, NEW L \in Nat, Climbs(m, n, path)[L].ok
  PROVE  \A i \in 1..L - 1 : Climbs(m, n, path)[i].second # 0
<1> DEFINE at == Climbs(m, n, path)
           Bad == {d \in Nat : d < L /\ ~ at[L - d].ok}
<1>1. \A i \in Nat : at[i] \in States(H)
  BY ClimbsType
<1>2. ClimbsOn(at, m, n, path)
  BY ClimbsValue
<1>3. \A i \in Nat : i > 1 => at[i] = Climb(at[i - 1], path[i])
  BY <1>2 DEF ClimbsOn
<1>4. at[L].ok
  OBVIOUS
<1> HIDE DEF at
<1>5. ASSUME NEW i \in 1..L - 1
      PROVE  /\ at[i].second = 0 => ~ at[i + 1].ok
             /\ at[i].second # 0 => at[i + 1].ok = at[i].ok
  <2>1. i \in Nat /\ i + 1 \in Nat /\ i + 1 > 1 /\ (i + 1) - 1 = i
    OBVIOUS
  <2>2. at[i + 1] = Climb(at[i], path[i + 1]) /\ at[i] \in States(H)
    BY <1>1, <1>3, <2>1
  <2> DEFINE s == at[i]
             node == path[i + 1]
  <2> HIDE DEF s, node
  <2>3. s \in States(H)
    BY <2>2 DEF s
  <2>4. /\ s.second = 0 => ~ Climb(s, node).ok
        /\ s.second # 0 => Climb(s, node).ok = s.ok
    BY <2>3, ClimbForm
  <2> QED BY <2>2, <2>4 DEF s, node
<1>6. Bad = {}
  <2> SUFFICES ASSUME Bad # {} PROVE FALSE
    OBVIOUS
  <2>1. PICK d \in Bad : \A e \in Bad : d <= e
    <3>1. Bad \subseteq Nat
      OBVIOUS
    <3> HIDE DEF Bad
    <3> QED BY <3>1, LeastNat
  <2>2. d \in Nat /\ d < L /\ ~ at[L - d].ok
    BY <2>1
  <2>3. d # 0
    BY <1>4, <2>2
  <2>4. d - 1 \in Nat /\ d - 1 < L /\ d - 1 \notin Bad
    BY <2>1, <2>2, <2>3
  <2>5. at[L - (d - 1)].ok
    BY <2>4
  <2>6. L - d \in 1..L - 1 /\ (L - d) + 1 = L - (d - 1)
    BY <2>2, <2>3
  <2> HIDE DEF Bad
  <2> QED BY <1>5, <2>2, <2>5, <2>6
<1>7. ASSUME NEW i \in 1..L - 1
      PROVE  at[i].second # 0
  <2>1. L - (i + 1) \in Nat /\ L - (i + 1) < L /\ L - (L - (i + 1)) = i + 1
    OBVIOUS
  <2>2. at[i + 1].ok
    BY <1>6, <2>1
  <2> QED BY <1>5, <2>2
<1> QED BY <1>7 DEF at

LEMMA DivNone ==
  ASSUME NEW a \in Nat, NEW n \in Nat, a < n
  PROVE  a \div n = 0
OBVIOUS

\* The top of a tree.
LEMMA TopNode ==
  ASSUME NEW h, NEW N \in Nat, NEW k \in Nat, N <= Pow2[k]
  PROVE  Tree(h, N, k, 0) = RangeRoot(h)[N][0]
<1> DEFINE p == Pow2[k]
<1>1. p \in Nat /\ (0 + 1) * p = p /\ 0 * p = 0
  BY Pow2Form
<1>2. Width(N, k, 0) = N
  <2>1. Width(N, k, 0) = IF p <= N THEN p ELSE N - 0
    BY <1>1 DEF Width
  <2>2. N <= p
    OBVIOUS
  <2> HIDE DEF p
  <2> QED BY <1>1, <2>1, <2>2
<1> QED BY <1>1, <1>2 DEF Tree

\* A path that takes the verifier to the roots of g and of h shows that g begins h.
LEMMA ConsistencyCommits ==
  ASSUME NEW g, NEW h, NEW m \in Nat, m >= 1, NEW n \in Nat, m < n,
         NEW P, NEW path \in Seq(P), path # <<>>,
         Climbed(m, n, path).ok, Climbed(m, n, path).second = 0,
         Climbed(m, n, path).firstRoot = RangeRoot(g)[m][0],
         Climbed(m, n, path).secondRoot = RangeRoot(h)[n][0]
  PROVE  SameHashes(g, 0, h, 0, m)
<1> DEFINE at == Climbs(m, n, path)
           L == Len(path)
           S == {path[i] : i \in Nat}
<1>1. PICK H : S \subseteq H /\ Closed(H)
  BY Closure
<1>2. n >= 1 /\ L \in Nat /\ L >= 1 /\ \A i \in Nat : path[i] \in H
  BY <1>1, EmptySeq
<1>3. \A i \in Nat : at[i] \in States(H)
  BY <1>1, <1>2, ClimbsType
<1>4. ClimbsOn(at, m, n, path)
  BY <1>2, ClimbsValue
<1>5. \A i \in Nat : i > 1 => at[i] = Climb(at[i - 1], path[i])
  BY <1>4 DEF ClimbsOn
<1>6. at[1] = Start(m, n, path)
  BY <1>4 DEF ClimbsOn
<1>7. /\ at[L].ok /\ at[L].second = 0
      /\ at[L].firstRoot = RangeRoot(g)[m][0] /\ at[L].secondRoot = RangeRoot(h)[n][0]
  BY DEF Climbed
<1>8. \A i \in 1..L - 1 : at[i].second # 0
  BY <1>1, <1>2, <1>7, GoesOn
<1> HIDE DEF at, L
<1>9. ASSUME NEW k \in Nat, AtLevel(at[L], m, n, k)
      PROVE  Good(at[L], g, m, h, n, k)
  <2> DEFINE s == at[L]
             p == Pow2[k]
  <2>1. s.first \in Nat /\ s.first = (m - 1) \div p /\ (n - 1) \div p = 0 /\ s.second = 0
    BY <1>2, <1>3, <1>7, <1>9 DEF AtLevel, States
  <2>2. p \in Nat /\ p >= 1
    BY Pow2Form
  <2>3. n <= p /\ m <= p
    <3>1. IsLast(n, k, 0)
      BY <1>2, <2>1, LevelBounds
    <3>2. n <= (0 + 1) * p
      BY <3>1 DEF IsLast
    <3> HIDE DEF p
    <3> QED BY <2>2, <3>2
  <2>4. s.first = 0
    <3> HIDE DEF p, s
    <3>1. m - 1 \in Nat /\ m - 1 < p
      BY <2>2, <2>3
    <3>2. PICK x \in Nat : x = m - 1
      BY <3>1
    <3>3. x \div p = 0
      BY <2>2, <3>1, <3>2, DivNone
    <3> QED BY <2>1, <3>2, <3>3
  <2>5. Tree(g, m, k, 0) = RangeRoot(g)[m][0] /\ Tree(h, n, k, 0) = RangeRoot(h)[n][0]
    BY <2>3, TopNode
  <2>6. 0 * p = 0
    BY <2>2
  <2> HIDE DEF s
  <2> QED BY <1>7, <2>4, <2>5, <2>6 DEF Good, s
<1> DEFINE Bad == {d \in Nat : d < L /\ \E k \in Nat : /\ AtLevel(at[L - d], m, n, k)
                                                      /\ ~ Good(at[L - d], g, m, h, n, k)}
<1>10. Bad = {}
  <2> SUFFICES ASSUME Bad # {} PROVE FALSE
    OBVIOUS
  <2>1. PICK d \in Bad : \A e \in Bad : d <= e
    <3>1. Bad \subseteq Nat
      OBVIOUS
    <3> HIDE DEF Bad
    <3> QED BY <3>1, LeastNat
  <2>2. d \in Nat /\ d < L
    BY <2>1
  <2>3. PICK k \in Nat : AtLevel(at[L - d], m, n, k) /\ ~ Good(at[L - d], g, m, h, n, k)
    BY <2>1
  <2>4. d # 0
    <3> SUFFICES ASSUME d = 0 PROVE FALSE
      OBVIOUS
    <3>1. L - d = L
      BY <1>2
    <3> QED BY <1>9, <2>3, <3>1
  <2>5. d - 1 \in Nat /\ d - 1 < L /\ d - 1 \notin Bad
    <3>1. d - 1 \in Nat /\ d - 1 < L /\ ~ (d <= d - 1)
      BY <1>2, <2>2, <2>4
    <3> HIDE DEF Bad
    <3> QED BY <2>1, <3>1
  <2> DEFINE i == L - d
             s == at[i]
             node == path[i + 1]
  <2>6. i \in 1..L - 1 /\ i \in Nat /\ i + 1 \in Nat /\ i + 1 > 1 /\ (i + 1) - 1 = i
        /\ i + 1 = L - (d - 1)
    BY <1>2, <2>2, <2>4
  <2>7. s \in States(H) /\ s.second # 0 /\ at[i + 1] = Climb(s, node)
    BY <1>3, <1>5, <1>8, <2>6
  <2>8. PICK l \in Nat : /\ AtLevel(Climb(s, node), m, n, l)
                         /\ Good(Climb(s, node), g, m, h, n, l) => Good(s, g, m, h, n, k)
    <3> HIDE DEF s, node, i
    <3> QED BY <2>3, <2>7, Descends DEF s, i
  <2>9. Good(at[i + 1], g, m, h, n, l)
    <3>1. AtLevel(at[L - (d - 1)], m, n, l)
      BY <2>6, <2>7, <2>8
    <3>2. Good(at[L - (d - 1)], g, m, h, n, l)
      BY <2>5, <3>1
    <3> QED BY <2>6, <3>2
  <2> QED BY <2>3, <2>7, <2>8, <2>9
<1>11. PICK k \in Nat, f \in Nat :
           /\ k = LowOnes(m - 1) /\ f = (m - 1) \div Pow2[k] /\ ~ IsOdd(f)
           /\ m = (f + 1) * Pow2[k]
  BY Starts
<1>12. AtLevel(at[1], m, n, k) /\ at[1].first = f /\ at[1].firstRoot = at[1].secondRoot
  BY <1>6, <1>11 DEF Start, AtLevel
<1>13. Good(at[1], g, m, h, n, k)
  <2>1. L - 1 \in Nat /\ L - 1 < L /\ L - (L - 1) = 1
    BY <1>2
  <2> QED BY <1>10, <1>12, <2>1
<1> DEFINE p == Pow2[k]
           c == f * p
<1>14. Tree(g, m, k, f) = Tree(h, n, k, f)
  BY <1>12, <1>13 DEF Good
<1>15. c \in Nat /\ SameHashes(g, c, h, c, p)
  <2>1. (f + 1) * Pow2[k] <= m /\ m <= n
    <3> DEFINE b == (f + 1) * Pow2[k]
    <3>1. m = b
      BY <1>11
    <3> HIDE DEF b
    <3>2. b <= m /\ m <= n
      BY <3>1
    <3> QED BY <3>2 DEF b
  <2> QED BY <1>14, <2>1, SameNode
<1>16. m = c + p /\ p \in Nat
  <2>1. p \in Nat /\ m = (f + 1) * p
    BY <1>11, Pow2Form
  <2> HIDE DEF p
  <2> QED BY <2>1
<1>17. Agree(g, h, c, m)
  <2>1. Agree(g, h, c + p, m)
    <3> HIDE DEF c, p
    <3> QED BY <1>15, <1>16 DEF Agree
  <2> HIDE DEF c, p
  <2> QED BY <1>15, <1>16, <2>1, AgreeMore
<1>18. Agree(g, h, 0, m)
  BY <1>12, <1>13, <1>17 DEF Good
<1> QED BY <1>18 DEF Agree, SameHashes


-------------------------------------------------------------------------------
(* The proof that was made from the leaves takes the verifier to both roots.      *)

\* The s hashes from a on are node F of level K, in the tree of n hashes.
Covers(n, s, a, K, F) ==
  /\ a = F * Pow2[K] /\ a + s <= n /\ s <= Pow2[K]
  /\ s = Pow2[K] \/ a + s = n
  /\ K = 0 \/ Pow2[K - 1] < s

\* The first f of them are the last ones of the tree of m hashes.
Fits(m, n, s, a, f, K, F) ==
  /\ Covers(n, s, a, K, F) /\ a + f = m /\ f <= s
  /\ f < s \/ (s = Pow2[K] /\ ~ IsOdd(F))

\* The verifier is at node F of level K in both trees, with the right hashes.
Reached(st, h, m, n, K, F) ==
  /\ st.ok /\ AtLevel(st, m, n, K) /\ st.first = F
  /\ st.firstRoot = Tree(h, m, K, F) /\ st.secondRoot = Tree(h, n, K, F)

\* From node G of level j, the node of the proof takes it there.
Lifts(H, h, m, n, j, G, node, K, F) ==
  \A st \in States(H) : Reached(st, h, m, n, j, G) => Reached(Climb(st, node), h, m, n, K, F)

LEMMA CoveredNode ==
  ASSUME NEW h, NEW n \in Nat, NEW s \in Nat, NEW a \in Nat, NEW K \in Nat, NEW F \in Nat,
         Covers(n, s, a, K, F)
  PROVE  Tree(h, n, K, F) = RangeRoot(h)[s][a]
<1> DEFINE p == Pow2[K]
<1>1. p \in Nat /\ a = F * p /\ a + s <= n /\ s <= p /\ (s = p \/ a + s = n)
  BY Pow2Form DEF Covers
<1> HIDE DEF p
<1>2. (F + 1) * p = a + p
  BY <1>1
<1>3. Width(n, K, F) = IF a + p <= n THEN p ELSE n - a
  BY <1>1, <1>2 DEF Width, p
<1>4. a + s <= n /\ s <= p /\ (s = p \/ a + s = n)
  BY <1>1
<1>5. (IF a + p <= n THEN p ELSE n - a) = s
  <2>1. \A x \in Nat : x = a => (IF x + p <= n THEN p ELSE n - x) = s
    BY <1>1, <1>4
  <2> QED BY <2>1
<1> QED BY <1>1, <1>3, <1>5 DEF Tree, p

LEMMA CoveredSplit ==
  ASSUME NEW n \in Nat, NEW s \in Nat, s > 1, NEW a \in Nat, NEW K \in Nat, NEW F \in Nat,
         Covers(n, s, a, K, F)
  PROVE  \E j \in Nat : /\ K = j + 1 /\ Split(s) = Pow2[j] /\ Pow2[j] < s /\ s <= Pow2[j + 1]
                        /\ Pow2[j + 1] = 2 * Pow2[j]
<1>1. K # 0
  <2> SUFFICES ASSUME K = 0 PROVE FALSE
    OBVIOUS
  <2>1. Pow2[0] = 1 /\ s <= Pow2[0]
    BY Pow2Form DEF Covers
  <2> QED BY <2>1
<1>2. PICK j \in Nat : j = K - 1 /\ K = j + 1
  BY <1>1
<1>3. Pow2[j] < s /\ s <= Pow2[j + 1]
  BY <1>1, <1>2 DEF Covers
<1>4. Split(s) = Pow2[j]
  BY <1>3, SplitIs DEF Split
<1>5. Pow2[j + 1] = 2 * Pow2[j]
  BY Pow2Form
<1> QED BY <1>2, <1>3, <1>4, <1>5

\* The node that the first hashes end in.
LEMMA FittedLevel ==
  ASSUME NEW m \in Nat, NEW n \in Nat, NEW s \in Nat, NEW a \in Nat, NEW f \in Nat, f >= 1,
         NEW K \in Nat, NEW F \in Nat, Fits(m, n, s, a, f, K, F)
  PROVE  (m - 1) \div Pow2[K] = F
<1> DEFINE p == Pow2[K]
<1>1. p \in Nat /\ p >= 1 /\ a = F * p /\ s <= p /\ a + f = m /\ f <= s
  BY Pow2Form DEF Fits, Covers
<1> HIDE DEF p
<1>2. (F + 1) * p = a + p
  BY <1>1
<1>3. PICK x \in Nat : x = m - 1
  BY <1>1
<1>4. F * p <= x /\ x < (F + 1) * p
  <2>1. a <= x /\ x < a + p
    BY <1>1, <1>3
  <2> QED BY <1>1, <1>2, <2>1
<1>5. x \div p = F
  BY <1>1, <1>4, DivUnique
<1> QED BY <1>3, <1>5 DEF p

LEMMA LeadsFrom ==
  ASSUME NEW h, NEW m \in Nat, m >= 1, NEW n \in Nat, m < n,
         NEW s \in Nat, NEW a \in Nat, NEW f \in Nat, f >= 1, NEW K \in Nat, NEW F \in Nat,
         Fits(m, n, s, a, f, K, F), f = s, NEW q, q[1] = RangeRoot(h)[s][a]
  PROVE  Reached(Start(m, n, q), h, m, n, K, F)
<1> DEFINE p == Pow2[K]
<1>1. s = p /\ ~ IsOdd(F) /\ a = F * p /\ a + f = m /\ Covers(n, s, a, K, F)
  BY DEF Fits, Covers
<1>2. p \in Nat /\ p >= 1
  BY Pow2Form
<1>3. ~ IsOdd(F) /\ Covers(n, s, a, K, F)
  BY <1>1
<1>4. PICK u \in Nat : F = 2 * u
  BY <1>3 DEF IsOdd
<1>5. PICK k \in Nat, b \in Nat :
           /\ k = LowOnes(m - 1) /\ b = (m - 1) \div Pow2[k] /\ ~ IsOdd(b)
           /\ m = (b + 1) * Pow2[k]
  BY Starts
<1>6. ~ IsOdd(b)
  BY <1>5
<1>7. PICK v \in Nat : b = 2 * v
  BY <1>6 DEF IsOdd
<1>8. m = (F + 1) * p
  <2> HIDE DEF p
  <2>1. m = F * p + p
    BY <1>1
  <2>2. (F + 1) * p = F * p + p
    BY <1>2
  <2> QED BY <2>1, <2>2
<1>9. (2 * u + 1) * Pow2[K] = (2 * v + 1) * Pow2[k]
  <2>1. F + 1 = 2 * u + 1 /\ b + 1 = 2 * v + 1
    BY <1>4, <1>7
  <2> QED BY <1>5, <1>8, <2>1
<1>10. K = k
  BY <1>9, SameOddPart
<1>11. (m - 1) \div Pow2[K] = F
  BY FittedLevel
<1> DEFINE st == Start(m, n, q)
<1>12. st.ok /\ AtLevel(st, m, n, K) /\ st.first = F
       /\ st.firstRoot = RangeRoot(h)[s][a] /\ st.secondRoot = RangeRoot(h)[s][a]
  BY <1>5, <1>10, <1>11 DEF Start, AtLevel
<1>13. Tree(h, n, K, F) = RangeRoot(h)[s][a]
  <2>1. Covers(n, s, a, K, F)
    BY <1>3
  <2>2. PICK node : node = RangeRoot(h)[s][a]
    OBVIOUS
  <2>3. Tree(h, n, K, F) = node
    BY <2>1, <2>2, CoveredNode
  <2> QED BY <2>2, <2>3
<1>14. Tree(h, m, K, F) = RangeRoot(h)[p][F * p]
  <2>1. (F + 1) * Pow2[K] <= m
    <3> DEFINE c == (F + 1) * p
    <3>1. m = c
      BY <1>8
    <3> HIDE DEF c
    <3>2. c <= m
      BY <3>1
    <3> QED BY <3>2 DEF c
  <2> QED BY <2>1, FullNode
<1> HIDE DEF st, p
<1> QED BY <1>1, <1>12, <1>13, <1>14 DEF Reached, st


LEMMA AloneReaches ==
  ASSUME NEW H, NEW s \in States(H), NEW node, NEW h,
         NEW m \in Nat, m >= 1, NEW n \in Nat, m < n, NEW k \in Nat, NEW f \in Nat, NEW G \in Nat,
         Reached(s, h, m, n, k, G), Twice(G, f), s.first # s.second, s.second # 0,
         NEW x, Tree(h, n, Up(k, 1), f) = Node(x, node)
  PROVE  Reached(Climb(s, node), h, m, n, Up(k, 1), f)
<1>1. s.ok /\ AtLevel(s, m, n, k) /\ s.first = G
      /\ s.firstRoot = Tree(h, m, k, s.first) /\ s.secondRoot = Tree(h, n, k, s.first)
  BY DEF Reached
<1>2. Twice(s.first, f)
  BY <1>1
<1>3. Alone(s, node, h, m, h, n, k, f)
  BY <1>1, <1>2, ClimbAlone
<1> DEFINE t == Climb(s, node)
<1>4. /\ t.ok = s.ok /\ t.first = f /\ AtLevel(t, m, n, k + 1)
      /\ t.firstRoot = s.firstRoot /\ t.secondRoot = Node(s.secondRoot, node)
      /\ Tree(h, m, k + 1, f) = Tree(h, m, k, s.first)
      /\ Tree(h, n, k + 1, f) = Node(Tree(h, n, k, s.first), Tree(h, n, k, 2 * f + 1))
      /\ f * Pow2[k + 1] = s.first * Pow2[k]
  BY <1>3 DEF Alone
<1> HIDE DEF t
<1>5. Tree(h, n, k, 2 * f + 1) = node
  <2>1. Tree(h, n, k + 1, f) = Node(x, node)
    BY DEF Up
  <2> QED BY <1>4, <2>1 DEF Node
<1>6. /\ t.ok /\ AtLevel(t, m, n, k + 1) /\ t.first = f
      /\ t.firstRoot = Tree(h, m, k + 1, f) /\ t.secondRoot = Tree(h, n, k + 1, f)
  BY <1>1, <1>4, <1>5
<1> QED BY <1>6 DEF Reached, Up, t

LEMMA LeadsLeft ==
  ASSUME NEW H, NEW h, NEW m \in Nat, m >= 1, NEW n \in Nat, m < n,
         NEW s \in Nat, NEW a \in Nat, NEW f \in Nat, f >= 1, NEW K \in Nat, NEW F \in Nat,
         Fits(m, n, s, a, f, K, F), f < s, f <= Split(s)
  PROVE  \E j \in Nat : \E G \in Nat :
           /\ Fits(m, n, Split(s), a, f, j, G)
           /\ Lifts(H, h, m, n, j, G, RangeRoot(h)[s - Split(s)][a + Split(s)], K, F)
<1>1. Covers(n, s, a, K, F) /\ s > 1
  BY DEF Fits
<1>2. PICK j \in Nat : /\ K = j + 1 /\ Split(s) = Pow2[j] /\ Pow2[j] < s /\ s <= Pow2[j + 1]
                       /\ Pow2[j + 1] = 2 * Pow2[j]
  BY <1>1, CoveredSplit
<1>3. PICK G \in Nat : G = 2 * F
  OBVIOUS
<1> DEFINE p == Pow2[j]
<1>4. PICK node : node = RangeRoot(h)[s - p][a + p]
  OBVIOUS
<1>5. p \in Nat /\ p >= 1 /\ p < s /\ s <= 2 * p /\ Split(s) = p /\ Pow2[K] = 2 * p
  BY <1>2, Pow2Form
<1>6. a = F * Pow2[K] /\ a + s <= n /\ a + f = m
  BY DEF Fits, Covers
<1> HIDE DEF p
<1>7. a = G * p /\ (2 * F + 1) * p = a + p
  BY <1>3, <1>5, <1>6
<1>8. Covers(n, p, a, j, G)
  <2>1. a + p <= n
    BY <1>5, <1>6
  <2>2. j = 0 \/ Pow2[j - 1] < p
    <3>1. CASE j = 0
      BY <3>1
    <3>2. CASE j # 0
      <4>1. PICK i \in Nat : i = j - 1 /\ j = i + 1
        BY <3>2
      <4>2. Pow2[i] \in Nat /\ Pow2[i] >= 1 /\ Pow2[i + 1] = 2 * Pow2[i]
        BY Pow2Form
      <4>3. Pow2[i] < Pow2[j]
        BY <4>1, <4>2
      <4> QED BY <4>1, <4>3 DEF p
    <3> QED BY <3>1, <3>2
  <2> QED BY <1>5, <1>7, <2>1, <2>2 DEF Covers, p
<1>9. Fits(m, n, p, a, f, j, G)
  <2>1. f <= p
    BY <1>5
  <2>2. ~ IsOdd(G)
    BY <1>3 DEF IsOdd
  <2>3. f < p \/ p = p
    OBVIOUS
  <2> QED BY <1>6, <1>8, <2>1, <2>2 DEF Fits, p
<1>10. RangeRoot(h)[s][a] = Node(RangeRoot(h)[p][a], node)
  <2>1. s > 1
    BY <1>1
  <2>2. RangeRoot(h)[s][a] = Node(RangeRoot(h)[Split(s)][a],
                                 RangeRoot(h)[s - Split(s)][a + Split(s)])
    BY <2>1, RootForm
  <2>3. Split(s) = p
    BY <1>5
  <2> QED BY <1>4, <2>2, <2>3
<1>11. ASSUME NEW st \in States(H), Reached(st, h, m, n, j, G)
       PROVE  Reached(Climb(st, node), h, m, n, K, F)
  <2>1. st.ok /\ AtLevel(st, m, n, j) /\ st.first = G
        /\ st.firstRoot = Tree(h, m, j, G) /\ st.secondRoot = Tree(h, n, j, G)
    BY <1>11 DEF Reached
  <2>2. PICK S \in Nat : S = st.second
    BY DEF States
  <2>3. n <= (S + 1) * p
    <3>1. S = (n - 1) \div Pow2[j] /\ n >= 1
      BY <2>1, <2>2 DEF AtLevel
    <3>2. IsLast(n, j, S)
      BY <3>1, LevelBounds
    <3> QED BY <3>2 DEF IsLast, p
  <2>4. S > G
    <3> SUFFICES ASSUME S <= G PROVE FALSE
      OBVIOUS
    <3>1. (S + 1) * p <= (G + 1) * p
      BY <1>5
    <3>2. (G + 1) * p = a + p
      BY <1>3, <1>7
    <3>3. (S + 1) * p \in Nat
      BY <1>5
    <3>4. a + p < n
      BY <1>5, <1>6
    <3> DEFINE x == (S + 1) * p
               y == (G + 1) * p
    <3>5. n <= x /\ x <= y /\ y = a + p /\ x \in Nat
      BY <2>3, <3>1, <3>2, <3>3
    <3> HIDE DEF x, y
    <3> QED BY <1>5, <3>4, <3>5
  <2>5. st.first # st.second /\ st.second # 0
    BY <2>1, <2>2, <2>4
  <2>6. Up(j, 1) = K
    BY <1>2 DEF Up
  <2>7. PICK x : x = RangeRoot(h)[p][a]
    OBVIOUS
  <2>8. Tree(h, n, Up(j, 1), F) = Node(x, node)
    <3>1. Covers(n, s, a, K, F)
      BY <1>1
    <3>2. Tree(h, n, K, F) = RangeRoot(h)[s][a]
      BY <3>1, CoveredNode
    <3> QED BY <1>10, <2>6, <2>7, <3>2
  <2>9. Twice(G, F)
    BY <1>3 DEF Twice
  <2>10. Reached(Climb(st, node), h, m, n, Up(j, 1), F)
    BY <1>11, <2>5, <2>8, <2>9, AloneReaches
  <2> QED BY <2>6, <2>10
<1>12. Lifts(H, h, m, n, j, G, node, K, F)
  BY <1>11 DEF Lifts
<1> QED BY <1>4, <1>5, <1>9, <1>12

LEMMA LevelOf ==
  ASSUME NEW s \in Nat, s >= 1
  PROVE  \E j \in Nat : s <= Pow2[j] /\ (j = 0 \/ Pow2[j - 1] < s)
<1>1. CASE s = 1
  <2>1. 0 \in Nat /\ s <= Pow2[0]
    BY <1>1, Pow2Form
  <2> QED BY <2>1
<1>2. CASE s # 1
  <2>1. PICK i \in 0..s : Pow2[i] < s /\ s <= Pow2[i + 1]
    BY <1>2, Between
  <2>2. i + 1 \in Nat /\ (i + 1) - 1 = i
    OBVIOUS
  <2> QED BY <2>1, <2>2
<1> QED BY <1>1, <1>2


LEMMA JoinReaches ==
  ASSUME NEW H, NEW s \in States(H), NEW node, NEW h,
         NEW m \in Nat, m >= 1, NEW n \in Nat, m < n, NEW k \in Nat, NEW z \in Nat,
         NEW f \in Nat, NEW G \in Nat,
         Reached(s, h, m, n, k, G), Joins(G, f, z), z = 0 \/ s.first = s.second, s.second # 0,
         NEW i \in Nat, i = Up(k, z), node = RangeRoot(h)[Pow2[i]][(2 * f) * Pow2[i]]
  PROVE  Reached(Climb(s, node), h, m, n, Up(i, 1), f)
<1>1. s.ok /\ AtLevel(s, m, n, k) /\ s.first = G
      /\ s.firstRoot = Tree(h, m, k, s.first) /\ s.secondRoot = Tree(h, n, k, s.first)
  BY DEF Reached
<1>2. Joins(s.first, f, z)
  BY <1>1
<1>3. Joined(s, node, h, m, h, n, k, z, f)
  BY <1>1, <1>2, ClimbJoins
<1> DEFINE t == Climb(s, node)
<1>4. /\ t.ok = s.ok /\ t.first = f /\ AtLevel(t, m, n, k + z + 1)
      /\ t.firstRoot = Node(node, s.firstRoot) /\ t.secondRoot = Node(node, s.secondRoot)
      /\ Tree(h, m, k + z + 1, f) = Node(Tree(h, m, k + z, 2 * f), Tree(h, m, k, s.first))
      /\ Tree(h, n, k + z + 1, f) = Node(Tree(h, n, k + z, 2 * f), Tree(h, n, k, s.first))
      /\ (2 * f + 1) * Pow2[k + z] = s.first * Pow2[k]
      /\ (2 * f + 1) * Pow2[k + z] < m
  BY <1>3 DEF Joined
<1> HIDE DEF t
<1>5. i = k + z
  BY DEF Up
<1>6. Tree(h, m, i, 2 * f) = node /\ Tree(h, n, i, 2 * f) = node
  <2>1. PICK g \in Nat : g = 2 * f
    OBVIOUS
  <2> DEFINE c == (g + 1) * Pow2[i]
  <2>2. c < m
    <3>1. (2 * f + 1) * Pow2[k + z] < m
      BY <1>4
    <3> QED BY <1>5, <2>1, <3>1
  <2>3. c \in Nat
    <3>1. Pow2[i] \in Nat
      BY Pow2Form
    <3> QED BY <3>1
  <2> HIDE DEF c
  <2>4. c <= m /\ c <= n
    BY <2>2, <2>3
  <2>5. /\ Tree(h, m, i, g) = RangeRoot(h)[Pow2[i]][g * Pow2[i]]
        /\ Tree(h, n, i, g) = RangeRoot(h)[Pow2[i]][g * Pow2[i]]
    BY <2>4, FullNode DEF c
  <2> QED BY <2>1, <2>5
<1>7. /\ t.ok /\ AtLevel(t, m, n, i + 1) /\ t.first = f
      /\ t.firstRoot = Tree(h, m, i + 1, f) /\ t.secondRoot = Tree(h, n, i + 1, f)
  BY <1>1, <1>4, <1>5, <1>6
<1> QED BY <1>7 DEF Reached, Up, t

LEMMA LeadsRight ==
  ASSUME NEW H, NEW h, NEW m \in Nat, m >= 1, NEW n \in Nat, m < n,
         NEW s \in Nat, NEW a \in Nat, NEW f \in Nat, f >= 1, NEW K \in Nat, NEW F \in Nat,
         Fits(m, n, s, a, f, K, F), f < s, ~ f <= Split(s)
  PROVE  \E j \in Nat : \E G \in Nat :
           /\ Fits(m, n, s - Split(s), a + Split(s), f - Split(s), j, G)
           /\ Lifts(H, h, m, n, j, G, RangeRoot(h)[Split(s)][a], K, F)
<1>1. Covers(n, s, a, K, F) /\ s > 1
  BY DEF Fits
<1>2. PICK i \in Nat : /\ K = i + 1 /\ Split(s) = Pow2[i] /\ Pow2[i] < s /\ s <= Pow2[i + 1]
                       /\ Pow2[i + 1] = 2 * Pow2[i]
  BY <1>1, CoveredSplit
<1> DEFINE p == Pow2[i]
<1>3. p \in Nat /\ p >= 1 /\ p < s /\ s <= 2 * p /\ Split(s) = p /\ Pow2[K] = 2 * p /\ p < f
  BY <1>2, Pow2Form
<1>4. a = F * Pow2[K] /\ a + s <= n /\ a + f = m /\ (s = Pow2[K] \/ a + s = n)
  BY DEF Fits, Covers
<1> HIDE DEF p
<1>5. PICK s1 \in Nat : s1 = s - p
  BY <1>3
<1>6. PICK f1 \in Nat : f1 = f - p
  BY <1>3
<1>7. PICK a1 \in Nat : a1 = a + p
  BY <1>3
<1>8. s1 >= 1 /\ f1 >= 1 /\ f1 < s1 /\ s1 <= p /\ a1 + f1 = m /\ a1 + s1 <= n
      /\ (s1 = p \/ a1 + s1 = n)
  BY <1>3, <1>4, <1>5, <1>6, <1>7
<1>9. PICK j \in Nat : s1 <= Pow2[j] /\ (j = 0 \/ Pow2[j - 1] < s1)
  BY <1>8, LevelOf
<1>10. j <= i
  <2> SUFFICES ASSUME j > i PROVE FALSE
    OBVIOUS
  <2>1. PICK l \in Nat : l = j - 1 /\ i <= l
    OBVIOUS
  <2>2. Pow2[i] <= Pow2[l] /\ Pow2[l] \in Nat /\ Pow2[l] < s1
    BY <1>9, <2>1, Pow2Monotone, Pow2Form
  <2>3. p \in Nat /\ s1 <= p
    BY <1>3, <1>8
  <2> QED BY <2>2, <2>3 DEF p
<1>11. PICK z \in Nat : z = i - j /\ i = j + z
  BY <1>10
<1> DEFINE r == Pow2[j]
           w == Pow2[z]
<1>12. r \in Nat /\ r >= 1 /\ w \in Nat /\ w >= 1 /\ p = r * w /\ r <= p
  <2>1. Pow2[j + z] = Pow2[j] * Pow2[z]
    BY Pow2Sum
  <2>2. r <= p
    BY <1>10, Pow2Monotone DEF p
  <2> QED BY <1>11, <2>1, <2>2, Pow2Form DEF p
<1>13. s1 <= r
  BY <1>9
<1> HIDE DEF r, w
<1>14. PICK G \in Nat : G = (2 * F + 1) * w
  BY <1>12
<1>15. a1 = (2 * F + 1) * p /\ a = (2 * F) * p
  BY <1>3, <1>4, <1>7
<1>16. a1 = G * r
  BY <1>12, <1>14, <1>15
<1>17. Covers(n, s1, a1, j, G)
  <2>1. s1 = r \/ a1 + s1 = n
    BY <1>8, <1>12, <1>13
  <2> QED BY <1>8, <1>9, <1>16, <2>1 DEF Covers, r
<1>18. Fits(m, n, s1, a1, f1, j, G)
  BY <1>8, <1>17 DEF Fits
<1>19. Joins(G, F, z)
  BY <1>14 DEF Joins, Shifted, w
<1>20. PICK node : node = RangeRoot(h)[p][a]
  OBVIOUS
<1>21. ASSUME NEW st \in States(H), Reached(st, h, m, n, j, G)
       PROVE  Reached(Climb(st, node), h, m, n, K, F)
  <2>1. AtLevel(st, m, n, j) /\ st.first = G
    BY <1>21 DEF Reached
  <2>2. PICK S \in Nat : S = st.second
    BY DEF States
  <2>3. S = (n - 1) \div r
    BY <2>1, <2>2 DEF AtLevel, r
  <2>4. st.second # 0
    <3> SUFFICES ASSUME S = 0 PROVE FALSE
      BY <2>2
    <3>1. IsLast(n, j, S)
      <4>1. n >= 1 /\ S = (n - 1) \div Pow2[j]
        BY <2>3 DEF r
      <4> QED BY <4>1, LevelBounds
    <3>2. n <= r
      <4>1. n <= (0 + 1) * r
        BY <3>1 DEF IsLast, r
      <4> QED BY <1>12, <4>1
    <3> QED BY <1>3, <1>4, <1>12, <3>2
  <2>5. z = 0 \/ st.first = st.second
    <3> SUFFICES ASSUME z # 0 PROVE G = S
      BY <2>1, <2>2
    <3>1. 2 * r <= p
      <4>1. j < i
        BY <1>11
      <4> QED BY <4>1, Pow2Monotone DEF p, r
    <3>2. a1 + s1 = n
      BY <1>8, <1>12, <1>13, <3>1
    <3>3. PICK x \in Nat : x = n - 1
      OBVIOUS
    <3>4. G * r <= x /\ x < (G + 1) * r
      <4>1. a1 <= x /\ x < a1 + r
        <5>1. r \in Nat /\ s1 <= r /\ s1 >= 1
          BY <1>8, <1>12, <1>13
        <5> QED BY <3>2, <3>3, <5>1
      <4>2. (G + 1) * r = a1 + r
        BY <1>12, <1>16
      <4> QED BY <1>16, <4>1, <4>2
    <3>5. x \div r = G
      BY <1>12, <3>4, DivUnique
    <3> QED BY <2>3, <3>3, <3>5
  <2>6. Up(i, 1) = K /\ i = Up(j, z)
    BY <1>2, <1>11 DEF Up
  <2>7. node = RangeRoot(h)[Pow2[i]][(2 * F) * Pow2[i]]
    BY <1>15, <1>20 DEF p
  <2>8. Reached(Climb(st, node), h, m, n, Up(i, 1), F)
    BY <1>19, <1>21, <2>4, <2>5, <2>6, <2>7, JoinReaches
  <2> QED BY <2>6, <2>8
<1>22. Lifts(H, h, m, n, j, G, node, K, F)
  BY <1>21 DEF Lifts
<1> QED BY <1>3, <1>5, <1>6, <1>7, <1>18, <1>20, <1>22


\* The path of the verifier begins, after d nodes, with p.
Given(q, d, p) == \A k \in 1..Len(p) : q[d + k] = p[k]

\* With p the verifier gets to node F of level K.
Reaches(h, m, n, q, d, p, K, F) ==
  Given(q, d, p) => d + Len(p) >= 1 /\ Reached(Climbs(m, n, q)[d + Len(p)], h, m, n, K, F)

LEMMA GivenAppend ==
  ASSUME NEW item, NEW p \in Paths(item), NEW x, NEW q, NEW d \in Nat, Given(q, d, Then(p, x))
  PROVE  Given(q, d, p) /\ q[d + Len(p) + 1] = x /\ Len(Then(p, x)) = Len(p) + 1
<1> DEFINE r == Then(p, x)
           N == Len(p)
<1>1. N \in Nat /\ Len(r) = N + 1 /\ r[N + 1] = x /\ \A k \in 1..N : r[k] = p[k]
  BY ThenForm
<1>2. \A k \in 1..Len(r) : q[d + k] = r[k]
  BY DEF Given
<1> HIDE DEF r, N
<1>3. \A k \in 1..N : q[d + k] = p[k]
  BY <1>1, <1>2
<1>4. q[d + N + 1] = x
  <2>1. N + 1 \in 1..Len(r) /\ d + (N + 1) = d + N + 1
    BY <1>1
  <2>2. q[d + (N + 1)] = r[N + 1]
    BY <1>2, <2>1
  <2> QED BY <1>1, <2>1, <2>2
<1> QED BY <1>1, <1>3, <1>4 DEF Given, r, N

LEMMA ReachesOn ==
  ASSUME NEW H, Closed(H), NEW h, NEW m \in Nat, m >= 1, NEW n \in Nat, n >= 1,
         NEW q, \A i \in Nat : q[i] \in H, NEW d \in Nat,
         NEW item, NEW p \in Paths(item), NEW x,
         NEW j, NEW G, Reaches(h, m, n, q, d, p, j, G),
         NEW K, NEW F, Lifts(H, h, m, n, j, G, x, K, F)
  PROVE  Reaches(h, m, n, q, d, Then(p, x), K, F)
<1> SUFFICES ASSUME Given(q, d, Then(p, x))
             PROVE  /\ d + Len(Then(p, x)) >= 1
                    /\ Reached(Climbs(m, n, q)[d + Len(Then(p, x))], h, m, n, K, F)
  BY DEF Reaches
<1>1. Given(q, d, p) /\ q[d + Len(p) + 1] = x /\ Len(Then(p, x)) = Len(p) + 1
  BY GivenAppend
<1>2. Len(p) \in Nat
  BY ThenForm
<1>3. PICK i \in Nat : i = d + Len(p)
  BY <1>2
<1>4. i >= 1 /\ Reached(Climbs(m, n, q)[i], h, m, n, j, G)
  BY <1>1, <1>3 DEF Reaches
<1>5. PICK l \in Nat : l = i + 1 /\ l > 1 /\ l - 1 = i
  BY <1>4
<1>6. l = d + Len(Then(p, x)) /\ q[l] = x
  BY <1>1, <1>2, <1>3, <1>5
<1>7. Climbs(m, n, q)[i] \in States(H)
  BY ClimbsType
<1>8. Climbs(m, n, q)[l] = Climb(Climbs(m, n, q)[i], x)
  <2> DEFINE at == Climbs(m, n, q)
  <2>1. ClimbsOn(at, m, n, q)
    BY ClimbsValue
  <2>2. \A y \in Nat : y > 1 => at[y] = Climb(at[y - 1], q[y])
    BY <2>1 DEF ClimbsOn
  <2> QED BY <1>5, <1>6, <2>2
<1>9. Reached(Climbs(m, n, q)[l], h, m, n, K, F)
  BY <1>4, <1>7, <1>8 DEF Lifts
<1>10. l >= 1
  BY <1>5
<1> QED BY <1>6, <1>9, <1>10

\* The paths over ranges of s hashes, each of which holds the last of the first m.
Leading(h, m, n, q, d, path, s) ==
  \A a \in Nat : \A f \in Nat \ {0} : \A K \in Nat : \A F \in Nat :
    Fits(m, n, s, a, f, K, F) =>
      /\ a = 0 /\ (m < s \/ d = 1) => Reaches(h, m, n, q, d, path[s][a][f][Whole], K, F)
      /\ d = 0 => Reaches(h, m, n, q, d, path[s][a][f][Part], K, F)

LEMMA LeadsAtEnd ==
  ASSUME NEW h, NEW m \in Nat, m >= 1, NEW n \in Nat, m < n, NEW q, NEW d \in Nat,
         d = 0 \/ d = 1, d = 1 => q[1] = RangeRoot(h)[m][0],
         NEW s \in Nat, NEW a \in Nat, NEW f \in Nat, f >= 1, NEW K \in Nat, NEW F \in Nat,
         Fits(m, n, s, a, f, K, F), f = s
  PROVE  /\ a = 0 /\ (m < s \/ d = 1) =>
              Reaches(h, m, n, q, d, Ended(RangeRoot(h), s, a, Whole), K, F)
         /\ d = 0 => Reaches(h, m, n, q, d, Ended(RangeRoot(h), s, a, Part), K, F)
<1>1. n >= 1 /\ 1 \in Nat /\ a + f = m
  BY DEF Fits
<1>2. ClimbsOn(Climbs(m, n, q), m, n, q)
  BY <1>1, ClimbsValue
<1>3. Climbs(m, n, q)[1] = Start(m, n, q)
  BY <1>1, <1>2 DEF ClimbsOn
<1>4. q[1] = RangeRoot(h)[s][a] => Reached(Climbs(m, n, q)[1], h, m, n, K, F)
  BY <1>3, LeadsFrom
<1>5. ASSUME a = 0, m < s \/ d = 1
      PROVE  Reaches(h, m, n, q, d, Ended(RangeRoot(h), s, a, Whole), K, F)
  <2>1. s = m /\ d = 1
    BY <1>1, <1>5
  <2>2. Reached(Climbs(m, n, q)[1], h, m, n, K, F)
    BY <1>4, <1>5, <2>1
  <2>3. Ended(RangeRoot(h), s, a, Whole) = <<>>
    BY DEF Ended, Whole
  <2>4. d + Len(<<>>) = 1 /\ 1 >= 1
    BY <2>1
  <2> QED BY <2>2, <2>3, <2>4 DEF Reaches
<1>6. ASSUME d = 0
      PROVE  Reaches(h, m, n, q, d, Ended(RangeRoot(h), s, a, Part), K, F)
  <2> DEFINE x == RangeRoot(h)[s][a]
             one == <<x>>
  <2>1. Ended(RangeRoot(h), s, a, Part) = one
    BY DEF Ended, Part
  <2>2. Len(one) = 1 /\ one[1] = x
    OBVIOUS
  <2> HIDE DEF one, x
  <2>3. Given(q, d, one) => q[1] = x
    <3>1. 1 \in 1..Len(one) /\ d + 1 = 1
      BY <1>6, <2>2
    <3> QED BY <2>2, <3>1 DEF Given
  <2>4. d + Len(one) = 1 /\ 1 >= 1
    BY <1>6, <2>2
  <2> QED BY <1>4, <2>1, <2>3, <2>4 DEF Reaches, x
<1> QED BY <1>5, <1>6

\* No power of two is between two that follow one another.
LEMMA NoPowerBetween ==
  ASSUME NEW m \in Nat, NEW i \in Nat, Pow2[i] < m, m < Pow2[i + 1]
  PROVE  ~ IsPowerOfTwo(m)
<1> SUFFICES ASSUME NEW e \in 0..m, m = Pow2[e] PROVE FALSE
  BY DEF IsPowerOfTwo
<1>1. e \in Nat /\ i + 1 \in Nat /\ Pow2[i] \in Nat /\ Pow2[i + 1] \in Nat
  BY Pow2Form
<1>2. CASE e <= i
  <2>1. Pow2[e] <= Pow2[i]
    BY <1>1, <1>2, Pow2Monotone
  <2> QED BY <1>1, <2>1
<1>3. CASE ~ e <= i
  <2>1. i + 1 <= e
    BY <1>1, <1>3
  <2>2. PICK l \in Nat : l = i + 1
    OBVIOUS
  <2>3. Pow2[l] <= Pow2[e]
    BY <1>1, <2>1, <2>2, Pow2Monotone
  <2> QED BY <1>1, <2>2, <2>3
<1> QED BY <1>2, <1>3


LEMMA PathsLead ==
  ASSUME NEW h, NEW m \in Nat, m >= 1, NEW n \in Nat, m < n, NEW q, NEW d \in Nat,
         d = 0 \/ d = 1, d = 1 <=> IsPowerOfTwo(m), d = 1 => q[1] = RangeRoot(h)[m][0],
         NEW path, ConsistencyEquation(path, RangeRoot(h))
  PROVE  \A s \in Nat : Leading(h, m, n, q, d, path, s)
<1> DEFINE Bad == {s \in Nat : ~ Leading(h, m, n, q, d, path, s)}
           item == RangeRoot(h)
<1> SUFFICES ASSUME Bad # {} PROVE FALSE
  OBVIOUS
<1>1. PICK s \in Bad : \A r \in Bad : s <= r
  <2>1. Bad \subseteq Nat
    OBVIOUS
  <2> HIDE DEF Bad
  <2> QED BY <2>1, LeastNat
<1>2. s \in Nat /\ ~ Leading(h, m, n, q, d, path, s)
  BY <1>1
<1>3. ASSUME NEW r \in Nat, r < s
      PROVE  Leading(h, m, n, q, d, path, r)
  <2>1. ~ (s <= r)
    BY <1>2, <1>3
  <2>2. r \notin Bad
    <3> HIDE DEF Bad
    <3> QED BY <1>1, <2>1
  <2> QED BY <2>2
<1> HIDE DEF Bad
<1>4. PICK H : {q[i] : i \in Nat} \subseteq H /\ Closed(H)
  BY Closure
<1>5. (\A i \in Nat : q[i] \in H) /\ n >= 1
  BY <1>4
<1>6. ASSUME NEW p \in Paths(item), NEW x, NEW j, NEW G, Reaches(h, m, n, q, d, p, j, G),
              NEW k, NEW g, Lifts(H, h, m, n, j, G, x, k, g)
       PROVE  Reaches(h, m, n, q, d, Then(p, x), k, g)
  <2> HIDE DEF item
  <2> QED BY <1>4, <1>5, <1>6, ReachesOn
<1> SUFFICES ASSUME NEW a \in Nat, NEW f \in Nat \ {0}, NEW K \in Nat, NEW F \in Nat,
                    Fits(m, n, s, a, f, K, F)
             PROVE  /\ a = 0 /\ (m < s \/ d = 1) => Reaches(h, m, n, q, d, path[s][a][f][Whole], K, F)
                    /\ d = 0 => Reaches(h, m, n, q, d, path[s][a][f][Part], K, F)
  BY <1>2 DEF Leading
<1>7. f \in Nat /\ f >= 1 /\ f <= s /\ a + f = m
  BY DEF Fits
<1>8. /\ path[s][a][f][Whole] =
           IF f >= s THEN Ended(item, s, a, Whole) ELSE Continued(path, item, s, a, f, Whole)
      /\ path[s][a][f][Part] =
           IF f >= s THEN Ended(item, s, a, Part) ELSE Continued(path, item, s, a, f, Part)
  <2> HIDE DEF item
  <2> QED BY <1>2, ConsistencyValue DEF item
<1>9. CASE f = s
  <2>1. /\ path[s][a][f][Whole] = Ended(item, s, a, Whole)
        /\ path[s][a][f][Part] = Ended(item, s, a, Part)
    BY <1>2, <1>8, <1>9
  <2>2. /\ a = 0 /\ (m < s \/ d = 1) => Reaches(h, m, n, q, d, Ended(item, s, a, Whole), K, F)
        /\ d = 0 => Reaches(h, m, n, q, d, Ended(item, s, a, Part), K, F)
    BY <1>2, <1>7, <1>9, LeadsAtEnd
  <2> QED BY <2>1, <2>2
<1>10. CASE f # s
  <2>1. f < s /\ s > 1 /\ ~ f >= s
    BY <1>2, <1>7, <1>10
  <2>2. PICK b \in Nat, c \in Nat, e \in Nat :
          Cut(s, a, b, c, e) /\ b >= 1 /\ b < s /\ c >= 1 /\ c < s
    BY <1>2, <2>1, Divided
  <2>3. Split(s) = b /\ s - Split(s) = c /\ a + Split(s) = e
    BY <2>2 DEF Cut
  <2>4. PICK i \in Nat : b = Pow2[i] /\ s <= Pow2[i + 1]
    BY <1>2, <2>1, <2>3, SplitForm DEF Split
  <2>5. Leading(h, m, n, q, d, path, b) /\ Leading(h, m, n, q, d, path, c)
    BY <1>3, <2>2
  <2>6. ConsistencyParts(path, item, s, a, f, b, c, e)
    <3>1. f \in Nat \ {0}
      BY <1>7
    <3> HIDE DEF item
    <3> QED BY <1>2, <2>1, <2>2, <3>1, ConsistencyForm DEF item
  <2>7. CASE f <= b
    <3> DEFINE x == item[c][e]
               u == path[b][a][f][Whole]
               v == path[b][a][f][Part]
    <3>1. path[s][a][f][Whole] = Then(u, x) /\ path[s][a][f][Part] = Then(v, x)
      <4> HIDE DEF item
      <4> QED BY <2>7, <2>6 DEF ConsistencyParts
    <3>2. PICK j \in Nat, G \in Nat :
            Fits(m, n, b, a, f, j, G) /\ Lifts(H, h, m, n, j, G, x, K, F)
      <4>1. \E j, G \in Nat : /\ Fits(m, n, Split(s), a, f, j, G)
                              /\ Lifts(H, h, m, n, j, G, item[s - Split(s)][a + Split(s)], K, F)
        BY <1>2, <1>7, <2>1, <2>3, <2>7, LeadsLeft
      <4> HIDE DEF item
      <4> QED BY <2>3, <4>1
    <3>3. a = 0 => m < b \/ d = 1
      <4> SUFFICES ASSUME a = 0, ~ m < b PROVE d = 1
        OBVIOUS
      <4>1. m = b
        BY <1>7, <2>7
      <4>2. m = Pow2[i] /\ i < Pow2[i]
        BY <2>4, <4>1, Pow2Grows
      <4>3. i \in 0..m
        BY <4>2
      <4> QED BY <4>2, <4>3 DEF IsPowerOfTwo
    <3>4. (a = 0 => Reaches(h, m, n, q, d, u, j, G)) /\ (d = 0 => Reaches(h, m, n, q, d, v, j, G))
      BY <2>5, <3>2, <3>3 DEF Leading
    <3>5. u \in Paths(item) /\ v \in Paths(item)
      <4> HIDE DEF item
      <4> QED BY ConsistencyType DEF item
    <3> HIDE DEF x, u, v, item
    <3>6. a = 0 => Reaches(h, m, n, q, d, Then(u, x), K, F)
      BY <1>6, <3>2, <3>4, <3>5
    <3>7. d = 0 => Reaches(h, m, n, q, d, Then(v, x), K, F)
      BY <1>6, <3>2, <3>4, <3>5
    <3> QED BY <3>1, <3>6, <3>7
  <2>8. CASE ~ f <= b
    <3>1. PICK g \in Nat \ {0} : Past(g, f, b)
      BY <1>7, <2>8, PastIs
    <3> DEFINE x == item[b][a]
               u == path[c][e][g][Part]
    <3>2. path[s][a][f][Whole] = Then(u, x) /\ path[s][a][f][Part] = Then(u, x)
      <4> HIDE DEF item
      <4> QED BY <2>6, <3>1 DEF ConsistencyParts
    <3>3. PICK j \in Nat, G \in Nat :
            Fits(m, n, c, e, g, j, G) /\ Lifts(H, h, m, n, j, G, x, K, F)
      <4>1. \E j, G \in Nat : /\ Fits(m, n, s - Split(s), a + Split(s), f - Split(s), j, G)
                              /\ Lifts(H, h, m, n, j, G, item[Split(s)][a], K, F)
        BY <1>2, <1>7, <2>1, <2>3, <2>8, LeadsRight
      <4>2. f - Split(s) = g
        BY <2>3, <3>1 DEF Past
      <4> HIDE DEF item
      <4> QED BY <2>3, <4>1, <4>2
    <3>4. a = 0 => d = 0
      <4> SUFFICES ASSUME a = 0 PROVE d = 0
        OBVIOUS
      <4>1. Pow2[i] < m /\ m < Pow2[i + 1]
        BY <1>2, <1>7, <2>1, <2>4, <2>8, Pow2Form
      <4>2. ~ IsPowerOfTwo(m)
        BY <4>1, NoPowerBetween
      <4> QED BY <4>2
    <3>5. d = 0 => Reaches(h, m, n, q, d, u, j, G)
      BY <2>5, <3>3 DEF Leading
    <3>6. u \in Paths(item)
      <4> HIDE DEF item
      <4> QED BY ConsistencyType DEF item
    <3> HIDE DEF x, u, item
    <3>7. d = 0 => Reaches(h, m, n, q, d, Then(u, x), K, F)
      BY <1>6, <3>3, <3>5, <3>6
    <3> QED BY <3>2, <3>4, <3>7
  <2> QED BY <2>7, <2>8
<1> QED BY <1>9, <1>10


\* What the verifier reads: the path, after the root it has if the first tree is complete.
IsWholePath(q, root, p, m) == q = IF IsPowerOfTwo(m) THEN <<root>> \o p ELSE p

\* The d nodes read before those of the path.
Prefixed(d, q, root, p, m) ==
  /\ d = 0 \/ d = 1
  /\ d = 1 <=> IsPowerOfTwo(m)
  /\ d = 1 => q[1] = root
  /\ Given(q, d, p)
  /\ Len(q) = d + Len(p)

LEMMA WholePath ==
  ASSUME NEW item, NEW p \in Paths(item), NEW root, NEW m, NEW q, IsWholePath(q, root, p, m)
  PROVE  \E d \in Nat : Prefixed(d, q, root, p, m)
<1> DEFINE S == Items(item)
<1>1. p \in Seq(S)
  BY DEF Paths
<1> HIDE DEF S
<1>2. CASE IsPowerOfTwo(m)
  <2> DEFINE T == S \cup {root}
             one == <<root>>
  <2>1. one \in Seq(T) /\ p \in Seq(T) /\ Len(one) = 1 /\ one[1] = root /\ q = one \o p
    BY <1>1, <1>2 DEF IsWholePath
  <2> HIDE DEF one, T
  <2>2. Len(one \o p) = Len(one) + Len(p)
    BY <2>1, ConcatProperties
  <2>3. \A i \in 1..Len(one) + Len(p) :
          (one \o p)[i] = IF i <= Len(one) THEN one[i] ELSE p[i - Len(one)]
    BY <2>1, ConcatProperties
  <2>4. Len(p) \in Nat
    BY <1>1
  <2>5. Len(q) = 1 + Len(p) /\ q[1] = root
    BY <2>1, <2>2, <2>3, <2>4
  <2>6. ASSUME NEW k \in 1..Len(p)
        PROVE  q[1 + k] = p[k]
    <3>1. PICK i \in Nat : i = 1 + k /\ i \in 1..Len(one) + Len(p) /\ ~ i <= Len(one) /\ i - Len(one) = k
      BY <2>1, <2>4
    <3>2. q[i] = p[k]
      BY <2>1, <2>3, <3>1
    <3> QED BY <3>1, <3>2
  <2>7. Given(q, 1, p) /\ 1 \in Nat
    BY <2>6 DEF Given
  <2>8. Prefixed(1, q, root, p, m)
    <3>1. 1 = 1
      OBVIOUS
    <3> QED BY <1>2, <2>5, <2>7, <3>1 DEF Prefixed
  <2> QED BY <2>7, <2>8
<1>3. CASE ~ IsPowerOfTwo(m)
  <2>1. q = p /\ Len(p) \in Nat
    BY <1>1, <1>3 DEF IsWholePath
  <2>2. \A k \in 1..Len(p) : q[0 + k] = p[k]
    BY <2>1
  <2>3. Given(q, 0, p) /\ 0 \in Nat /\ Len(q) = 0 + Len(p)
    BY <2>1, <2>2 DEF Given
  <2>4. Prefixed(0, q, root, p, m)
    <3>1. 0 # 1 /\ 0 = 0
      OBVIOUS
    <3> QED BY <1>3, <2>3, <3>1 DEF Prefixed
  <2> QED BY <2>3, <2>4
<1> QED BY <1>2, <1>3

\* The proof between two trees of the same hashes verifies.
THEOREM ConsistencyVerifies ==
  ASSUME NEW S, NEW h \in Seq(S), NEW m \in Nat, m <= Len(h)
  PROVE  VerifyConsistency(m, Len(h), SubtreeRoot(SubSeq(h, 1, m)), SubtreeRoot(h),
                           ConsistencyPath(h, m))
<1> DEFINE n == Len(h)
           g == SubSeq(h, 1, m)
           rg == SubtreeRoot(g)
           rh == SubtreeRoot(h)
           proof == ConsistencyPath(h, m)
<1>1. n \in Nat /\ m <= n /\ 0 \in Nat
  OBVIOUS
<1>2. rg = RangeRoot(h)[m][0] /\ rh = RangeRoot(h)[n][0]
  <2>1. Len(g) = m /\ \A i \in 1..m : g[i] = h[i]
    BY <1>1, SubSeqProperties
  <2> HIDE DEF g
  <2>2. SameHashes(g, 0, h, 0, m)
    BY <2>1 DEF SameHashes
  <2>3. RangeRoot(g)[m][0] = RangeRoot(h)[m][0]
    BY <1>1, <2>2, SameRoot
  <2> QED BY <2>1, <2>3 DEF SubtreeRoot
<1>3. CASE m = 0 \/ m = n
  <2>1. proof = <<>>
    BY <1>3 DEF ConsistencyPath
  <2>2. m = 0 => rg = EmptyRoot
    BY <1>1, <1>2, RootForm
  <2>3. n = 0 => rh = EmptyRoot
    BY <1>1, <1>2, RootForm
  <2>4. m = n => rg = rh
    BY <1>2
  <2> HIDE DEF rg, rh, proof, n
  <2>5. VerifyConsistency(m, n, rg, rh, proof)
    BY <1>1, <1>3, <2>1, <2>2, <2>3, <2>4 DEF VerifyConsistency
  <2> QED BY <2>5 DEF rg, rh, proof, n
<1>4. CASE ~ (m = 0 \/ m = n)
  <2> DEFINE item == RangeRoot(h)
             path == BuildConsistencyPath(h)
             p == path[n][0][m][Whole]
             q == IF IsPowerOfTwo(m) THEN <<rg>> \o p ELSE p
  <2>1. m >= 1 /\ m < n /\ n >= 1 /\ m \in Nat \ {0}
    BY <1>1, <1>4
  <2>2. proof = p
    BY <1>4 DEF ConsistencyPath, Whole
  <2>3. ConsistencyEquation(path, item)
    BY ConsistencyPathSolves
  <2> HIDE DEF path, item, n
  <2>4. \A r, e \in Nat : \A l \in Nat \ {0} :
            path[r][e][l][Whole] \in Paths(item) /\ path[r][e][l][Part] \in Paths(item)
    <3> HIDE DEF p, q, rg, rh, proof, g
    <3> QED BY <2>3, ConsistencyType
  <2>5. p \in Paths(item)
    BY <1>1, <2>1, <2>4
  <2>6. p # <<>>
    <3>1. n > 1
      BY <1>1, <2>1
    <3>2. PICK s \in Nat, c \in Nat, e \in Nat : Cut(n, 0, s, c, e)
      BY <1>1, <3>1, Divided
    <3>3. ConsistencyParts(path, item, n, 0, m, s, c, e)
      <4> HIDE DEF proof, rg, rh, g, q, p
      <4> QED BY <1>1, <2>1, <2>3, <3>2, ConsistencyForm
    <3>4. CASE m <= s
      <4>1. p = Then(path[s][0][m][Whole], item[c][e])
        BY <3>4, <3>3 DEF ConsistencyParts
      <4>2. path[s][0][m][Whole] \in Paths(item)
        BY <2>1, <2>4
      <4> QED BY <4>1, <4>2, ThenForm
    <3>5. CASE ~ m <= s
      <4>1. PICK l \in Nat \ {0} : Past(l, m, s)
        BY <3>5, PastIs
      <4>2. p = Then(path[c][e][l][Part], item[s][0])
        BY <3>3, <4>1 DEF ConsistencyParts
      <4>3. path[c][e][l][Part] \in Paths(item)
        BY <2>4
      <4> QED BY <4>2, <4>3, ThenForm
    <3> QED BY <3>4, <3>5
  <2> HIDE DEF p
  <2>7. IsWholePath(q, rg, p, m)
    BY DEF IsWholePath
  <2> HIDE DEF q
  <2>8. PICK d \in Nat : Prefixed(d, q, rg, p, m)
    <3> HIDE DEF rg
    <3> QED BY <2>5, <2>7, WholePath
  <2>9. /\ d = 0 \/ d = 1
        /\ d = 1 <=> IsPowerOfTwo(m)
        /\ d = 1 => q[1] = rg
        /\ Given(q, d, p) /\ Len(q) = d + Len(p)
    BY <2>8 DEF Prefixed
  <2>10. PICK K \in Nat : n <= Pow2[K] /\ (K = 0 \/ Pow2[K - 1] < n)
    BY <1>1, <2>1, LevelOf
  <2>11. Fits(m, n, n, 0, m, K, 0)
    <3>1. PICK w \in Nat : w = Pow2[K]
      BY Pow2Form
    <3>2. 0 = 0 * Pow2[K]
      <4>1. 0 = 0 * w
        OBVIOUS
      <4> QED BY <3>1, <4>1
    <3> QED BY <1>1, <2>1, <2>10, <3>2 DEF Fits, Covers
  <2>12. Leading(h, m, n, q, d, path, n)
    <3>1. d = 1 => q[1] = RangeRoot(h)[m][0]
      BY <1>2, <2>9
    <3> HIDE DEF rg
    <3>2. \A s \in Nat : Leading(h, m, n, q, d, path, s)
      BY <1>1, <2>1, <2>3, <2>9, <3>1, PathsLead DEF item
    <3> QED BY <1>1, <3>2
  <2>13. Reaches(h, m, n, q, d, p, K, 0)
    BY <1>1, <2>1, <2>11, <2>12 DEF Leading, p
  <2> DEFINE end == Climbed(m, n, q)
  <2>14. Reached(end, h, m, n, K, 0)
    BY <2>9, <2>13 DEF Reaches, Climbed
  <2>15. end.ok /\ end.second = 0 /\ end.firstRoot = rg /\ end.secondRoot = rh
    <3>1. /\ end.ok /\ end.second = (n - 1) \div Pow2[K]
          /\ end.firstRoot = Tree(h, m, K, 0) /\ end.secondRoot = Tree(h, n, K, 0)
      BY <2>14 DEF Reached, AtLevel
    <3>2. PICK x \in Nat : x = n - 1
      BY <1>1, <2>1
    <3>3. PICK y \in Nat : y = Pow2[K]
      BY Pow2Form
    <3>4. x \div y = 0
      BY <1>1, <2>10, <3>2, <3>3, DivNone
    <3>5. m <= Pow2[K]
      BY <1>1, <2>10, <3>3
    <3>6. Tree(h, m, K, 0) = RangeRoot(h)[m][0]
      BY <3>5, TopNode
    <3>7. Tree(h, n, K, 0) = RangeRoot(h)[n][0]
      <4>1. PICK l \in Nat : l = n
        BY <1>1
      <4>2. Tree(h, l, K, 0) = RangeRoot(h)[l][0]
        BY <2>10, <4>1, TopNode
      <4> QED BY <4>1, <4>2
    <3> HIDE DEF end
    <3> QED BY <1>2, <3>1, <3>2, <3>3, <3>4, <3>6, <3>7
  <2> HIDE DEF end, rg, rh, proof
  <2>16. VerifyConsistency(m, n, rg, rh, proof)
    <3>1. proof # <<>> /\ ~ m > n /\ m # 0 /\ m # n
      BY <1>1, <1>4, <2>1, <2>2, <2>6
    <3>2. /\ Climbed(m, n, IF IsPowerOfTwo(m) THEN <<rg>> \o proof ELSE proof).ok
          /\ Climbed(m, n, IF IsPowerOfTwo(m) THEN <<rg>> \o proof ELSE proof).second = 0
          /\ Climbed(m, n, IF IsPowerOfTwo(m) THEN <<rg>> \o proof ELSE proof).firstRoot = rg
          /\ Climbed(m, n, IF IsPowerOfTwo(m) THEN <<rg>> \o proof ELSE proof).secondRoot = rh
      BY <2>2, <2>15 DEF end, q
    <3> QED BY <3>1, <3>2 DEF VerifyConsistency
  <2> QED BY <2>16 DEF rg, rh, proof, n
<1> QED BY <1>3, <1>4


-------------------------------------------------------------------------------
(* The log that a publisher serves and an auditor follows.                        *)

\* What the publisher can have: at each position a leaf that names the position.
Logged(l) == l \in Seq(Nat \X Nat) /\ \A i \in 1..Len(l) : l[i][1] = i - 1

CallInv ==
  call # Idle =>
    /\ call.first \in Nat /\ call.second \in Nat /\ call.first <= call.second
    /\ call.stage = "served" => Logged(call.leaves)

PinnedInv ==
  /\ Logged(pinned.leaves)
  /\ pinned.size = Len(pinned.leaves)
  /\ pinned.root = SubtreeRoot(LeafHashes(pinned.leaves))

IInv ==
  /\ Logged(log) /\ restores \in Nat
  /\ CallInv
  /\ PinnedInv
  /\ ServedProofIsExact

LEMMA LoggedAppend ==
  ASSUME NEW l, Logged(l), NEW r \in Nat
  PROVE  Logged(Append(l, <<Len(l), r>>))
<1> DEFINE x == <<Len(l), r>>
           m == Append(l, x)
           T == Nat \X Nat
<1>1. l \in Seq(T) /\ \A i \in 1..Len(l) : l[i][1] = i - 1
  BY DEF Logged
<1>2. x \in T /\ x[1] = Len(l) /\ Len(l) \in Nat
  BY <1>1
<1> HIDE DEF x, T
<1>3. m \in Seq(T) /\ Len(m) = Len(l) + 1 /\ m[Len(l) + 1] = x
      /\ \A i \in 1..Len(l) : m[i] = l[i]
  BY <1>1, <1>2
<1> HIDE DEF m
<1>4. ASSUME NEW i \in 1..Len(m)
      PROVE  m[i][1] = i - 1
  <2>1. i \in 1..Len(l) \/ i = Len(l) + 1
    BY <1>2, <1>3
  <2> QED BY <1>1, <1>2, <1>3, <2>1
<1> QED BY <1>3, <1>4 DEF Logged, T, m, x

LEMMA LoggedPrefix ==
  ASSUME NEW l, Logged(l), NEW n \in Nat, n <= Len(l)
  PROVE  Logged(SubSeq(l, 1, n))
<1> DEFINE m == SubSeq(l, 1, n)
           T == Nat \X Nat
<1>1. l \in Seq(T) /\ \A i \in 1..Len(l) : l[i][1] = i - 1
  BY DEF Logged
<1> HIDE DEF T
<1>2. m \in Seq(T) /\ Len(m) = n /\ \A i \in 1..n : m[i] = l[i]
  BY <1>1, SubSeqProperties
<1>3. Len(l) \in Nat
  BY <1>1
<1> HIDE DEF m
<1>4. \A i \in 1..Len(m) : m[i][1] = i - 1
  BY <1>1, <1>2, <1>3
<1> QED BY <1>2, <1>4 DEF Logged, T, m

\* The length and the nodes of a damaged path are still those of a path.
LEMMA DamagedType ==
  ASSUME NEW S, NEW path \in Seq(S), NEW damaged \in Damaged(path)
  PROVE  damaged \in Seq(S)
<1>1. CASE damaged = path
  BY <1>1
<1>2. ASSUME NEW i \in DOMAIN path, damaged = RemoveAt(path, i)
      PROVE  damaged \in Seq(S)
  <2>1. i \in 1..Len(path) /\ Len(path) \in Nat
    OBVIOUS
  <2>2. SubSeq(path, 1, i - 1) \in Seq(S) /\ SubSeq(path, i + 1, Len(path)) \in Seq(S)
    BY <2>1
  <2> QED BY <1>2, <2>2, ConcatProperties DEF RemoveAt
<1>3. ASSUME NEW i \in DOMAIN path, damaged = InsertAt(path, i, path[i])
      PROVE  damaged \in Seq(S)
  <2>1. i \in 1..Len(path) /\ Len(path) \in Nat /\ path[i] \in S
    OBVIOUS
  <2>2. SubSeq(path, 1, i - 1) \in Seq(S) /\ SubSeq(path, i, Len(path)) \in Seq(S)
    BY <2>1
  <2>3. <<path[i]>> \in Seq(S)
    <3> DEFINE x == path[i]
    <3>1. x \in S
      BY <2>1
    <3> HIDE DEF x
    <3>2. <<x>> \in Seq(S)
      BY <3>1
    <3> QED BY <3>2 DEF x
  <2> QED BY <1>3, <2>2, <2>3, ConcatProperties DEF InsertAt
<1>4. ASSUME NEW i \in DOMAIN path, NEW j \in DOMAIN path,
             damaged = [path EXCEPT ![i] = path[j], ![j] = path[i]]
      PROVE  damaged \in Seq(S)
  <2>1. path \in [1..Len(path) -> S] /\ Len(path) \in Nat
    OBVIOUS
  <2>2. path[i] \in S /\ path[j] \in S
    OBVIOUS
  <2>3. damaged \in [1..Len(path) -> S]
    BY <1>4, <2>1, <2>2
  <2> QED BY <2>1, <2>3
<1> QED BY <1>1, <1>2, <1>3, <1>4 DEF Damaged

LEMMA InitIInv == Init => IInv
<1> SUFFICES ASSUME Init PROVE IInv
  OBVIOUS
<1> DEFINE e == <<>>
<1>1. e \in Seq(Nat \X Nat) /\ Len(e) = 0
  <2> DEFINE T == Nat \X Nat
  <2> HIDE DEF T
  <2>1. <<>> \in Seq(T) /\ Len(<<>>) = 0
    OBVIOUS
  <2> QED BY <2>1 DEF T
<1>2. Logged(e)
  BY <1>1 DEF Logged
<1>3. SubtreeRoot(LeafHashes(e)) = EmptyRoot
  <2>1. Len(LeafHashes(e)) = 0
    BY <1>1, HashesOf
  <2>2. RangeRoot(LeafHashes(e))[0][0] = EmptyRoot
    BY RootForm
  <2> QED BY <2>1, <2>2 DEF SubtreeRoot
<1>4. Logged(log) /\ restores \in Nat /\ call = Idle
  BY <1>2 DEF Init
<1>5. PinnedInv
  BY <1>1, <1>2, <1>3 DEF Init, PinnedInv
<1> QED BY <1>4, <1>5 DEF IInv, CallInv, ServedProofIsExact

LEMMA NextIInv == IInv /\ [Next]_vars => IInv'
<1> SUFFICES ASSUME IInv, [Next]_vars PROVE IInv'
  OBVIOUS
<1>1. /\ Logged(log) /\ restores \in Nat /\ CallInv /\ PinnedInv /\ ServedProofIsExact
      /\ log \in Seq(Nat \X Nat) /\ Len(log) \in Nat
  BY DEF IInv, Logged
<1>2. CASE UNCHANGED vars
  BY <1>1, <1>2 DEF vars, IInv, CallInv, PinnedInv, ServedProofIsExact, Logged
<1>3. CASE AppendLeaf
  <2>1. Logged(log')
    BY <1>1, <1>3, LoggedAppend DEF AppendLeaf
  <2> QED BY <1>1, <1>3, <2>1 DEF AppendLeaf, IInv, CallInv, PinnedInv, ServedProofIsExact
<1>4. CASE Restore
  <2>1. PICK n \in 0..Len(log) - 1 : log' = SubSeq(log, 1, n)
    BY <1>4 DEF Restore
  <2>2. n \in Nat /\ n <= Len(log)
    BY <1>1
  <2>3. Logged(log')
    BY <1>1, <2>1, <2>2, LoggedPrefix
  <2> QED BY <1>1, <1>4, <2>3 DEF Restore, IInv, CallInv, PinnedInv, ServedProofIsExact
<1>5. CASE RequestProof
  <2>1. /\ call'.first = pinned.size /\ call'.second = Len(log) /\ call'.stage = "loading"
        /\ pinned.size <= Len(log)
    BY <1>5 DEF RequestProof
  <2>2. pinned.size \in Nat
    BY <1>1 DEF PinnedInv, Logged
  <2>3. CallInv' /\ ServedProofIsExact'
    BY <1>1, <2>1, <2>2 DEF CallInv, ServedProofIsExact
  <2> QED BY <1>1, <1>5, <2>3 DEF RequestProof, IInv, PinnedInv
<1>6. CASE LoadNodes
  <2> DEFINE nodes == StoredNodes(log)
             first == call.first
             second == call.second
  <2>1. call # Idle /\ first \in Nat /\ second \in Nat /\ first <= second
    BY <1>1, <1>6 DEF LoadNodes, CallInv
  <2>2. CASE RequestedCoordinates(first, second) \subseteq DOMAIN nodes
    <3> DEFINE leaves == SubSeq(log, 1, second)
               hashes == LeafHashes(leaves)
    <3>1. /\ call'.stage = "served" /\ call'.first = first /\ call'.second = second
          /\ call'.leaves = leaves
          /\ call'.firstRoot = ResolveRange(nodes)[first][0]
          /\ call'.secondRoot = ResolveRange(nodes)[second][0]
          /\ call'.path = ResolvePath(ConsistencyRanges(first, second), nodes)
      BY <1>6, <2>2 DEF LoadNodes
    <3>2. /\ second <= Len(log) /\ Len(leaves) = second
          /\ ResolveRange(nodes)[second][0] = SubtreeRoot(hashes)
          /\ ResolveRange(nodes)[first][0] = SubtreeRoot(SubSeq(hashes, 1, first))
          /\ ResolvePath(ConsistencyRanges(first, second), nodes) = ConsistencyPath(hashes, first)
      <4> DEFINE T == Nat \X Nat
      <4>1. log \in Seq(T)
        BY <1>1
      <4> HIDE DEF T, first, second
      <4> QED BY <2>1, <2>2, <4>1, StoreIsExact
    <3>3. Logged(leaves)
      BY <1>1, <2>1, <3>2, LoggedPrefix
    <3> HIDE DEF leaves, first, second
    <3>4. CallInv' /\ ServedProofIsExact'
      BY <2>1, <3>1, <3>2, <3>3 DEF CallInv, ServedProofIsExact
    <3> QED BY <1>1, <1>6, <3>4 DEF LoadNodes, IInv, PinnedInv
  <2>3. CASE ~ (RequestedCoordinates(first, second) \subseteq DOMAIN nodes)
    <3>1. call' = Idle
      BY <1>6, <2>3 DEF LoadNodes
    <3>2. CallInv' /\ ServedProofIsExact'
      BY <3>1 DEF CallInv, ServedProofIsExact
    <3> QED BY <1>1, <1>6, <3>2 DEF LoadNodes, IInv, PinnedInv
  <2> QED BY <2>2, <2>3
<1>7. CASE Follow
  <2>1. /\ call # Idle /\ call.stage = "served" /\ call' = Idle /\ log' = log /\ restores' = restores
        /\ \/ pinned' = pinned
           \/ pinned' = [size |-> call.second, root |-> call.secondRoot, leaves |-> call.leaves]
    BY <1>7 DEF Follow
  <2>2. CallInv' /\ ServedProofIsExact'
    BY <2>1 DEF CallInv, ServedProofIsExact
  <2>3. PinnedInv'
    <3>1. CASE pinned' = pinned
      BY <1>1, <3>1 DEF PinnedInv
    <3>2. CASE pinned' = [size |-> call.second, root |-> call.secondRoot, leaves |-> call.leaves]
      BY <1>1, <2>1, <3>2 DEF PinnedInv, CallInv, ServedProofIsExact
    <3> QED BY <2>1, <3>1, <3>2
  <2> QED BY <1>1, <2>1, <2>2, <2>3 DEF IInv
<1> QED BY <1>2, <1>3, <1>4, <1>5, <1>6, <1>7 DEF Next

\* The inductive invariant: the log and every copy of it that is held has its leaves in
\* place, and what is served and what is pinned are the roots of such a copy.
THEOREM LogInvariant == Spec => []IInv
<1> QED BY InitIInv, NextIInv, PTL DEF Spec

\* createStoredMerkleConsistencyProof: what the store serves is the proof from the leaves,
\* whatever happened to the log during the await.
THEOREM ServedProofsAreExact == Spec => []ServedProofIsExact
<1>1. IInv => ServedProofIsExact
  BY DEF IInv
<1> QED BY <1>1, LogInvariant, PTL

\* verifyMerkleLeafHashInclusion: under a head that the auditor accepted, exactly the
\* leaves of that head verify, each at its index and with its own path.
THEOREM InclusionIsAlwaysExact == Spec => []InclusionIsExact
<1>1. IInv => InclusionIsExact
  <2> SUFFICES ASSUME IInv, pinned.size > 0,
                      NEW i \in 0..pinned.size - 1, NEW j \in 0..pinned.size - 1
               PROVE  LET hashes == LeafHashes(pinned.leaves)
                          nodes  == StoredNodes(pinned.leaves)
                      IN  /\ ResolvePath(StoredAuditRanges[pinned.size][0][i], nodes)
                               = AuditPath(hashes, i)
                          /\ \A path \in Damaged(AuditPath(hashes, i)) :
                               VerifyInclusion(hashes[i + 1], j, pinned.size, path, pinned.root)
                                 <=> i = j /\ path = AuditPath(hashes, i)
    BY DEF InclusionIsExact
  <2> DEFINE T == Nat \X Nat
             leaves == pinned.leaves
             hashes == LeafHashes(leaves)
             H == {Leaf(x) : x \in T}
  <2>1. /\ leaves \in Seq(T) /\ pinned.size = Len(leaves) /\ pinned.root = SubtreeRoot(hashes)
        /\ \A k \in 1..Len(leaves) : leaves[k][1] = k - 1
    BY DEF IInv, PinnedInv, Logged
  <2>2. /\ hashes \in Seq(H) /\ Len(hashes) = Len(leaves) /\ Len(leaves) \in Nat
        /\ \A k \in 1..Len(leaves) : hashes[k] = Leaf(leaves[k])
    <3> HIDE DEF T, leaves
    <3> QED BY <2>1, HashesOf
  <2>3. /\ i \in Nat /\ j \in Nat /\ i + 1 \in 1..Len(leaves) /\ j + 1 \in 1..Len(leaves)
        /\ (i + 1) - 1 = i /\ (j + 1) - 1 = j
        /\ i \in 0..Len(hashes) - 1 /\ j \in 0..Len(hashes) - 1
    BY <2>1, <2>2
  <2>4. hashes[i + 1] = hashes[j + 1] => i = j
    <3>1. hashes[i + 1] = Leaf(leaves[i + 1]) /\ hashes[j + 1] = Leaf(leaves[j + 1])
      BY <2>2, <2>3
    <3>2. leaves[i + 1][1] = i /\ leaves[j + 1][1] = j
      BY <2>1, <2>3
    <3>3. Leaf(leaves[i + 1]) = Leaf(leaves[j + 1]) => leaves[i + 1] = leaves[j + 1]
      BY DEF Leaf
    <3> HIDE DEF leaves, hashes
    <3> QED BY <3>1, <3>2, <3>3
  <2>5. ResolvePath(StoredAuditRanges[pinned.size][0][i], StoredNodes(leaves)) = AuditPath(hashes, i)
    <3> HIDE DEF T, leaves
    <3> QED BY <2>1, <2>3, StoredAuditIsExact
  <2>6. AuditPath(hashes, i) \in Paths(RangeRoot(hashes))
    <3> DEFINE N == Len(hashes)
               item == RangeRoot(hashes)
    <3>1. AuditEquation(BuildAuditPath(hashes), item) /\ N \in Nat /\ 0 \in Nat
      BY <2>2, AuditPathSolves
    <3>2. AuditPath(hashes, i) = BuildAuditPath(hashes)[N][0][i]
      BY DEF AuditPath
    <3> HIDE DEF N, item, hashes
    <3>3. BuildAuditPath(hashes)[N][0][i] \in Paths(item)
      BY <2>3, <3>1, AuditType
    <3> QED BY <3>2, <3>3 DEF item
  <2>7. ASSUME NEW path \in Damaged(AuditPath(hashes, i))
        PROVE  VerifyInclusion(hashes[i + 1], j, pinned.size, path, pinned.root)
                 <=> i = j /\ path = AuditPath(hashes, i)
    <3> DEFINE P == Items(RangeRoot(hashes))
    <3>1. path \in Seq(P)
      <4>1. AuditPath(hashes, i) \in Seq(P)
        BY <2>6 DEF Paths
      <4> HIDE DEF P, hashes
      <4> QED BY <4>1, DamagedType
    <3> HIDE DEF P, hashes, H, leaves
    <3>2. /\ VerifyInclusion(hashes[i + 1], j, Len(hashes), path, SubtreeRoot(hashes))
               => hashes[i + 1] = hashes[j + 1] /\ path = AuditPath(hashes, j)
          /\ hashes[i + 1] = hashes[j + 1] /\ path = AuditPath(hashes, j)
               => VerifyInclusion(hashes[i + 1], j, Len(hashes), path, SubtreeRoot(hashes))
      BY <2>2, <2>3, <3>1, InclusionVerifies
    <3>3. pinned.size = Len(hashes) /\ pinned.root = SubtreeRoot(hashes)
      BY <2>1, <2>2
    <3> QED BY <2>4, <3>2, <3>3
  <2> QED BY <2>5, <2>7
<1> QED BY <1>1, LogInvariant, PTL


\* A verified path between two trees shows that the one log begins the other.
THEOREM VerifiedPrefix ==
  ASSUME NEW T, NEW old \in Seq(T), NEW new \in Seq(T), NEW P, NEW proof \in Seq(P),
         VerifyConsistency(Len(old), Len(new), SubtreeRoot(LeafHashes(old)),
                           SubtreeRoot(LeafHashes(new)), proof)
  PROVE  IsPrefix(old, new)
<1> DEFINE m == Len(old)
           n == Len(new)
           g == LeafHashes(old)
           h == LeafHashes(new)
           rg == SubtreeRoot(g)
           rh == SubtreeRoot(h)
<1>1. m \in Nat /\ n \in Nat /\ Len(g) = m /\ Len(h) = n
      /\ (\A i \in 1..m : g[i] = Leaf(old[i])) /\ (\A i \in 1..n : h[i] = Leaf(new[i]))
  BY HashesOf
<1>2. rg = RangeRoot(g)[m][0] /\ rh = RangeRoot(h)[n][0]
  BY <1>1 DEF SubtreeRoot
<1>3. VerifyConsistency(m, n, rg, rh, proof)
  OBVIOUS
<1> HIDE DEF m, n, g, h, rg, rh
<1>4. ~ m > n
  BY <1>1, <1>3 DEF VerifyConsistency
<1>5. CASE m = 0
  <2>1. Len(old) = 0 /\ Len(new) \in Nat
    BY <1>1, <1>5 DEF m, n
  <2>2. SubSeq(old, 1, 0) = <<>> /\ SubSeq(new, 1, 0) = <<>>
    OBVIOUS
  <2> QED BY <2>1, <2>2 DEF IsPrefix
<1>6. CASE m # 0
  <2>1. m >= 1 /\ m <= n
    BY <1>1, <1>4, <1>6
  <2>2. SameHashes(g, 0, h, 0, m)
    <3>1. CASE m = n
      <4>1. rg = rh
        BY <1>3, <1>4, <1>6, <3>1 DEF VerifyConsistency
      <4>2. RangeRoot(g)[m][0] = RangeRoot(h)[m][0] /\ 0 \in Nat
        BY <1>2, <3>1, <4>1
      <4> QED BY <1>1, <2>1, <4>2, RootsCommit
    <3>2. CASE m # n
      <4> DEFINE path == IF IsPowerOfTwo(m) THEN <<rg>> \o proof ELSE proof
                 end == Climbed(m, n, path)
      <4>1. /\ proof # <<>> /\ end.ok /\ end.second = 0
            /\ end.firstRoot = rg /\ end.secondRoot = rh
        BY <1>3, <1>4, <1>6, <3>2 DEF VerifyConsistency
      <4>2. path \in Seq(P \cup {rg}) /\ path # <<>>
        <5>1. proof \in Seq(P \cup {rg}) /\ <<rg>> \in Seq(P \cup {rg})
          OBVIOUS
        <5>2. CASE IsPowerOfTwo(m)
          <6>1. path = <<rg>> \o proof
            BY <5>2
          <6>2. path \in Seq(P \cup {rg}) /\ Len(path) = 1 + Len(proof) /\ Len(proof) \in Nat
            <7> DEFINE Q == P \cup {rg}
                       one == <<rg>>
            <7>1. one \in Seq(Q) /\ Len(one) = 1 /\ proof \in Seq(Q) /\ path = one \o proof
              BY <5>1, <6>1
            <7> HIDE DEF Q, one, path
            <7>2. path \in Seq(Q)
              BY <7>1
            <7>3. Len(path) = Len(one) + Len(proof)
              <8>1. Len(one \o proof) = Len(one) + Len(proof)
                BY <7>1, ConcatProperties
              <8> QED BY <7>1, <8>1
            <7>4. Len(proof) \in Nat
              BY <7>1
            <7> QED BY <7>1, <7>2, <7>3, <7>4 DEF Q
          <6> HIDE DEF path
          <6>3. Len(path) # 0
            BY <6>2
          <6> QED BY <6>2, <6>3, EmptySeq
        <5>3. CASE ~ IsPowerOfTwo(m)
          BY <4>1, <5>1, <5>3
        <5> QED BY <5>2, <5>3
      <4> HIDE DEF path
      <4> QED BY <1>1, <1>2, <2>1, <3>2, <4>1, <4>2, ConsistencyCommits
    <3> QED BY <3>1, <3>2
  <2>3. \A i \in 1..m : old[i] = new[i]
    <3> SUFFICES ASSUME NEW i \in 1..m PROVE old[i] = new[i]
      OBVIOUS
    <3>1. g[0 + i] = h[0 + i] /\ 0 + i = i /\ i \in 1..n
      BY <1>1, <2>1, <2>2 DEF SameHashes
    <3>2. Leaf(old[i]) = Leaf(new[i])
      BY <1>1, <3>1
    <3> QED BY <3>2 DEF Leaf
  <2>4. SubSeq(old, 1, m) = SubSeq(new, 1, m)
    <3>1. old \in Seq(T) /\ new \in Seq(T) /\ m <= Len(old) /\ m <= Len(new) /\ 1 \in 1..m + 1
      BY <1>1, <2>1 DEF m, n
    <3>2. SubSeq(old, 1, m) \in Seq(T) /\ Len(SubSeq(old, 1, m)) = m
          /\ \A i \in 1..m : SubSeq(old, 1, m)[i] = old[i]
      BY <1>1, <3>1, SubSeqProperties
    <3>3. SubSeq(new, 1, m) \in Seq(T) /\ Len(SubSeq(new, 1, m)) = m
          /\ \A i \in 1..m : SubSeq(new, 1, m)[i] = new[i]
      BY <1>1, <3>1, SubSeqProperties
    <3> DEFINE x == SubSeq(old, 1, m)
               y == SubSeq(new, 1, m)
    <3>4. x \in Seq(T) /\ y \in Seq(T) /\ Len(x) = Len(y) /\ \A i \in 1..Len(x) : x[i] = y[i]
      BY <2>3, <3>2, <3>3
    <3> HIDE DEF x, y
    <3>5. x = y
      BY <3>4, SeqEqual
    <3> QED BY <3>5 DEF x, y
  <2>5. Len(old) <= Len(new)
    BY <2>1 DEF m, n
  <2> QED BY <2>4, <2>5 DEF IsPrefix, m
<1> QED BY <1>5, <1>6

LEMMA PathType ==
  ASSUME NEW hashes, Len(hashes) \in Nat, NEW first \in Nat
  PROVE  ConsistencyPath(hashes, first) \in Paths(RangeRoot(hashes))
<1> DEFINE N == Len(hashes)
           item == RangeRoot(hashes)
           path == BuildConsistencyPath(hashes)
<1>1. CASE first = 0 \/ first = N
  <2>1. ConsistencyPath(hashes, first) = <<>>
    BY <1>1 DEF ConsistencyPath
  <2>2. <<>> \in Paths(item)
    BY PathsForm
  <2> QED BY <2>1, <2>2
<1>2. CASE ~ (first = 0 \/ first = N)
  <2>1. ConsistencyPath(hashes, first) = path[N][0][first][Whole]
    BY <1>2 DEF ConsistencyPath, Whole
  <2>2. ConsistencyEquation(path, item) /\ N \in Nat /\ 0 \in Nat /\ first \in Nat \ {0}
    BY <1>2, ConsistencyPathSolves
  <2> HIDE DEF path, item, N
  <2>3. path[N][0][first][Whole] \in Paths(item)
    BY <2>2, ConsistencyType
  <2> QED BY <2>1, <2>3 DEF item
<1> QED BY <1>1, <1>2

\* verifyMerkleConsistencyProof: whatever the publisher did to its log and whatever became
\* of a path on its way, the auditor only ever accepts a head whose log begins with the one
\* it had accepted before.
THEOREM AuditorFollowsOneLog == Spec => FollowsOneLog
<1> DEFINE Body == /\ Len(pinned'.leaves) = pinned'.size
                   /\ pinned'.root = SubtreeRoot(LeafHashes(pinned'.leaves))
                   /\ IsPrefix(pinned.leaves, pinned'.leaves)
<1>1. IInv /\ IInv' /\ [Next]_vars => [Body]_pinned
  <2> SUFFICES ASSUME IInv, IInv', [Next]_vars, ~ (pinned' = pinned)
               PROVE  Body
    OBVIOUS
  <2>1. Follow
    BY DEF Next, vars, AppendLeaf, Restore, RequestProof, LoadNodes
  <2>2. PICK path \in Damaged(call.path) :
          pinned' = IF VerifyConsistency(pinned.size, call.second, pinned.root,
                                         call.secondRoot, path)
                    THEN [size |-> call.second, root |-> call.secondRoot, leaves |-> call.leaves]
                    ELSE pinned
    BY <2>1 DEF Follow
  <2>3. /\ VerifyConsistency(pinned.size, call.second, pinned.root, call.secondRoot, path)
        /\ pinned' = [size |-> call.second, root |-> call.secondRoot, leaves |-> call.leaves]
    BY <2>2
  <2>4. call # Idle /\ call.stage = "served"
    BY <2>1 DEF Follow
  <2> DEFINE T == Nat \X Nat
             old == pinned.leaves
             new == call.leaves
             hashes == LeafHashes(new)
             P == Items(RangeRoot(hashes))
  <2>5. /\ old \in Seq(T) /\ pinned.size = Len(old) /\ pinned.root = SubtreeRoot(LeafHashes(old))
    BY DEF IInv, PinnedInv, Logged
  <2>6. /\ new \in Seq(T) /\ call.second = Len(new) /\ call.secondRoot = SubtreeRoot(hashes)
        /\ call.first \in Nat /\ call.path = ConsistencyPath(hashes, call.first)
    BY <2>4 DEF IInv, CallInv, ServedProofIsExact, Logged
  <2> HIDE DEF T, old, new
  <2>7. Len(hashes) \in Nat
    BY <2>6, HashesOf
  <2>8. call.path \in Seq(P)
    <3> HIDE DEF hashes
    <3>1. ConsistencyPath(hashes, call.first) \in Paths(RangeRoot(hashes))
      BY <2>6, <2>7, PathType
    <3> QED BY <2>6, <3>1 DEF Paths
  <2>9. path \in Seq(P)
    <3> HIDE DEF P
    <3> QED BY <2>8, DamagedType
  <2>10. VerifyConsistency(Len(old), Len(new), SubtreeRoot(LeafHashes(old)),
                           SubtreeRoot(LeafHashes(new)), path)
    BY <2>3, <2>5, <2>6
  <2>11. IsPrefix(old, new)
    <3> HIDE DEF P, hashes
    <3> QED BY <2>5, <2>6, <2>9, <2>10, VerifiedPrefix
  <2>12. pinned'.leaves = new
    BY <2>3 DEF new
  <2>13. Len(pinned'.leaves) = pinned'.size /\ pinned'.root = SubtreeRoot(LeafHashes(pinned'.leaves))
    BY DEF IInv, PinnedInv
  <2> QED BY <2>11, <2>12, <2>13 DEF old
<1>2. IInv /\ [Next]_vars => [Body]_pinned
  BY <1>1, NextIInv
<1>3. Spec => [][Body]_pinned
  BY <1>2, LogInvariant, PTL DEF Spec
<1> QED BY <1>3 DEF FollowsOneLog


\* createStoredMerkleConsistencyProof and verifyMerkleConsistencyProof: a proof that was
\* served and arrives intact is accepted by every auditor that has the first root.
THEOREM ServedProofsVerify == Spec => []ServedProofVerifies
<1>1. IInv => ServedProofVerifies
  <2> SUFFICES ASSUME IInv, call # Idle, call.stage = "served"
               PROVE  VerifyConsistency(call.first, call.second, call.firstRoot,
                                        call.secondRoot, call.path)
    BY DEF ServedProofVerifies
  <2> DEFINE T == Nat \X Nat
             leaves == call.leaves
             h == LeafHashes(leaves)
             H == {Leaf(x) : x \in T}
  <2>1. /\ leaves \in Seq(T) /\ Len(leaves) = call.second
        /\ call.secondRoot = SubtreeRoot(h) /\ call.firstRoot = SubtreeRoot(SubSeq(h, 1, call.first))
        /\ call.path = ConsistencyPath(h, call.first)
        /\ call.first \in Nat /\ call.first <= call.second
    BY DEF IInv, CallInv, ServedProofIsExact, Logged
  <2>2. h \in Seq(H) /\ Len(h) = Len(leaves)
    <3> HIDE DEF T, leaves
    <3> QED BY <2>1, HashesOf
  <2>3. PICK m \in Nat : m = call.first
    BY <2>1
  <2>4. m <= Len(h)
    BY <2>1, <2>2, <2>3
  <2> HIDE DEF h, H, leaves
  <2>5. VerifyConsistency(m, Len(h), SubtreeRoot(SubSeq(h, 1, m)), SubtreeRoot(h),
                          ConsistencyPath(h, m))
    BY <2>2, <2>4, ConsistencyVerifies
  <2> QED BY <2>1, <2>2, <2>3, <2>5
<1> QED BY <1>1, LogInvariant, PTL
=============================================================================
