---------------------------- MODULE Inductions ----------------------------
(***************************************************************************)
(* Induction and recursion, stated of sets and functions so that a proof   *)
(* can cite them: the library's own theorems take operators.               *)
(***************************************************************************)
EXTENDS Naturals, FiniteSetTheorems, WellFoundedInduction, TLAPS

LEMMA NatLeast ==
  ASSUME NEW S \in SUBSET Nat, S # {}
  PROVE  \E m \in S : \A k \in S : m <= k
<1> DEFINE R == OpToRel(<, Nat)
<1>1. IsWellFoundedOn(R, Nat)
  BY NatLessThanWellFounded
<1>2. PICK m \in S : \A k \in S : <<k, m>> \notin R
  <2> HIDE DEF R
  <2> QED BY <1>1, WFMin
<1>3. \A k \in S : ~(k < m)
  BY <1>2 DEF OpToRel
<1>4. \A k \in S : k \in Nat /\ m \in Nat
  OBVIOUS
<1>5. \A k \in S : m <= k
  <2> HIDE DEF R
  <2> QED BY <1>3, <1>4
<1> QED BY <1>5

LEMMA NatInductive ==
  ASSUME NEW S, 0 \in S, \A n \in Nat : n \in S => n + 1 \in S
  PROVE  Nat \subseteq S
<1>1. SUFFICES ASSUME Nat \ S # {} PROVE FALSE
  OBVIOUS
<1>2. PICK m \in Nat \ S : \A k \in Nat \ S : m <= k
  BY <1>1, NatLeast
<1>3. m # 0 /\ m - 1 \in Nat /\ m - 1 \in S
  BY <1>2
<1>4. (m - 1) + 1 = m
  BY <1>2
<1> QED BY <1>2, <1>3, <1>4

\* f goes from a by F.
Iterates(f, N, a, F) == f[0] = a /\ \A n \in 1..N : f[n] = F[<<n, f[n-1]>>]

\* A function defined by recursion on 0..N.
LEMMA Iteration ==
  ASSUME NEW N \in Nat, NEW V, NEW a \in V, NEW F \in [(1..N) \X V -> V]
  PROVE  \E f \in [0..N -> V] : Iterates(f, N, a, F)
<1> USE DEF Iterates
<1> DEFINE Reached(n) == \E f \in [0..n -> V] : f[0] = a /\ \A i \in 1..n : f[i] = F[<<i, f[i-1]>>]
           T == {n \in Nat : n <= N => Reached(n)}
<1>1. 0 \in T
  <2>1. [i \in 0..0 |-> a] \in [0..0 -> V]
    OBVIOUS
  <2>2. [i \in 0..0 |-> a][0] = a /\ \A i \in 1..0 : FALSE
    OBVIOUS
  <2>3. Reached(0)
    <3> WITNESS [i \in 0..0 |-> a] \in [0..0 -> V]
    <3> QED BY <2>2
  <2> QED BY <2>3
<1>2. ASSUME NEW n \in Nat, n \in T PROVE n + 1 \in T
  <2>1. SUFFICES ASSUME n + 1 <= N PROVE Reached(n + 1)
    OBVIOUS
  <2>2. PICK f \in [0..n -> V] : f[0] = a /\ \A i \in 1..n : f[i] = F[<<i, f[i-1]>>]
    BY <1>2, <2>1
  <2> DEFINE g == [i \in 0..n + 1 |-> IF i <= n THEN f[i] ELSE F[<<n + 1, f[n]>>]]
  <2>3. n \in 0..n /\ n + 1 \in 1..N /\ F[<<n + 1, f[n]>>] \in V
    BY <2>1
  <2>4. g \in [0..n + 1 -> V]
    BY <2>3
  <2>5. g[0] = a
    BY <2>2
  <2>6. ASSUME NEW i \in 1..n + 1 PROVE g[i] = F[<<i, g[i-1]>>]
    <3>1. CASE i <= n
      <4>1. g[i] = f[i] /\ i \in 1..n /\ i - 1 \in 0..n /\ i - 1 \in 0..n+1 /\ g[i-1] = f[i-1]
        BY <3>1
      <4> QED BY <2>2, <4>1
    <3>2. CASE i = n + 1
      <4>1. g[i] = F[<<n + 1, f[n]>>] /\ i - 1 = n /\ g[n] = f[n]
        BY <3>2
      <4> QED BY <3>2, <4>1
    <3> QED BY <3>1, <3>2
  <2> HIDE DEF g
  <2> QED BY <2>4, <2>5, <2>6
<1> HIDE DEF T
<1>3. Nat \subseteq T
  BY <1>1, <1>2, NatInductive
<1>4. N \in T
  BY <1>3
<1> QED BY <1>4 DEF T

\* Induction on the size of a finite set.
LEMMA FiniteInductive ==
  ASSUME NEW D, IsFiniteSet(D), NEW Q, {} \in Q,
         \A T \in SUBSET D : \A x \in D \ T : T \in Q => T \cup {x} \in Q
  PROVE  SUBSET D \subseteq Q
<1> DEFINE Small == {n \in Nat : \A T \in SUBSET D : Cardinality(T) = n => T \in Q}
<1>1. \A T \in SUBSET D : IsFiniteSet(T) /\ Cardinality(T) \in Nat
  BY FS_Subset, FS_CardinalityType
<1>2. 0 \in Small
  BY <1>1, FS_EmptySet
<1>3. ASSUME NEW n \in Nat, n \in Small PROVE n + 1 \in Small
  <2>1. SUFFICES ASSUME NEW T \in SUBSET D, Cardinality(T) = n + 1 PROVE T \in Q
    OBVIOUS
  <2>2. T # {}
    BY <2>1, FS_EmptySet
  <2>3. PICK x \in T : TRUE
    BY <2>2
  <2>4. Cardinality(T \ {x}) = n
    <3>1. IsFiniteSet(T)
      BY <1>1
    <3>2. Cardinality(T \ {x}) = (n + 1) - 1
      BY <2>1, <3>1, FS_RemoveElement
    <3> QED BY <3>2
  <2>5. T \ {x} \in Q
    BY <1>3, <2>4, T \ {x} \in SUBSET D
  <2>6. (T \ {x}) \cup {x} = T
    OBVIOUS
  <2>7. T \ {x} \in SUBSET D /\ x \in D \ (T \ {x})
    OBVIOUS
  <2> QED BY <2>5, <2>6, <2>7
<1> HIDE DEF Small
<1>4. Nat \subseteq Small
  BY <1>2, <1>3, NatInductive
<1> QED BY <1>1, <1>4 DEF Small

\* c takes an element of each set that has one.
Takes(c, D) == \A s \in SUBSET D : s # {} => c[s] \in s

\* g is the fold, over each subset of D, of F from a, in the order c takes.
FoldsOver(g, D, a, c, F) ==
  \A s \in SUBSET D : g[s] = IF s = {} THEN a ELSE F[<<c[s], g[s \ {c[s]}]>>]

\* g is the sum of W over each subset of D, in the order c takes.
Sums(g, D, W, c) ==
  \A s \in SUBSET D : g[s] = IF s = {} THEN 0 ELSE W[c[s]] + g[s \ {c[s]}]

\* An element may be added to g's sums first or last.
AnyOrder(g, D, W) == \A s \in SUBSET D : \A x \in s : g[s] = W[x] + g[s \ {x}]

\* A function defined by recursion on the subsets of a finite set, as the folds
\* of the community modules are.
LEMMA Folding ==
  ASSUME NEW D, IsFiniteSet(D), NEW V, NEW a \in V, NEW c, Takes(c, D), NEW F \in [D \X V -> V]
  PROVE  \E g \in [SUBSET D -> V] : FoldsOver(g, D, a, c, F)
<1> USE DEF Takes, FoldsOver
<1> DEFINE UpTo(n) == {s \in SUBSET D : Cardinality(s) <= n}
           Folded(n) == \E g \in [UpTo(n) -> V] :
             \A s \in UpTo(n) : g[s] = IF s = {} THEN a ELSE F[<<c[s], g[s \ {c[s]}]>>]
           T == {n \in Nat : Folded(n)}
<1>1. \A s \in SUBSET D : IsFiniteSet(s) /\ Cardinality(s) \in Nat /\ (Cardinality(s) = 0 <=> s = {})
  BY FS_Subset, FS_CardinalityType, FS_EmptySet
<1>2. \A s \in SUBSET D : s # {} => s \ {c[s]} \in SUBSET D /\ Cardinality(s \ {c[s]}) = Cardinality(s) - 1
  BY <1>1, FS_RemoveElement
<1>3. 0 \in T
  <2> DEFINE g == [s \in UpTo(0) |-> a]
  <2>1. g \in [UpTo(0) -> V]
    OBVIOUS
  <2>2. ASSUME NEW s \in UpTo(0) PROVE s = {} /\ g[s] = a
    BY <1>1
  <2>3. Folded(0)
    <3> HIDE DEF g, UpTo
    <3> QED BY <2>1, <2>2
  <2> QED BY <2>3
<1>4. ASSUME NEW n \in Nat, n \in T PROVE n + 1 \in T
  <2>1. PICK f \in [UpTo(n) -> V] : \A s \in UpTo(n) : f[s] = IF s = {} THEN a ELSE F[<<c[s], f[s \ {c[s]}]>>]
    BY <1>4
  <2> DEFINE g == [s \in UpTo(n + 1) |-> IF s = {} THEN a ELSE F[<<c[s], f[s \ {c[s]}]>>]]
  <2>2. ASSUME NEW s \in UpTo(n + 1), s # {}
        PROVE  s \ {c[s]} \in UpTo(n) /\ c[s] \in D
    <3>1. s \in SUBSET D /\ Cardinality(s) <= n + 1
      OBVIOUS
    <3>2. s \ {c[s]} \in SUBSET D /\ Cardinality(s \ {c[s]}) = Cardinality(s) - 1 /\ Cardinality(s) \in Nat
      BY <1>1, <1>2, <2>2, <3>1
    <3> QED BY <2>2, <3>1, <3>2
  <2>3. \A s \in UpTo(n) : s \in UpTo(n + 1)
    BY <1>1
  <2>4. g \in [UpTo(n + 1) -> V]
    <3> HIDE DEF UpTo
    <3> QED BY <2>2
  <2>5. \A s \in UpTo(n) : g[s] = f[s]
    <3> HIDE DEF UpTo
    <3> QED BY <2>1, <2>3
  <2>6. \A s \in UpTo(n + 1) : g[s] = IF s = {} THEN a ELSE F[<<c[s], g[s \ {c[s]}]>>]
    <3> HIDE DEF UpTo
    <3> QED BY <2>2, <2>5
  <2>7. Folded(n + 1)
    <3> HIDE DEF g, UpTo
    <3> QED BY <2>4, <2>6
  <2> HIDE DEF Folded
  <2> QED BY <2>7
<1> HIDE DEF T
<1>5. Nat \subseteq T
  BY <1>3, <1>4, NatInductive
<1>6. Cardinality(D) \in Nat /\ Folded(Cardinality(D))
  BY <1>1, <1>5 DEF T
<1>7. UpTo(Cardinality(D)) = SUBSET D
  BY FS_Subset
<1> HIDE DEF UpTo
<1> QED BY <1>6, <1>7

\* The greatest and the least of finitely many numbers.
LEMMA FiniteGreatest ==
  ASSUME NEW S \in SUBSET Nat, IsFiniteSet(S), S # {}
  PROVE  \E m \in S : \A k \in S : k <= m
<1> DEFINE Q == {T \in SUBSET S : T # {} => \E m \in T : \A k \in T : k <= m}
<1>1. {} \in Q
  OBVIOUS
<1>2. ASSUME NEW T \in SUBSET S, NEW x \in S \ T, T \in Q PROVE T \cup {x} \in Q
  <2>1. CASE T = {}
    BY <2>1
  <2>2. CASE T # {}
    <3>1. PICK m \in T : \A k \in T : k <= m
      BY <1>2, <2>2
    <3>2. x \in Nat /\ m \in Nat /\ \A k \in T : k \in Nat
      OBVIOUS
    <3>3. CASE x <= m
      BY <3>1, <3>2, <3>3
    <3>4. CASE ~(x <= m)
      <4>1. \A k \in T \cup {x} : k <= x
        BY <3>1, <3>2, <3>4
      <4> QED BY <4>1
    <3> QED BY <3>3, <3>4
  <2> QED BY <2>1, <2>2
<1> HIDE DEF Q
<1>3. S \in Q
  BY <1>1, <1>2, FiniteInductive
<1> QED BY <1>3 DEF Q

\* A finite set has an image no larger than itself.
LEMMA FiniteImage ==
  ASSUME NEW S, IsFiniteSet(S), NEW f, NEW T, T = {f[x] : x \in S}
  PROVE  IsFiniteSet(T) /\ Cardinality(T) <= Cardinality(S)
<1> DEFINE g == [x \in S |-> f[x]]
<1>1. g \in Surjection(S, T)
  BY DEF Surjection
<1> QED BY <1>1, FS_Surjection

\* Finitely many things leave one of the first numbers free.
LEMMA OneIsFree ==
  ASSUME NEW S, IsFiniteSet(S)
  PROVE  (1..Cardinality(S) + 1) \ S # {}
<1>1. Cardinality(S) \in Nat
  BY FS_CardinalityType
<1> DEFINE N == 1..Cardinality(S) + 1
<1>2. IsFiniteSet(N) /\ Cardinality(N) = Cardinality(S) + 1
  BY <1>1, FS_Interval
<1> HIDE DEF N
<1>3. ASSUME N \ S = {} PROVE FALSE
  <2>1. N \in SUBSET S
    BY <1>3
  <2>2. Cardinality(N) <= Cardinality(S)
    BY <2>1, FS_Subset
  <2> QED BY <1>1, <1>2, <2>2
<1> QED BY <1>3 DEF N

\* Two functions that obey the recursion of a sum agree.
LEMMA SumsAgree ==
  ASSUME NEW D, IsFiniteSet(D), NEW W, NEW c, Takes(c, D),
         NEW g, NEW h, Sums(g, D, W, c), Sums(h, D, W, c)
  PROVE  \A s \in SUBSET D : g[s] = h[s]
<1> USE DEF Takes, Sums
<1> DEFINE T == {n \in Nat : \A s \in SUBSET D : Cardinality(s) = n => g[s] = h[s]}
<1>1. \A s \in SUBSET D : IsFiniteSet(s) /\ Cardinality(s) \in Nat /\ (Cardinality(s) = 0 <=> s = {})
  BY FS_Subset, FS_CardinalityType, FS_EmptySet
<1>2. 0 \in T
  BY <1>1
<1>3. ASSUME NEW n \in Nat, n \in T PROVE n + 1 \in T
  <2> SUFFICES ASSUME NEW s \in SUBSET D, Cardinality(s) = n + 1 PROVE g[s] = h[s]
    OBVIOUS
  <2>1. s # {}
    BY <1>1
  <2>2. s \ {c[s]} \in SUBSET D /\ Cardinality(s \ {c[s]}) = n
    <3>1. PICK y \in s : y = c[s]
      BY <2>1
    <3>2. IsFiniteSet(s)
      BY <1>1
    <3>3. Cardinality(s \ {y}) = (n + 1) - 1
      BY <3>2, FS_RemoveElement
    <3> QED BY <3>1, <3>3
  <2>3. g[s \ {c[s]}] = h[s \ {c[s]}]
    BY <1>3, <2>2
  <2> QED BY <2>1, <2>3
<1> HIDE DEF T
<1>4. Nat \subseteq T
  BY <1>2, <1>3, NatInductive
<1> QED BY <1>1, <1>4 DEF T

\* A fold that adds up numbers does not depend on the order it takes them in.
LEMMA SumAnyOrder ==
  ASSUME NEW D, IsFiniteSet(D), NEW W \in [D -> Nat], NEW c, Takes(c, D),
         NEW g \in [SUBSET D -> Nat], Sums(g, D, W, c)
  PROVE  AnyOrder(g, D, W)
<1> USE DEF Takes, Sums, AnyOrder
<1> DEFINE T == {n \in Nat : \A s \in SUBSET D : Cardinality(s) = n => \A x \in s : g[s] = W[x] + g[s \ {x}]}
<1>1. \A s \in SUBSET D : IsFiniteSet(s) /\ Cardinality(s) \in Nat /\ (Cardinality(s) = 0 <=> s = {})
  BY FS_Subset, FS_CardinalityType, FS_EmptySet
<1>2. 0 \in T
  BY <1>1
<1>3. ASSUME NEW n \in Nat, n \in T PROVE n + 1 \in T
  <2> SUFFICES ASSUME NEW s \in SUBSET D, Cardinality(s) = n + 1, NEW x \in s
               PROVE  g[s] = W[x] + g[s \ {x}]
    OBVIOUS
  <2>1. PICK y \in s : y = c[s]
    OBVIOUS
  <2>2. g[s] = W[y] + g[s \ {y}]
    BY <2>1
  <2>3. CASE x = y
    BY <2>2, <2>3
  <2>4. CASE x # y
    <3>1. \A z \in s : s \ {z} \in SUBSET D /\ Cardinality(s \ {z}) = n
      <4> SUFFICES ASSUME NEW z \in s PROVE Cardinality(s \ {z}) = n
        OBVIOUS
      <4>1. Cardinality(s \ {z}) = (n + 1) - 1
        BY <1>1, FS_RemoveElement
      <4> QED BY <4>1
    <3>2. g[s \ {y}] = W[x] + g[(s \ {y}) \ {x}]
      BY <1>3, <2>4, <3>1
    <3>3. g[s \ {x}] = W[y] + g[(s \ {x}) \ {y}]
      BY <1>3, <2>4, <3>1
    <3>4. PICK r \in SUBSET D : r = (s \ {x}) \ {y} /\ r = (s \ {y}) \ {x}
      OBVIOUS
    <3>5. W[x] \in Nat /\ W[y] \in Nat /\ g[r] \in Nat
      <4>1. x \in D /\ y \in D
        OBVIOUS
      <4> QED BY ONLY <4>1, W \in [D -> Nat], g \in [SUBSET D -> Nat], r \in SUBSET D
    <3>6. g[s \ {y}] = W[x] + g[r] /\ g[s \ {x}] = W[y] + g[r]
      BY <3>2, <3>3, <3>4
    <3> QED BY <2>2, <3>5, <3>6
  <2> QED BY <2>3, <2>4
<1> HIDE DEF T
<1>4. Nat \subseteq T
  BY <1>2, <1>3, NatInductive
<1> QED BY <1>1, <1>4 DEF T

\* Finitely many numbers have a sum.
LEMMA Summing ==
  ASSUME NEW D, IsFiniteSet(D), NEW W \in [D -> Nat], NEW c, Takes(c, D)
  PROVE  \E g \in [SUBSET D -> Nat] : Sums(g, D, W, c) /\ AnyOrder(g, D, W)
<1> DEFINE F == [z \in D \X Nat |-> W[z[1]] + z[2]]
<1>1. F \in [D \X Nat -> Nat]
  OBVIOUS
<1>2. \A d \in D, k \in Nat : F[<<d, k>>] = W[d] + k
  OBVIOUS
<1> HIDE DEF F
<1>3. PICK g \in [SUBSET D -> Nat] : FoldsOver(g, D, 0, c, F)
  BY <1>1, Folding
<1>4. Sums(g, D, W, c)
  <2> SUFFICES ASSUME NEW s \in SUBSET D, s # {} PROVE g[s] = W[c[s]] + g[s \ {c[s]}]
    BY <1>3 DEF Sums, FoldsOver
  <2>1. c[s] \in D /\ g[s \ {c[s]}] \in Nat
    BY <1>3 DEF Takes
  <2> QED BY <1>2, <1>3, <2>1 DEF FoldsOver
<1>5. AnyOrder(g, D, W)
  BY <1>3, <1>4, SumAnyOrder
<1> QED BY <1>3, <1>4, <1>5
===========================================================================
