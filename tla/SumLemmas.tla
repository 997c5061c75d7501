------------------------------ MODULE SumLemmas ------------------------------
(***************************************************************************)
(* Lemmas about sums over finite sets (SumFunctionOnSet of the community   *)
(* modules). The fold is a recursive function, whose defining equation has *)
(* to be shown to have a solution before anything is known of it. Each     *)
(* induction looks at a smallest counterexample, a minimum of a set of     *)
(* numbers, since the provers cannot instantiate induction principles.     *)
(***************************************************************************)
EXTENDS Integers, FiniteSets, FiniteSetsExt, FiniteSetTheorems, TLAPS

LEMMA Least ==
    ASSUME NEW T, T \subseteq Nat, T # {}
    PROVE  \E n \in T : \A m \in T : n <= m
<1> DEFINE R == OpToRel(<, Nat)
<1>1. IsWellFoundedOn(R, Nat) BY NatLessThanWellFounded, Zenon
<1>2. \A x, y \in Nat : x < y => <<x, y>> \in R BY Zenon DEF OpToRel
<1> HIDE DEF R
<1>3. PICK n \in T : \A m \in T : ~ (<<m, n>> \in R) BY <1>1, WFMin, Zenon
<1>4. ASSUME NEW m \in T PROVE n <= m
  <2>1. n \in Nat /\ m \in Nat OBVIOUS
  <2>2. ~(m < n) BY <1>2, <1>3, <2>1
  <2> QED BY <2>1, <2>2
<1> QED BY <1>4

(* Among finite sets with a property there is one of which no proper       *)
(* subset that is one element smaller has it.                              *)
LEMMA Smallest ==
    ASSUME NEW S, IsFiniteSet(S), NEW B, B \subseteq SUBSET S, B # {}
    PROVE  \E U \in B : \A x \in U : U \ {x} \notin B
<1> DEFINE N == {Cardinality(U) : U \in B}
<1>1. \A U \in B : IsFiniteSet(U) /\ Cardinality(U) \in Nat
  BY FS_Subset, FS_CardinalityType
<1>2. N \subseteq Nat /\ N # {} BY <1>1
<1>3. PICK n \in N : \A m \in N : n <= m BY <1>2, Least
<1>4. PICK U \in B : n = Cardinality(U) BY <1>3
<1>5. ASSUME NEW x \in U, U \ {x} \in B PROVE FALSE
  <2>1. Cardinality(U \ {x}) = Cardinality(U) - 1 BY <1>1, FS_RemoveElement
  <2>2. Cardinality(U \ {x}) \in N BY <1>5
  <2>3. Cardinality(U) \in Nat BY <1>1
  <2>4. Cardinality(U) <= Cardinality(U) - 1 BY <1>3, <1>4, <2>1, <2>2
  <2> QED BY <2>3, <2>4
<1> QED BY <1>5

-----------------------------------------------------------------------------
(* The defining equation of the fold.                                      *)
Pick(s) == CHOOSE x \in s : TRUE
Sums(g, f, S) ==
    g = [s \in SUBSET S |-> IF s = {} THEN 0 ELSE f[Pick(s)] + g[s \ {Pick(s)}]]

LEMMA Picked == ASSUME NEW s, s # {} PROVE Pick(s) \in s
BY DEF Pick

LEMMA SumsAt ==
    ASSUME NEW g, NEW f, NEW S, Sums(g, f, S)
    PROVE  /\ g[{}] = 0
           /\ \A s \in SUBSET S : s # {} => g[s] = f[Pick(s)] + g[s \ {Pick(s)}]
<1> DEFINE body(s) == IF s = {} THEN 0 ELSE f[Pick(s)] + g[s \ {Pick(s)}]
<1>1. g = [s \in SUBSET S |-> body(s)] BY DEF Sums
<1>2. \A s \in SUBSET S : g[s] = body(s)
  <2> HIDE DEF body
  <2> QED BY <1>1
<1> QED BY <1>2

LEMMA SumsUnique ==
    ASSUME NEW f, NEW S, NEW R, NEW g, NEW h, Sums(g, f, S), Sums(h, f, R),
           NEW T, IsFiniteSet(T), T \subseteq S, T \subseteq R
    PROVE  g[T] = h[T]
<1> DEFINE B == {U \in SUBSET T : g[U] # h[U]}
<1>1. SUFFICES ASSUME B # {} PROVE FALSE OBVIOUS
<1>2. PICK U \in B : \A x \in U : U \ {x} \notin B BY <1>1, Smallest
<1>3. U # {} BY <1>2, SumsAt
<1>4. Pick(U) \in U BY <1>3, Picked
<1>5. g[U \ {Pick(U)}] = h[U \ {Pick(U)}] BY <1>2, <1>4
<1>6. g[U] = f[Pick(U)] + g[U \ {Pick(U)}] /\ h[U] = f[Pick(U)] + h[U \ {Pick(U)}]
  BY <1>3, SumsAt
<1> QED BY <1>2, <1>5, <1>6

LEMMA SumsExist ==
    ASSUME NEW f, NEW S, IsFiniteSet(S) PROVE \E g : Sums(g, f, S)
<1> DEFINE B == {U \in SUBSET S : ~ \E g : Sums(g, f, U)}
<1>1. SUFFICES ASSUME B # {} PROVE FALSE OBVIOUS
<1>2. PICK U \in B : \A x \in U : U \ {x} \notin B BY <1>1, Smallest
<1>3. \A s \in SUBSET U : IsFiniteSet(s) BY FS_Subset
<1>4. \A s \in SUBSET U : s # U => \E g : Sums(g, f, s)
  <2> SUFFICES ASSUME NEW s \in SUBSET U, s # U PROVE \E g : Sums(g, f, s) OBVIOUS
  <2>1. PICK x \in U : x \notin s OBVIOUS
  <2>2. PICK g : Sums(g, f, U \ {x}) BY <1>2, <2>1
  <2> DEFINE body(t) == IF t = {} THEN 0 ELSE f[Pick(t)] + g[t \ {Pick(t)}]
             h == [t \in SUBSET s |-> g[t]]
  <2>3. \A t \in SUBSET s : g[t] = body(t)
    <3>1. \A t \in SUBSET s : t \in SUBSET (U \ {x}) BY <2>1
    <3>2. /\ g[{}] = 0
          /\ \A t \in SUBSET (U \ {x}) : t # {} => g[t] = f[Pick(t)] + g[t \ {Pick(t)}]
      BY <2>2, SumsAt
    <3> QED BY <3>1, <3>2
  <2>4. \A t \in SUBSET s : t # {} => h[t \ {Pick(t)}] = g[t \ {Pick(t)}] OBVIOUS
  <2>5. \A t \in SUBSET s : body(t) = IF t = {} THEN 0 ELSE f[Pick(t)] + h[t \ {Pick(t)}]
    BY <2>4
  <2>6. h = [t \in SUBSET s |-> body(t)]
    <3> HIDE DEF body
    <3> QED BY <2>3
  <2>7. Sums(h, f, s) BY <2>5, <2>6, Zenon DEF Sums
  <2> QED BY <2>7
<1> DEFINE below(s) == CHOOSE g : Sums(g, f, s)
           value(s) == below(s)[s]
           body(s) == IF s = {} THEN 0 ELSE f[Pick(s)] + value(s \ {Pick(s)})
           h == [s \in SUBSET U |-> body(s)]
<1>5. \A s \in SUBSET U : s # U => Sums(below(s), f, s) BY <1>4
<1> HIDE DEF below
<1>6. ASSUME NEW s \in SUBSET U, s # U PROVE value(s) = body(s)
  <2>1. Sums(below(s), f, s) BY <1>5, <1>6
  <2>2. CASE s = {} BY <2>1, <2>2, SumsAt
  <2>3. CASE s # {}
    <3> DEFINE t == s \ {Pick(s)}
    <3>1. Pick(s) \in s BY <2>3, Picked
    <3>2. t \in SUBSET U /\ t # U /\ IsFiniteSet(t) BY <1>3, <1>6
    <3>3. Sums(below(t), f, t) BY <1>5, <3>2
    <3>4. below(s)[t] = below(t)[t] BY <2>1, <3>2, <3>3, SumsUnique
    <3>5. below(s)[s] = f[Pick(s)] + below(s)[t] BY <2>1, <2>3, SumsAt
    <3> QED BY <2>3, <3>4, <3>5
  <2> QED BY <2>2, <2>3
<1> HIDE DEF value
<1>7. \A s \in SUBSET U : s # {} => h[s \ {Pick(s)}] = value(s \ {Pick(s)})
  <2> SUFFICES ASSUME NEW s \in SUBSET U, s # {}
               PROVE  h[s \ {Pick(s)}] = value(s \ {Pick(s)})
    OBVIOUS
  <2>1. Pick(s) \in s BY Picked
  <2>2. s \ {Pick(s)} \in SUBSET U /\ s \ {Pick(s)} # U BY <2>1
  <2> HIDE DEF body
  <2> QED BY <1>6, <2>2
<1>8. h = [s \in SUBSET U |-> IF s = {} THEN 0 ELSE f[Pick(s)] + h[s \ {Pick(s)}]]
  <2>1. \A s \in SUBSET U :
          body(s) = IF s = {} THEN 0 ELSE f[Pick(s)] + h[s \ {Pick(s)}]
    <3> HIDE DEF h
    <3> QED BY <1>7
  <2> HIDE DEF body
  <2> QED BY <2>1, Zenon
<1>9. Sums(h, f, U) BY <1>8, Zenon DEF Sums
<1> QED BY <1>2, <1>9

-----------------------------------------------------------------------------
(* What a sum is.                                                          *)
LEMMA SumUnfolds ==
    ASSUME NEW f, NEW S
    PROVE  SumFunctionOnSet(f, S) = (CHOOSE g : Sums(g, f, S))[S]
BY Zenon DEF SumFunctionOnSet, FoldFunctionOnSet, MapThenFoldSet, Sums, Pick

LEMMA SumOfNone ==
    ASSUME NEW f PROVE SumFunctionOnSet(f, {}) = 0
<1>1. \E g : Sums(g, f, {}) BY FS_EmptySet, SumsExist
<1>2. Sums(CHOOSE g : Sums(g, f, {}), f, {}) BY <1>1
<1> QED BY <1>2, SumUnfolds, SumsAt

LEMMA SumPicks ==
    ASSUME NEW f, NEW S, IsFiniteSet(S), S # {}
    PROVE  SumFunctionOnSet(f, S) = f[Pick(S)] + SumFunctionOnSet(f, S \ {Pick(S)})
<1> DEFINE T == S \ {Pick(S)}
           g == CHOOSE g : Sums(g, f, S)
           h == CHOOSE h : Sums(h, f, T)
<1>1. IsFiniteSet(T) BY FS_Subset
<1>2. Sums(g, f, S) BY SumsExist
<1>3. Sums(h, f, T) BY <1>1, SumsExist
<1> HIDE DEF g, h
<1>4. g[T] = h[T] BY <1>1, <1>2, <1>3, SumsUnique
<1>5. g[S] = f[Pick(S)] + g[T] BY <1>2, SumsAt
<1>6. SumFunctionOnSet(f, S) = g[S] /\ SumFunctionOnSet(f, T) = h[T]
  BY SumUnfolds DEF g, h
<1> QED BY <1>4, <1>5, <1>6

LEMMA SumInt ==
    ASSUME NEW S, IsFiniteSet(S), NEW f, \A x \in S : f[x] \in Int
    PROVE  \A T \in SUBSET S : SumFunctionOnSet(f, T) \in Int
<1> DEFINE B == {T \in SUBSET S : SumFunctionOnSet(f, T) \notin Int}
<1>1. SUFFICES ASSUME B # {} PROVE FALSE OBVIOUS
<1>2. PICK U \in B : \A x \in U : U \ {x} \notin B BY <1>1, Smallest
<1>3. U # {} /\ IsFiniteSet(U)
  <2>1. SumFunctionOnSet(f, {}) \in Int BY SumOfNone
  <2> QED BY <1>2, <2>1, FS_Subset
<1>4. Pick(U) \in U BY <1>3, Picked
<1>5. SumFunctionOnSet(f, U \ {Pick(U)}) \in Int BY <1>2, <1>4
<1>6. SumFunctionOnSet(f, U) = f[Pick(U)] + SumFunctionOnSet(f, U \ {Pick(U)})
  BY <1>3, SumPicks
<1> QED BY <1>2, <1>4, <1>5, <1>6

(* A sum does not depend on the order of its terms.                        *)
LEMMA SumAnyFirst ==
    ASSUME NEW S, IsFiniteSet(S), NEW f, \A x \in S : f[x] \in Int, NEW x \in S
    PROVE  SumFunctionOnSet(f, S) = f[x] + SumFunctionOnSet(f, S \ {x})
<1> DEFINE Total(T) == SumFunctionOnSet(f, T)
           B == {T \in SUBSET S : \E y \in T : Total(T) # f[y] + Total(T \ {y})}
<1> HIDE DEF Total
<1>i. \A T \in SUBSET S : Total(T) \in Int BY SumInt DEF Total
<1>1. SUFFICES ASSUME B # {} PROVE FALSE BY DEF Total
<1>2. PICK U \in B : \A z \in U : U \ {z} \notin B BY <1>1, Smallest
<1>3. PICK y \in U : Total(U) # f[y] + Total(U \ {y}) BY <1>2
<1>4. IsFiniteSet(U) /\ U # {} BY <1>3, FS_Subset
<1> DEFINE z == Pick(U)
<1>5. z \in U BY <1>4, Picked
<1>6. Total(U) = f[z] + Total(U \ {z}) BY <1>4, SumPicks DEF Total
<1> HIDE DEF z
<1>7. y # z BY <1>3, <1>6
<1>8. Total(U \ {z}) = f[y] + Total((U \ {z}) \ {y}) BY <1>2, <1>5, <1>7
<1>9. Total(U \ {y}) = f[z] + Total((U \ {y}) \ {z}) BY <1>2, <1>5, <1>7
<1>10. (U \ {z}) \ {y} = (U \ {y}) \ {z} OBVIOUS
<1>11. f[y] \in Int /\ f[z] \in Int /\ Total((U \ {y}) \ {z}) \in Int BY <1>i, <1>5
<1> DEFINE rest == Total((U \ {y}) \ {z})
<1>12. Total(U) = f[z] + (f[y] + rest) BY <1>6, <1>8, <1>10
<1>13. Total(U) # f[y] + (f[z] + rest) BY <1>3, <1>9
<1>14. rest \in Int BY <1>11
<1> HIDE DEF rest, B
<1> QED BY <1>11, <1>12, <1>13, <1>14

(* Terms that are equal have equal sums.                                   *)
LEMMA SumSame ==
    ASSUME NEW S, IsFiniteSet(S), NEW f, NEW g, \A x \in S : f[x] = g[x]
    PROVE  SumFunctionOnSet(f, S) = SumFunctionOnSet(g, S)
<1> DEFINE B == {T \in SUBSET S : SumFunctionOnSet(f, T) # SumFunctionOnSet(g, T)}
<1>1. SUFFICES ASSUME B # {} PROVE FALSE OBVIOUS
<1>2. PICK U \in B : \A x \in U : U \ {x} \notin B BY <1>1, Smallest
<1>3. U # {} /\ IsFiniteSet(U) BY <1>2, SumOfNone, FS_Subset
<1>4. Pick(U) \in U BY <1>3, Picked
<1>5. SumFunctionOnSet(f, U \ {Pick(U)}) = SumFunctionOnSet(g, U \ {Pick(U)}) BY <1>2, <1>4
<1> QED BY <1>2, <1>3, <1>4, <1>5, SumPicks

(* The sum of natural numbers is one and at least each of its terms.       *)
LEMMA SumNat ==
    ASSUME NEW S, IsFiniteSet(S), NEW f, \A x \in S : f[x] \in Nat
    PROVE  /\ SumFunctionOnSet(f, S) \in Nat
           /\ \A x \in S : f[x] <= SumFunctionOnSet(f, S)
<1> DEFINE B == {T \in SUBSET S : SumFunctionOnSet(f, T) \notin Nat}
<1>1. B = {}
  <2>1. SUFFICES ASSUME B # {} PROVE FALSE OBVIOUS
  <2>2. PICK U \in B : \A x \in U : U \ {x} \notin B BY <2>1, Smallest
  <2>3. U # {} /\ IsFiniteSet(U)
    <3>1. SumFunctionOnSet(f, {}) \in Nat BY SumOfNone
    <3> QED BY <2>2, <3>1, FS_Subset
  <2>4. Pick(U) \in U BY <2>3, Picked
  <2>5. SumFunctionOnSet(f, U \ {Pick(U)}) \in Nat BY <2>2, <2>4
  <2>6. SumFunctionOnSet(f, U) = f[Pick(U)] + SumFunctionOnSet(f, U \ {Pick(U)})
    BY <2>3, SumPicks
  <2> QED BY <2>2, <2>4, <2>5, <2>6
<1>2. \A T \in SUBSET S : SumFunctionOnSet(f, T) \in Nat BY <1>1
<1>3. ASSUME NEW x \in S PROVE f[x] <= SumFunctionOnSet(f, S)
  <2>1. SumFunctionOnSet(f, S) = f[x] + SumFunctionOnSet(f, S \ {x}) BY SumAnyFirst
  <2>2. SumFunctionOnSet(f, S \ {x}) \in Nat /\ f[x] \in Nat BY <1>2
  <2> HIDE DEF B
  <2> QED BY <2>1, <2>2
<1> QED BY <1>2, <1>3

LEMMA SumFunctionNat ==
    ASSUME NEW f, IsFiniteSet(DOMAIN f), \A x \in DOMAIN f : f[x] \in Nat
    PROVE  /\ SumFunction(f) \in Nat
           /\ \A x \in DOMAIN f : f[x] <= SumFunction(f)
BY SumNat DEF SumFunction

(* Changing one term changes the sum by the difference.                    *)
LEMMA SumChanges ==
    ASSUME NEW S, IsFiniteSet(S), NEW f, NEW g, NEW x \in S,
           \A y \in S : f[y] \in Int /\ g[y] \in Int, \A y \in S \ {x} : g[y] = f[y]
    PROVE  SumFunctionOnSet(g, S) = SumFunctionOnSet(f, S) - f[x] + g[x]
<1> DEFINE T == S \ {x}
<1>1. IsFiniteSet(T) BY FS_Subset
<1>2. SumFunctionOnSet(f, T) = SumFunctionOnSet(g, T) BY <1>1, SumSame
<1>3. SumFunctionOnSet(f, T) \in Int BY SumInt
<1>4. SumFunctionOnSet(f, S) = f[x] + SumFunctionOnSet(f, T) BY SumAnyFirst
<1>5. SumFunctionOnSet(g, S) = g[x] + SumFunctionOnSet(g, T) BY SumAnyFirst
<1> QED BY <1>2, <1>3, <1>4, <1>5

(* Sums are additive, linear and monotone in their terms.                  *)
LEMMA SumPlus ==
    ASSUME NEW S, IsFiniteSet(S), NEW f, NEW g, NEW h,
           \A x \in S : f[x] \in Int /\ g[x] \in Int /\ h[x] = f[x] + g[x]
    PROVE  SumFunctionOnSet(h, S) = SumFunctionOnSet(f, S) + SumFunctionOnSet(g, S)
<1> DEFINE B == {T \in SUBSET S : SumFunctionOnSet(h, T)
                                   # SumFunctionOnSet(f, T) + SumFunctionOnSet(g, T)}
<1>1. SUFFICES ASSUME B # {} PROVE FALSE OBVIOUS
<1>2. PICK U \in B : \A x \in U : U \ {x} \notin B BY <1>1, Smallest
<1>3. U # {} /\ IsFiniteSet(U)
  <2>1. 0 = 0 + 0 OBVIOUS
  <2> QED BY <1>2, <2>1, SumOfNone, FS_Subset
<1> DEFINE z == Pick(U)
           V == U \ {z}
<1>4. z \in U /\ z \in S /\ V \in SUBSET S BY <1>3, Picked
<1>5. SumFunctionOnSet(h, V) = SumFunctionOnSet(f, V) + SumFunctionOnSet(g, V)
  BY <1>2, <1>4
<1>6. SumFunctionOnSet(f, V) \in Int /\ SumFunctionOnSet(g, V) \in Int BY <1>4, SumInt
<1>7. /\ SumFunctionOnSet(f, U) = f[z] + SumFunctionOnSet(f, V)
      /\ SumFunctionOnSet(g, U) = g[z] + SumFunctionOnSet(g, V)
      /\ SumFunctionOnSet(h, U) = h[z] + SumFunctionOnSet(h, V)
  BY <1>3, SumPicks
<1>8. f[z] \in Int /\ g[z] \in Int /\ h[z] = f[z] + g[z] BY <1>4
<1>9. SumFunctionOnSet(h, U) = SumFunctionOnSet(f, U) + SumFunctionOnSet(g, U)
  <2> HIDE DEF z, V, B
  <2> QED BY <1>5, <1>6, <1>7, <1>8
<1> QED BY <1>2, <1>9

LEMMA SumTimes ==
    ASSUME NEW S, IsFiniteSet(S), NEW k \in Int, NEW f, NEW g,
           \A x \in S : f[x] \in Int /\ g[x] = k * f[x]
    PROVE  SumFunctionOnSet(g, S) = k * SumFunctionOnSet(f, S)
<1> DEFINE B == {T \in SUBSET S : SumFunctionOnSet(g, T) # k * SumFunctionOnSet(f, T)}
<1>1. SUFFICES ASSUME B # {} PROVE FALSE OBVIOUS
<1>2. PICK U \in B : \A x \in U : U \ {x} \notin B BY <1>1, Smallest
<1>3. U # {} /\ IsFiniteSet(U)
  <2>1. 0 = k * 0 OBVIOUS
  <2> QED BY <1>2, <2>1, SumOfNone, FS_Subset
<1> DEFINE z == Pick(U)
           V == U \ {z}
<1>4. z \in U /\ z \in S /\ V \in SUBSET S BY <1>3, Picked
<1>5. SumFunctionOnSet(g, V) = k * SumFunctionOnSet(f, V) BY <1>2, <1>4
<1>6. SumFunctionOnSet(f, V) \in Int BY <1>4, SumInt
<1>7. /\ SumFunctionOnSet(f, U) = f[z] + SumFunctionOnSet(f, V)
      /\ SumFunctionOnSet(g, U) = g[z] + SumFunctionOnSet(g, V)
  BY <1>3, SumPicks
<1>8. f[z] \in Int /\ g[z] = k * f[z] BY <1>4
<1>9. \A a, b \in Int : k * (a + b) = k * a + k * b OBVIOUS
<1>10. SumFunctionOnSet(g, U) = k * SumFunctionOnSet(f, U)
  <2> HIDE DEF z, V, B
  <2> QED BY <1>5, <1>6, <1>7, <1>8, <1>9
<1> QED BY <1>2, <1>10

LEMMA SumMonotone ==
    ASSUME NEW S, IsFiniteSet(S), NEW f, NEW g,
           \A x \in S : f[x] \in Int /\ g[x] \in Int /\ f[x] <= g[x]
    PROVE  SumFunctionOnSet(f, S) <= SumFunctionOnSet(g, S)
<1> DEFINE h == [x \in S |-> g[x] - f[x]]
<1>1. \A x \in S : h[x] \in Nat /\ h[x] \in Int /\ g[x] = f[x] + h[x] OBVIOUS
<1> HIDE DEF h
<1>2. SumFunctionOnSet(g, S) = SumFunctionOnSet(f, S) + SumFunctionOnSet(h, S)
  BY <1>1, SumPlus
<1>3. SumFunctionOnSet(h, S) \in Nat BY <1>1, SumNat
<1>4. SumFunctionOnSet(f, S) \in Int BY SumInt
<1> QED BY <1>2, <1>3, <1>4

(* The sum of equal terms.                                                 *)
LEMMA SumOfEqual ==
    ASSUME NEW S, IsFiniteSet(S), NEW k \in Int, NEW f, \A x \in S : f[x] = k
    PROVE  SumFunctionOnSet(f, S) = k * Cardinality(S)
<1> DEFINE B == {T \in SUBSET S : SumFunctionOnSet(f, T) # k * Cardinality(T)}
<1>1. SUFFICES ASSUME B # {} PROVE FALSE OBVIOUS
<1>2. PICK U \in B : \A x \in U : U \ {x} \notin B BY <1>1, Smallest
<1>3. U # {} /\ IsFiniteSet(U)
  <2>1. Cardinality({}) = 0 BY FS_EmptySet
  <2>2. k * 0 = 0 OBVIOUS
  <2> QED BY <1>2, <2>1, <2>2, SumOfNone, FS_Subset
<1> DEFINE z == Pick(U)
           V == U \ {z}
           n == Cardinality(V)
<1>4. z \in U /\ z \in S /\ V \in SUBSET S BY <1>3, Picked
<1>5. SumFunctionOnSet(f, V) = k * n BY <1>2, <1>4
<1>6. SumFunctionOnSet(f, U) = f[z] + SumFunctionOnSet(f, V) BY <1>3, SumPicks
<1>7. n \in Nat /\ Cardinality(U) = n + 1
  <2>1. n = Cardinality(U) - 1 /\ Cardinality(U) \in Nat
    BY <1>3, <1>4, FS_RemoveElement, FS_CardinalityType
  <2>2. n \in Nat BY <1>3, FS_Subset, FS_CardinalityType
  <2> QED BY <2>1, <2>2
<1>8. f[z] = k BY <1>4
<1>9. SumFunctionOnSet(f, U) = k * Cardinality(U)
  <2> HIDE DEF n, z, V, B
  <2>1. k * (n + 1) = k * n + k /\ k * n \in Int BY <1>7
  <2> QED BY <1>5, <1>6, <1>7, <1>8, <2>1
<1> QED BY <1>2, <1>9

(* A sum is at most the number of its terms times a bound of each.         *)
LEMMA SumBounded ==
    ASSUME NEW S, IsFiniteSet(S), NEW m \in Nat, NEW f,
           \A x \in S : f[x] \in Nat /\ f[x] <= m
    PROVE  SumFunctionOnSet(f, S) <= m * Cardinality(S)
<1> DEFINE g == [x \in S |-> m]
<1>1. \A x \in S : f[x] \in Int /\ g[x] \in Int /\ f[x] <= g[x] /\ g[x] = m OBVIOUS
<1> HIDE DEF g
<1>2. SumFunctionOnSet(f, S) <= SumFunctionOnSet(g, S) BY <1>1, SumMonotone
<1>3. SumFunctionOnSet(g, S) = m * Cardinality(S) BY <1>1, SumOfEqual
<1> QED BY <1>2, <1>3

(* Summing over two disjoint parts.                                        *)
LEMMA SumOfParts ==
    ASSUME NEW S, IsFiniteSet(S), NEW f, \A x \in S : f[x] \in Int,
           NEW A, NEW D, A \cup D = S, A \cap D = {}
    PROVE  SumFunctionOnSet(f, S) = SumFunctionOnSet(f, A) + SumFunctionOnSet(f, D)
<1> DEFINE B == {T \in SUBSET D : SumFunctionOnSet(f, A \cup T)
                                   # SumFunctionOnSet(f, A) + SumFunctionOnSet(f, T)}
<1>1. SUFFICES ASSUME B # {} PROVE FALSE OBVIOUS
<1>2. IsFiniteSet(D) /\ \A T \in SUBSET S : IsFiniteSet(T) BY FS_Subset
<1>3. \A T \in SUBSET S : SumFunctionOnSet(f, T) \in Int BY SumInt
<1>4. PICK U \in B : \A x \in U : U \ {x} \notin B BY <1>1, <1>2, Smallest
<1>5. U # {}
  <2>1. SumFunctionOnSet(f, A) + 0 = SumFunctionOnSet(f, A) BY <1>3
  <2>2. A \cup {} = A OBVIOUS
  <2> QED BY <1>4, <2>1, <2>2, SumOfNone
<1> DEFINE z == Pick(U)
           V == U \ {z}
<1>6. /\ z \in U /\ z \in S /\ z \in A \cup U /\ V \in SUBSET D /\ V \in SUBSET S
      /\ A \in SUBSET S /\ U \in SUBSET S /\ A \cup U \in SUBSET S
      /\ (A \cup U) \ {z} = A \cup V
  BY <1>4, <1>5, Picked
<1>7. SumFunctionOnSet(f, A \cup V) = SumFunctionOnSet(f, A) + SumFunctionOnSet(f, V)
  BY <1>4, <1>6
<1>8. SumFunctionOnSet(f, U) = f[z] + SumFunctionOnSet(f, V)
  <2>1. IsFiniteSet(U) /\ \A x \in U : f[x] \in Int BY <1>2, <1>6
  <2> QED BY <1>6, <2>1, SumAnyFirst
<1>9. SumFunctionOnSet(f, A \cup U) = f[z] + SumFunctionOnSet(f, A \cup V)
  <2>1. IsFiniteSet(A \cup U) /\ \A x \in A \cup U : f[x] \in Int BY <1>2, <1>6
  <2> HIDE DEF z, V
  <2> QED BY <1>6, <2>1, SumAnyFirst
<1>10. f[z] \in Int /\ SumFunctionOnSet(f, A) \in Int /\ SumFunctionOnSet(f, V) \in Int
  BY <1>3, <1>6
<1>11. SumFunctionOnSet(f, A \cup U) = SumFunctionOnSet(f, A) + SumFunctionOnSet(f, U)
  <2> HIDE DEF z, V, B
  <2> QED BY <1>7, <1>8, <1>9, <1>10
<1> QED BY <1>4, <1>11

(* Counting the elements of a set with a sum.                              *)
LEMMA SumCounts ==
    ASSUME NEW S, IsFiniteSet(S), NEW T, NEW f, \A x \in S : f[x] = IF x \in T THEN 1 ELSE 0
    PROVE  SumFunctionOnSet(f, S) = Cardinality(T \cap S)
<1> DEFINE A == T \cap S
           D == S \ T
<1>1. IsFiniteSet(A) /\ IsFiniteSet(D) BY FS_Subset
<1>2. SumFunctionOnSet(f, S) = SumFunctionOnSet(f, A) + SumFunctionOnSet(f, D)
  BY SumOfParts
<1>3. SumFunctionOnSet(f, A) = 1 * Cardinality(A) BY <1>1, SumOfEqual
<1>4. SumFunctionOnSet(f, D) = 0 * Cardinality(D) BY <1>1, SumOfEqual
<1>5. Cardinality(A) \in Nat /\ Cardinality(D) \in Nat BY <1>1, FS_CardinalityType
<1> HIDE DEF A, D
<1>6. SumFunctionOnSet(f, S) = Cardinality(A) BY <1>2, <1>3, <1>4, <1>5
<1> QED BY <1>6 DEF A

(* Summing over the image of an injection.                                 *)
LEMMA SumOfImage ==
    ASSUME NEW S, IsFiniteSet(S), NEW R, NEW h, NEW f, NEW g,
           R = {h[x] : x \in S}, \A x, y \in S : h[x] = h[y] => x = y,
           \A x \in S : f[x] \in Int /\ g[h[x]] = f[x]
    PROVE  IsFiniteSet(R) /\ SumFunctionOnSet(g, R) = SumFunctionOnSet(f, S)
<1> DEFINE Image(T) == {h[x] : x \in T}
           B == {T \in SUBSET S : ~(/\ IsFiniteSet(Image(T))
                                    /\ SumFunctionOnSet(g, Image(T)) = SumFunctionOnSet(f, T))}
<1>1. SUFFICES ASSUME B # {} PROVE FALSE OBVIOUS
<1>2. PICK U \in B : \A x \in U : U \ {x} \notin B BY <1>1, Smallest
<1>3. U # {} /\ IsFiniteSet(U)
  <2>1. Image({}) = {} OBVIOUS
  <2> QED BY <1>2, <2>1, SumOfNone, FS_EmptySet, FS_Subset
<1> DEFINE z == Pick(U)
           V == U \ {z}
<1>4. z \in U /\ z \in S /\ V \in SUBSET S /\ U \in SUBSET S BY <1>2, <1>3, Picked
<1>5. IsFiniteSet(Image(V)) /\ SumFunctionOnSet(g, Image(V)) = SumFunctionOnSet(f, V)
  BY <1>2, <1>4
<1>6. SumFunctionOnSet(f, U) = f[z] + SumFunctionOnSet(f, V) BY <1>3, SumPicks
<1>7. /\ Image(U) = Image(V) \cup {h[z]} /\ h[z] \in Image(U) /\ Image(U) \ {h[z]} = Image(V)
      /\ \A y \in Image(U) : g[y] \in Int
  <2> HIDE DEF z
  <2> QED BY <1>4
<1>8. IsFiniteSet(Image(U))
  <2> HIDE DEF z, V, Image
  <2> QED BY <1>5, <1>7, FS_AddElement
<1>9. SumFunctionOnSet(g, Image(U)) = g[h[z]] + SumFunctionOnSet(g, Image(V))
  <2> HIDE DEF z, V, Image
  <2> QED BY <1>7, <1>8, SumAnyFirst
<1>10. g[h[z]] = f[z] BY <1>4
<1> QED BY <1>2, <1>5, <1>6, <1>8, <1>9, <1>10

(* One element for each has as many.                                       *)
LEMMA SameSize ==
    ASSUME NEW S, IsFiniteSet(S), NEW R, NEW h,
           R = {h[x] : x \in S}, \A x, y \in S : h[x] = h[y] => x = y
    PROVE  IsFiniteSet(R) /\ Cardinality(R) = Cardinality(S)
<1> DEFINE f == [x \in S |-> 1]
           g == [y \in R |-> 1]
<1>1. \A x \in S : f[x] = 1 /\ f[x] \in Int /\ g[h[x]] = f[x] OBVIOUS
<1>2. \A y \in R : g[y] = 1 OBVIOUS
<1> HIDE DEF f, g
<1>3. IsFiniteSet(R) /\ SumFunctionOnSet(g, R) = SumFunctionOnSet(f, S) BY <1>1, SumOfImage
<1>4. SumFunctionOnSet(f, S) = 1 * Cardinality(S) BY <1>1, SumOfEqual
<1>5. SumFunctionOnSet(g, R) = 1 * Cardinality(R) BY <1>2, <1>3, SumOfEqual
<1>6. Cardinality(R) \in Nat /\ Cardinality(S) \in Nat BY <1>3, FS_CardinalityType
<1> QED BY <1>3, <1>4, <1>5, <1>6

(* Summing group by group.                                                 *)
LEMMA SumOfGroups ==
    ASSUME NEW S, IsFiniteSet(S), NEW R, IsFiniteSet(R), NEW to, \A x \in S : to[x] \in R,
           NEW group, \A r \in R : group[r] \subseteq S /\ \A x \in S : x \in group[r] <=> to[x] = r,
           NEW f, NEW g, \A x \in S : f[x] \in Int,
           \A r \in R : g[r] = SumFunctionOnSet(f, group[r])
    PROVE  SumFunctionOnSet(f, S) = SumFunctionOnSet(g, R)
<1> DEFINE Of(T) == {x \in S : to[x] \in T}
           B == {T \in SUBSET R : SumFunctionOnSet(f, Of(T)) # SumFunctionOnSet(g, T)}
<1>1. SUFFICES ASSUME B # {} PROVE FALSE
  <2>1. Of(R) = S OBVIOUS
  <2> QED BY <2>1
<1>2. PICK U \in B : \A x \in U : U \ {x} \notin B BY <1>1, Smallest
<1>3. U # {} /\ IsFiniteSet(U)
  <2>1. Of({}) = {} OBVIOUS
  <2>2. U \subseteq R /\ SumFunctionOnSet(f, Of(U)) # SumFunctionOnSet(g, U) BY <1>2
  <2>3. IsFiniteSet(U) BY <2>2, FS_Subset
  <2> HIDE DEF Of
  <2>4. U # {} BY <2>1, <2>2, SumOfNone
  <2> QED BY <2>3, <2>4
<1> DEFINE z == Pick(U)
           V == U \ {z}
           Z == group[z]
<1>4. z \in U /\ z \in R /\ V \in SUBSET R BY <1>2, <1>3, Picked
<1>5. SumFunctionOnSet(f, Of(V)) = SumFunctionOnSet(g, V) BY <1>2, <1>4
<1>6. SumFunctionOnSet(g, U) = g[z] + SumFunctionOnSet(g, V) BY <1>3, SumPicks
<1>7. Of(U) = Z \cup Of(V) /\ Z \cap Of(V) = {} /\ Of(U) \in SUBSET S
  <2> HIDE DEF z
  <2> QED BY <1>4
<1>8. SumFunctionOnSet(f, Of(U)) = SumFunctionOnSet(f, Z) + SumFunctionOnSet(f, Of(V))
  <2>1. IsFiniteSet(Of(U)) /\ \A x \in Of(U) : f[x] \in Int BY <1>7, FS_Subset
  <2> HIDE DEF Z, Of, V
  <2> QED BY <1>7, <2>1, SumOfParts
<1>9. g[z] = SumFunctionOnSet(f, Z) BY <1>4
<1> QED BY <1>2, <1>5, <1>6, <1>8, <1>9
=============================================================================
