------------------------------- MODULE SumLemmas -------------------------------
(***************************************************************************)
(* What SumOf computes, for every function with a finite domain.  It is a  *)
(* fold, a recursive function on the subsets of the domain that takes out  *)
(* an element it CHOOSEs, so first come the existence of such a function   *)
(* and its independence of the choice.  Induction is by the smallest       *)
(* counterexample: of a nonempty set of subsets of a finite set, one has   *)
(* no other below it.                                                      *)
(***************************************************************************)
EXTENDS Sums, FiniteSetTheorems, WellFoundedInduction, TLAPS

LEMMA MinimalSubset ==
  ASSUME NEW S, IsFiniteSet(S), NEW T \in SUBSET (SUBSET S), T # {}
  PROVE  \E t \in T : \A u \in T : u \subseteq t => u = t
<1>1. IsWellFoundedOn(StrictSubsetOrdering(S), FiniteSubsetsOf(S))
  BY FS_StrictSubsetOrderingWellFounded
<1>2. T \subseteq FiniteSubsetsOf(S)
  BY FS_FiniteSubsetsOfFinite
<1>3. PICK t \in T : \A u \in T : ~ (<<u, t>> \in StrictSubsetOrdering(S))
  BY <1>1, <1>2, WFMin
<1>4. \A u \in T : u \subseteq t => u = t
  BY <1>3 DEF StrictSubsetOrdering
<1>. QED BY <1>4

LEMMA LeastNumber ==
  ASSUME NEW T \in SUBSET Nat, T # {}
  PROVE  \E n \in T : \A k \in T : n <= k
<1>1. PICK m \in T : TRUE
  OBVIOUS
<1>. DEFINE U == {0 .. n : n \in {j \in T : j <= m}}
<1>2. IsFiniteSet(0 .. m)
  BY FS_Interval
<1>3. U \in SUBSET (SUBSET (0 .. m)) /\ 0 .. m \in U
  OBVIOUS
<1>4. PICK t \in U : \A u \in U : u \subseteq t => u = t
  <2>1. PICK P : P = 0 .. m
    OBVIOUS
  <2>2. U # {} /\ U \in SUBSET (SUBSET P) /\ IsFiniteSet(P)
    BY <1>2, <1>3, <2>1
  <2>. HIDE DEF U
  <2>. QED BY <2>2, MinimalSubset
<1>5. PICK n \in T : n <= m /\ t = 0 .. n
  BY <1>4
<1>6. ASSUME NEW k \in T, ~(n <= k) PROVE FALSE
  <2>1. k \in Nat /\ n \in Nat /\ m \in Nat /\ k < n /\ k <= m
    BY <1>5, <1>6
  <2>2. 0 .. k \in U
    BY <2>1
  <2>3. 0 .. k \subseteq t
    BY <2>1, <1>5
  <2>4. n \in t /\ n \notin 0 .. k
    BY <2>1, <1>5
  <2>. QED BY <2>2, <2>3, <2>4, <1>4
<1>. QED BY <1>6

SumOver(f, S) == MapThenSumSet(LAMBDA x : f[x], S)

(* One unfolding of the fold: a chosen element, and the sum of the rest.   *)
OneMore(f, h, s) ==
  IF s = {} THEN 0
                 ELSE f[CHOOSE x \in s : TRUE] + h[s \ {CHOOSE x \in s : TRUE}]

IsTallyOn(f, D, h) == h = [s \in D |-> OneMore(f, h, s)]

IsTally(f, S, h) == IsTallyOn(f, SUBSET S, h)

LEMMA TallyUpTo ==
  ASSUME NEW f, NEW S, IsFiniteSet(S), NEW n \in Nat,
         NEW D, D = {t \in SUBSET S : Cardinality(t) <= n}
  PROVE  \E h : IsTallyOn(f, D, h)
<1>. DEFINE Small(k) == {t \in SUBSET S : Cardinality(t) <= k}
            Fine(k) == \E h : IsTallyOn(f, Small(k), h)
            Bad == {k \in Nat : ~Fine(k)}
<1>1. Fine(0)
  <2>. DEFINE h == [s \in Small(0) |-> 0]
  <2>1. \A s \in Small(0) : s = {}
    <3>. TAKE s \in Small(0)
    <3>1. IsFiniteSet(s) /\ Cardinality(s) \in Nat /\ Cardinality(s) <= 0
      BY FS_Subset, FS_CardinalityType
    <3>. QED BY <3>1, FS_EmptySet
  <2>2. h = [s \in Small(0) |-> OneMore(f, h, s)]
    BY <2>1 DEF OneMore
  <2>. QED BY <2>2 DEF IsTallyOn
<1>2. ASSUME NEW k \in Nat, Fine(k) PROVE Fine(k + 1)
  <2>1. PICK h : h = [s \in Small(k) |-> OneMore(f, h, s)]
    BY <1>2 DEF IsTallyOn
  <2>. DEFINE g == [s \in Small(k + 1) |-> OneMore(f, h, s)]
  <2>2. ASSUME NEW s \in Small(k + 1), s # {} 
        PROVE  s \ {CHOOSE x \in s : TRUE} \in Small(k)
    <3>1. IsFiniteSet(s) /\ Cardinality(s) \in Nat /\ Cardinality(s) <= k + 1
      BY FS_Subset, FS_CardinalityType
    <3>2. (CHOOSE x \in s : TRUE) \in s
      BY <2>2
    <3>3. Cardinality(s \ {CHOOSE x \in s : TRUE}) = Cardinality(s) - 1
      BY <3>1, <3>2, FS_RemoveElement
    <3>. QED BY <3>1, <3>3
  <2>3. ASSUME NEW s \in Small(k) PROVE g[s] = h[s]
    <3>1. s \in Small(k + 1)
      <4>1. IsFiniteSet(s) /\ Cardinality(s) \in Nat
        BY FS_Subset, FS_CardinalityType
      <4>. QED BY <4>1
    <3>. QED BY <2>1, <3>1
  <2>4. ASSUME NEW s \in Small(k + 1) PROVE OneMore(f, h, s) = OneMore(f, g, s)
    <3>1. CASE s = {}
      BY <3>1 DEF OneMore
    <3>2. CASE s # {}
      <4>. HIDE DEF g, Small
      <4>. QED BY <2>2, <2>3, <3>2 DEF OneMore
    <3>. QED BY <3>1, <3>2
  <2>5. g = [s \in Small(k + 1) |-> OneMore(f, g, s)]
    BY <2>4
  <2>. HIDE DEF g
  <2>. QED BY <2>5 DEF IsTallyOn
<1>3. ASSUME Bad # {} PROVE FALSE
  <2>. HIDE DEF Fine
  <2>1. PICK k \in Bad : \A j \in Bad : k <= j
    BY <1>3, LeastNumber
  <2>2. k # 0
    BY <1>1, <2>1
  <2>3. k - 1 \in Nat /\ k - 1 \notin Bad
    BY <2>1, <2>2
  <2>4. Fine(k - 1)
    BY <2>3
  <2>5. Fine((k - 1) + 1)
    BY <1>2, <2>3, <2>4
  <2>6. (k - 1) + 1 = k
    BY <2>1
  <2>. QED BY <2>1, <2>5, <2>6
<1>4. Fine(n)
  <2>. HIDE DEF Fine
  <2>. QED BY <1>3
<1>. QED BY <1>4

LEMMA TallyExists ==
  ASSUME NEW f, NEW S, IsFiniteSet(S)
  PROVE  \E h : IsTally(f, S, h)
<1>1. PICK n \in Nat : n = Cardinality(S)
  BY FS_CardinalityType
<1>2. PICK D : D = SUBSET S
  OBVIOUS
<1>3. D = {t \in SUBSET S : Cardinality(t) <= n}
  BY <1>1, <1>2, FS_Subset
<1>4. \E h : IsTallyOn(f, D, h)
  BY <1>3, TallyUpTo
<1>. QED BY <1>2, <1>4 DEF IsTally

LEMMA TalliesAgree ==
  ASSUME NEW f, NEW S, IsFiniteSet(S), NEW h, IsTally(f, S, h),
         NEW g, NEW T, NEW k, IsTally(g, T, k),
         NEW s \in SUBSET (S \cap T), \A x \in s : f[x] = g[x]
  PROVE  h[s] = k[s]
<1>. DEFINE Bad == {t \in SUBSET s : h[t] # k[t]}
<1>0. IsFiniteSet(s)
  BY FS_Subset
<1>1. ASSUME Bad # {} PROVE FALSE
  <2>1. PICK t \in Bad : \A u \in Bad : u \subseteq t => u = t
    <3>1. Bad \in SUBSET (SUBSET s)
      OBVIOUS
    <3>. HIDE DEF Bad
    <3>. QED BY <1>0, <1>1, <3>1, MinimalSubset
  <2>2. h[t] = OneMore(f, h, t) /\ k[t] = OneMore(g, k, t)
    <3>1. t \in SUBSET S /\ t \in SUBSET T
      OBVIOUS
    <3>2. h = [r \in SUBSET S |-> OneMore(f, h, r)] /\ k = [r \in SUBSET T |-> OneMore(g, k, r)]
      BY DEF IsTally, IsTallyOn
    <3>3. h[t] = OneMore(f, h, t)
      BY <3>1, <3>2, Zenon
    <3>4. k[t] = OneMore(g, k, t)
      BY <3>1, <3>2, Zenon
    <3>. QED BY <3>3, <3>4
  <2>3. t # {}
    BY <2>1, <2>2 DEF OneMore
  <2>. DEFINE c == CHOOSE x \in t : TRUE
  <2>4. c \in t
    BY <2>3
  <2>5. t \ {c} \notin Bad
    BY <2>1, <2>4
  <2>6. h[t \ {c}] = k[t \ {c}] /\ f[c] = g[c]
    BY <2>4, <2>5
  <2>7. OneMore(f, h, t) = OneMore(g, k, t)
    BY <2>3, <2>6 DEF OneMore
  <2>. QED BY <2>1, <2>2, <2>7
<1>. QED BY <1>1

LEMMA SumIsTally ==
  ASSUME NEW f, NEW S, IsFiniteSet(S)
  PROVE  \E h : IsTally(f, S, h) /\ SumOver(f, S) = h[S]
<1>1. PICK h : IsTally(f, S, h)
  BY TallyExists
<1>. DEFINE it == CHOOSE it : it = [s \in SUBSET S |-> OneMore(f, it, s)]
<1>2. it = [s \in SUBSET S |-> OneMore(f, it, s)]
  <2>1. h = [s \in SUBSET S |-> OneMore(f, h, s)]
    BY <1>1 DEF IsTally, IsTallyOn
  <2>. QED BY <2>1
<1>3. SumOver(f, S) = it[S]
  BY DEF SumOver, MapThenSumSet, MapThenFoldSet, OneMore
<1>. QED BY <1>2, <1>3 DEF IsTally, IsTallyOn

LEMMA SumOfNone == ASSUME NEW f PROVE SumOver(f, {}) = 0
<1>1. PICK h : IsTally(f, {}, h) /\ SumOver(f, {}) = h[{}]
  BY SumIsTally, FS_EmptySet
<1>2. h = [s \in SUBSET {} |-> OneMore(f, h, s)] /\ {} \in SUBSET {}
  BY <1>1 DEF IsTally, IsTallyOn
<1>3. h[{}] = OneMore(f, h, {})
  BY <1>2, Zenon
<1>. QED BY <1>1, <1>3 DEF OneMore

LEMMA SumUnfolds ==
  ASSUME NEW f, NEW S, IsFiniteSet(S), S # {}
  PROVE  LET c == CHOOSE x \in S : TRUE IN
         c \in S /\ SumOver(f, S) = f[c] + SumOver(f, S \ {c})
<1>. DEFINE c == CHOOSE x \in S : TRUE
<1>0. c \in S
  OBVIOUS
<1>1. PICK h : IsTally(f, S, h) /\ SumOver(f, S) = h[S]
  BY SumIsTally
<1>9. PICK R : R = S \ {c}
  OBVIOUS
<1>2. IsFiniteSet(R)
  BY <1>9, FS_RemoveElement
<1>8. PICK g : g = f
  OBVIOUS
<1>3. PICK k : IsTally(g, R, k) /\ SumOver(g, R) = k[R]
  BY <1>2, SumIsTally
<1>4. h = [s \in SUBSET S |-> OneMore(f, h, s)] /\ S \in SUBSET S
  BY <1>1 DEF IsTally, IsTallyOn
<1>5. h[S] = OneMore(f, h, S)
  BY <1>4, Zenon
<1>6. R \in SUBSET (S \cap R) /\ \A x \in R : f[x] = g[x]
  BY <1>8, <1>9
<1>7. h[R] = k[R]
  BY <1>1, <1>3, <1>6, TalliesAgree
<1>. QED BY <1>0, <1>1, <1>3, <1>5, <1>7, <1>8, <1>9 DEF OneMore

LEMMA SumSameTerms ==
  ASSUME NEW f, NEW g, NEW S, IsFiniteSet(S), \A x \in S : f[x] = g[x]
  PROVE  SumOver(f, S) = SumOver(g, S)
<1>1. PICK h : IsTally(f, S, h) /\ SumOver(f, S) = h[S]
  BY SumIsTally
<1>2. PICK k : IsTally(g, S, k) /\ SumOver(g, S) = k[S]
  BY SumIsTally
<1>3. S \in SUBSET (S \cap S)
  OBVIOUS
<1>4. h[S] = k[S]
  BY <1>1, <1>2, <1>3, TalliesAgree
<1>. QED BY <1>1, <1>2, <1>4

LEMMA SumType ==
  ASSUME NEW f, NEW S, IsFiniteSet(S), NEW V, V = Int \/ V = Nat,
         \A x \in S : f[x] \in V
  PROVE  SumOver(f, S) \in V
<1>. DEFINE Bad == {t \in SUBSET S : SumOver(f, t) \notin V}
<1>1. ASSUME Bad # {} PROVE FALSE
  <2>1. PICK t \in Bad : \A u \in Bad : u \subseteq t => u = t
    <3>1. Bad \in SUBSET (SUBSET S)
      OBVIOUS
    <3>. HIDE DEF Bad
    <3>. QED BY <1>1, <3>1, MinimalSubset
  <2>2. t # {}
    <3>1. SumOver(f, {}) \in V
      BY SumOfNone
    <3>. QED BY <2>1, <3>1
  <2>3. IsFiniteSet(t)
    BY <2>1, FS_Subset
  <2>4. PICK c \in t : SumOver(f, t) = f[c] + SumOver(f, t \ {c})
    BY <2>2, <2>3, SumUnfolds
  <2>5. t \ {c} \notin Bad
    BY <2>1, <2>4
  <2>6. SumOver(f, t \ {c}) \in V /\ f[c] \in V
    BY <2>5, <2>1
  <2>. QED BY <2>1, <2>4, <2>6
<1>. QED BY <1>1

LEMMA SumTakesOut ==
  ASSUME NEW f, NEW S, IsFiniteSet(S), \A x \in S : f[x] \in Int, NEW x \in S
  PROVE  SumOver(f, S) = f[x] + SumOver(f, S \ {x})
<1>. DEFINE Good(t) == \A y \in t : SumOver(f, t) = f[y] + SumOver(f, t \ {y})
            Bad == {t \in SUBSET S : ~Good(t)}
<1>1. ASSUME Bad # {} PROVE FALSE
  <2>1. PICK t \in Bad : \A u \in Bad : u \subseteq t => u = t
    <3>1. Bad \in SUBSET (SUBSET S)
      OBVIOUS
    <3>. HIDE DEF Bad
    <3>. QED BY <1>1, <3>1, MinimalSubset
  <2>2. PICK y \in t : SumOver(f, t) # f[y] + SumOver(f, t \ {y})
    BY <2>1
  <2>3. IsFiniteSet(t)
    BY <2>1, FS_Subset
  <2>4. PICK c \in t : SumOver(f, t) = f[c] + SumOver(f, t \ {c})
    BY <2>2, <2>3, SumUnfolds
  <2>5. c # y
    BY <2>2, <2>4
  <2>6. \A r \in SUBSET t : r # t => Good(r)
    BY <2>1
  <2>7. SumOver(f, t \ {c}) = f[y] + SumOver(f, (t \ {c}) \ {y})
    BY <2>5, <2>6
  <2>8. SumOver(f, t \ {y}) = f[c] + SumOver(f, (t \ {y}) \ {c})
    BY <2>5, <2>6
  <2>9. (t \ {c}) \ {y} = (t \ {y}) \ {c}
    OBVIOUS
  <2>10. SumOver(f, (t \ {c}) \ {y}) \in Int
    <3>1. IsFiniteSet((t \ {c}) \ {y})
      BY <2>3, FS_RemoveElement
    <3>2. \A z \in (t \ {c}) \ {y} : f[z] \in Int
      BY <2>1
    <3>. QED BY <3>1, <3>2, SumType
  <2>11. f[c] \in Int /\ f[y] \in Int
    BY <2>1
  <2>12. PICK r \in Int, a \in Int, b \in Int :
            /\ r = SumOver(f, (t \ {c}) \ {y}) /\ r = SumOver(f, (t \ {y}) \ {c})
            /\ a = f[c] /\ b = f[y]
    BY <2>9, <2>10, <2>11
  <2>13. SumOver(f, t) = a + (b + r) /\ f[y] + SumOver(f, t \ {y}) = b + (a + r)
    BY <2>4, <2>7, <2>8, <2>12
  <2>. QED BY <2>2, <2>13
<1>2. Good(S)
  BY <1>1
<1>. QED BY <1>2
-----------------------------------------------------------------------------
(* The laws of SumOf.                                                      *)
LEMMA SumIsOverDomain == ASSUME NEW f PROVE SumOf(f) = SumOver(f, DOMAIN f)
BY DEF SumOf, SumOver

LEMMA SumEmpty == ASSUME NEW f, DOMAIN f = {} PROVE SumOf(f) = 0
BY SumIsOverDomain, SumOfNone

LEMMA SumInInt ==
  ASSUME NEW f, IsFiniteSet(DOMAIN f), \A x \in DOMAIN f : f[x] \in Int
  PROVE  SumOf(f) \in Int
BY SumIsOverDomain, SumType

LEMMA SumInNat ==
  ASSUME NEW f, IsFiniteSet(DOMAIN f), \A x \in DOMAIN f : f[x] \in Nat
  PROVE  SumOf(f) \in Nat
BY SumIsOverDomain, SumType

LEMMA SumEqual ==
  ASSUME NEW f, NEW g, IsFiniteSet(DOMAIN f), DOMAIN g = DOMAIN f,
         \A x \in DOMAIN f : f[x] = g[x]
  PROVE  SumOf(g) = SumOf(f)
BY SumIsOverDomain, SumSameTerms

(* One term more.                                                          *)
LEMMA SumAdd ==
  ASSUME NEW f, IsFiniteSet(DOMAIN f), \A y \in DOMAIN f : f[y] \in Int,
         NEW x, x \notin DOMAIN f,
         NEW g, DOMAIN g = DOMAIN f \cup {x}, g[x] \in Int, \A y \in DOMAIN f : g[y] = f[y]
  PROVE  SumOf(g) = SumOf(f) + g[x]
<1>1. PICK D : D = DOMAIN f
  OBVIOUS
<1>2. PICK E : E = D \cup {x}
  OBVIOUS
<1>3. IsFiniteSet(E) /\ x \in E /\ E \ {x} = D
  BY <1>1, <1>2, FS_AddElement
<1>4. \A y \in E : g[y] \in Int
  BY <1>1, <1>2
<1>5. SumOver(g, E) = g[x] + SumOver(g, E \ {x})
  BY <1>3, <1>4, SumTakesOut
<1>6. SumOver(f, D) = SumOver(g, D)
  BY <1>1, SumSameTerms
<1>7. SumOf(f) \in Int
  BY SumInInt
<1>8. SumOf(f) = SumOver(f, D) /\ SumOf(g) = SumOver(g, E)
  BY <1>1, <1>2, SumIsOverDomain
<1>9. SumOver(g, E) = g[x] + SumOver(f, D)
  BY <1>3, <1>5, <1>6
<1>. QED BY <1>7, <1>8, <1>9

(* One term changed.                                                       *)
LEMMA SumUpdate ==
  ASSUME NEW f, IsFiniteSet(DOMAIN f), \A y \in DOMAIN f : f[y] \in Int,
         NEW x \in DOMAIN f,
         NEW g, DOMAIN g = DOMAIN f, g[x] \in Int, \A y \in DOMAIN f \ {x} : g[y] = f[y]
  PROVE  SumOf(g) = SumOf(f) - f[x] + g[x]
<1>1. PICK h : h = [y \in DOMAIN f \ {x} |-> f[y]]
  OBVIOUS
<1>2. IsFiniteSet(DOMAIN h) /\ (\A y \in DOMAIN h : h[y] \in Int) /\ x \notin DOMAIN h
  BY <1>1, FS_RemoveElement
<1>3. SumOf(f) = SumOf(h) + f[x]
  <2>1. DOMAIN f = DOMAIN h \cup {x} /\ f[x] \in Int /\ \A y \in DOMAIN h : f[y] = h[y]
    BY <1>1
  <2>. QED BY <1>2, <2>1, SumAdd
<1>4. SumOf(g) = SumOf(h) + g[x]
  <2>1. DOMAIN g = DOMAIN h \cup {x} /\ \A y \in DOMAIN h : g[y] = h[y]
    BY <1>1
  <2>. QED BY <1>2, <2>1, SumAdd
<1>5. SumOf(h) \in Int
  BY <1>2, SumInInt
<1>. QED BY <1>3, <1>4, <1>5

(* Term by term, over the subsets of the domain.                           *)
LEMMA SumOfSums ==
  ASSUME NEW f, NEW g, NEW h, NEW S, IsFiniteSet(S),
         \A x \in S : f[x] \in Int /\ g[x] \in Int /\ h[x] = f[x] + g[x]
  PROVE  SumOver(h, S) = SumOver(f, S) + SumOver(g, S)
<1>. DEFINE Bad == {t \in SUBSET S : SumOver(h, t) # SumOver(f, t) + SumOver(g, t)}
<1>1. ASSUME Bad # {} PROVE FALSE
  <2>1. PICK t \in Bad : \A u \in Bad : u \subseteq t => u = t
    <3>1. Bad \in SUBSET (SUBSET S)
      OBVIOUS
    <3>. HIDE DEF Bad
    <3>. QED BY <1>1, <3>1, MinimalSubset
  <2>2. IsFiniteSet(t) /\ t \subseteq S
    BY <2>1, FS_Subset
  <2>3. t # {}
    <3>1. SumOver(h, {}) = 0
      BY SumOfNone
    <3>2. SumOver(f, {}) = 0
      BY SumOfNone
    <3>3. SumOver(g, {}) = 0
      BY SumOfNone
    <3>4. SumOver(h, {}) = SumOver(f, {}) + SumOver(g, {})
      BY <3>1, <3>2, <3>3
    <3>. QED BY <2>1, <3>4
  <2>4. PICK x \in t : TRUE
    BY <2>3
  <2>5. PICK r : r = t \ {x}
    OBVIOUS
  <2>6. IsFiniteSet(r) /\ r \subseteq S /\ r # t /\ r \subseteq t
    BY <2>2, <2>4, <2>5, FS_RemoveElement
  <2>7. SumOver(h, r) = SumOver(f, r) + SumOver(g, r)
    BY <2>1, <2>6
  <2>8. SumOver(f, t) = f[x] + SumOver(f, r)
    <3>1. \A y \in t : f[y] \in Int
      BY <2>2
    <3>. QED BY <2>2, <2>5, <3>1, SumTakesOut
  <2>9. SumOver(g, t) = g[x] + SumOver(g, r)
    <3>1. \A y \in t : g[y] \in Int
      BY <2>2
    <3>. QED BY <2>2, <2>5, <3>1, SumTakesOut
  <2>10. SumOver(h, t) = h[x] + SumOver(h, r)
    <3>1. \A y \in t : h[y] \in Int
      BY <2>2
    <3>. QED BY <2>2, <2>5, <3>1, SumTakesOut
  <2>11. SumOver(f, r) \in Int
    <3>1. \A y \in r : f[y] \in Int
      BY <2>6
    <3>. QED BY <2>6, <3>1, SumType
  <2>12. SumOver(g, r) \in Int
    <3>1. \A y \in r : g[y] \in Int
      BY <2>6
    <3>. QED BY <2>6, <3>1, SumType
  <2>13. f[x] \in Int /\ g[x] \in Int /\ h[x] = f[x] + g[x]
    BY <2>2
  <2>14. SumOver(h, t) = SumOver(f, t) + SumOver(g, t)
    BY <2>7, <2>8, <2>9, <2>10, <2>11, <2>12, <2>13
  <2>. QED BY <2>1, <2>14
<1>. QED BY <1>1

LEMMA SumTermwise ==
  ASSUME NEW f, NEW g, NEW h, IsFiniteSet(DOMAIN f), DOMAIN g = DOMAIN f, DOMAIN h = DOMAIN f,
         \A x \in DOMAIN f : f[x] \in Int /\ g[x] \in Int /\ h[x] = f[x] + g[x]
  PROVE  SumOf(h) = SumOf(f) + SumOf(g)
BY SumIsOverDomain, SumOfSums

(* A factor common to all terms.                                           *)
LEMMA SumScaled ==
  ASSUME NEW c \in Int, NEW f, IsFiniteSet(DOMAIN f), \A x \in DOMAIN f : f[x] \in Int,
         NEW g, DOMAIN g = DOMAIN f, \A x \in DOMAIN f : g[x] = c * f[x]
  PROVE  SumOf(g) = c * SumOf(f)
<1>. DEFINE S == DOMAIN f
            Bad == {t \in SUBSET S : SumOver(g, t) # c * SumOver(f, t)}
<1>0. \A x \in S : g[x] \in Int
  OBVIOUS
<1>1. ASSUME Bad # {} PROVE FALSE
  <2>1. PICK t \in Bad : \A u \in Bad : u \subseteq t => u = t
    <3>1. Bad \in SUBSET (SUBSET S)
      OBVIOUS
    <3>. HIDE DEF Bad
    <3>. QED BY <1>1, <3>1, MinimalSubset
  <2>2. IsFiniteSet(t) /\ t \subseteq S
    BY <2>1, FS_Subset
  <2>3. t # {}
    <3>1. SumOver(g, {}) = 0
      BY SumOfNone
    <3>2. SumOver(f, {}) = 0
      BY SumOfNone
    <3>3. c * 0 = 0
      OBVIOUS
    <3>. QED BY <2>1, <3>1, <3>2, <3>3
  <2>4. PICK x \in t : TRUE
    BY <2>3
  <2>5. PICK r : r = t \ {x}
    OBVIOUS
  <2>6. IsFiniteSet(r) /\ r \subseteq S /\ r # t /\ r \subseteq t
    BY <2>2, <2>4, <2>5, FS_RemoveElement
  <2>7. SumOver(g, r) = c * SumOver(f, r)
    BY <2>1, <2>6
  <2>8. SumOver(f, t) = f[x] + SumOver(f, r)
    <3>1. \A y \in t : f[y] \in Int
      BY <2>2
    <3>. QED BY <2>2, <2>5, <3>1, SumTakesOut
  <2>9. SumOver(g, t) = g[x] + SumOver(g, r)
    <3>1. \A y \in t : g[y] \in Int
      BY <1>0, <2>2
    <3>. QED BY <2>2, <2>5, <3>1, SumTakesOut
  <2>10. SumOver(f, r) \in Int
    <3>1. \A y \in r : f[y] \in Int
      BY <2>6
    <3>. QED BY <2>6, <3>1, SumType
  <2>11. PICK a \in Int, b \in Int : a = f[x] /\ b = SumOver(f, r)
    BY <2>2, <2>10
  <2>12. g[x] = c * a
    BY <2>2, <2>11
  <2>13. c * (a + b) = c * a + c * b
    OBVIOUS
  <2>14. SumOver(g, t) = c * SumOver(f, t)
    BY <2>7, <2>8, <2>9, <2>11, <2>12, <2>13
  <2>. QED BY <2>1, <2>14
<1>2. SumOver(g, S) = c * SumOver(f, S)
  BY <1>1
<1>. QED BY <1>2, SumIsOverDomain

(* Of two sums of naturals, the one with smaller terms is the smaller.     *)
LEMMA SumMonotone ==
  ASSUME NEW f, NEW g, IsFiniteSet(DOMAIN f), DOMAIN g = DOMAIN f,
         \A x \in DOMAIN f : f[x] \in Int /\ g[x] \in Int /\ g[x] <= f[x]
  PROVE  SumOf(g) <= SumOf(f)
<1>1. PICK h : h = [x \in DOMAIN f |-> f[x] - g[x]]
  OBVIOUS
<1>2. DOMAIN h = DOMAIN f /\ \A x \in DOMAIN f : h[x] \in Nat /\ h[x] \in Int /\ f[x] = g[x] + h[x]
  BY <1>1
<1>3. SumOf(f) = SumOf(g) + SumOf(h)
  BY <1>2, SumTermwise
<1>4. SumOf(h) \in Nat
  BY <1>2, SumInNat
<1>5. SumOf(g) \in Int
  BY SumInInt
<1>. QED BY <1>3, <1>4, <1>5

(* A sum of naturals is no less than each of its terms, ...                *)
LEMMA SumAtLeastTerm ==
  ASSUME NEW f, IsFiniteSet(DOMAIN f), \A x \in DOMAIN f : f[x] \in Nat, NEW x \in DOMAIN f
  PROVE  f[x] <= SumOf(f)
<1>1. PICK h : h = [y \in DOMAIN f \ {x} |-> f[y]]
  OBVIOUS
<1>2. IsFiniteSet(DOMAIN h) /\ (\A y \in DOMAIN h : h[y] \in Nat /\ h[y] \in Int) /\ x \notin DOMAIN h
  BY <1>1, FS_RemoveElement
<1>3. DOMAIN f = DOMAIN h \cup {x} /\ f[x] \in Int /\ \A y \in DOMAIN h : f[y] = h[y]
  BY <1>1
<1>4. SumOf(f) = SumOf(h) + f[x]
  BY <1>2, <1>3, SumAdd
<1>5. SumOf(h) \in Nat
  BY <1>2, SumInNat
<1>. QED BY <1>4, <1>5

(* A sum in two parts.                                                     *)
LEMMA SumInParts ==
  ASSUME NEW f, NEW S, IsFiniteSet(S), \A x \in S : f[x] \in Int, NEW A \in SUBSET S
  PROVE  SumOver(f, S) = SumOver(f, A) + SumOver(f, S \ A)
<1>. DEFINE Bad == {t \in SUBSET S : SumOver(f, S) # SumOver(f, t) + SumOver(f, S \ t)}
<1>1. ASSUME Bad # {} PROVE FALSE
  <2>1. PICK t \in Bad : \A u \in Bad : u \subseteq t => u = t
    <3>1. Bad \in SUBSET (SUBSET S)
      OBVIOUS
    <3>. HIDE DEF Bad
    <3>. QED BY <1>1, <3>1, MinimalSubset
  <2>2. IsFiniteSet(t) /\ t \subseteq S
    BY <2>1, FS_Subset
  <2>3. t # {}
    <3>1. SumOver(f, {}) = 0 /\ S \ {} = S
      BY SumOfNone
    <3>2. SumOver(f, S) \in Int
      BY SumType
    <3>3. SumOver(f, S) = SumOver(f, {}) + SumOver(f, S \ {})
      BY <3>1, <3>2
    <3>. QED BY <2>1, <3>3
  <2>4. PICK x \in t : TRUE
    BY <2>3
  <2>5. PICK r : r = t \ {x}
    OBVIOUS
  <2>6. PICK u : u = S \ r
    OBVIOUS
  <2>7. IsFiniteSet(r) /\ r \subseteq S /\ r # t /\ r \subseteq t
    BY <2>2, <2>4, <2>5, FS_RemoveElement
  <2>8. IsFiniteSet(u) /\ u \subseteq S /\ x \in u /\ u \ {x} = S \ t
    <3>1. IsFiniteSet(u)
      BY <2>6, FS_Subset
    <3>. QED BY <2>2, <2>4, <2>5, <2>6, <3>1
  <2>9. SumOver(f, S) = SumOver(f, r) + SumOver(f, u)
    BY <2>1, <2>6, <2>7
  <2>10. SumOver(f, t) = f[x] + SumOver(f, r)
    <3>1. \A y \in t : f[y] \in Int
      BY <2>2
    <3>. QED BY <2>2, <2>5, <3>1, SumTakesOut
  <2>11. SumOver(f, u) = f[x] + SumOver(f, S \ t)
    <3>1. \A y \in u : f[y] \in Int
      BY <2>8
    <3>2. SumOver(f, u) = f[x] + SumOver(f, u \ {x})
      BY <2>8, <3>1, SumTakesOut
    <3>. QED BY <2>8, <3>2
  <2>12. SumOver(f, r) \in Int
    <3>1. \A y \in r : f[y] \in Int
      BY <2>7
    <3>. QED BY <2>7, <3>1, SumType
  <2>13. SumOver(f, S \ t) \in Int
    <3>1. IsFiniteSet(S \ t) /\ \A y \in S \ t : f[y] \in Int
      BY FS_Subset
    <3>. QED BY <3>1, SumType
  <2>14. f[x] \in Int
    BY <2>2
  <2>15. SumOver(f, S) = SumOver(f, t) + SumOver(f, S \ t)
    BY <2>9, <2>10, <2>11, <2>12, <2>13, <2>14
  <2>. QED BY <2>1, <2>15
<1>. QED BY <1>1

(* ... and than the sum over a part of its domain.                         *)
LEMMA SumOfPart ==
  ASSUME NEW f, IsFiniteSet(DOMAIN f), \A x \in DOMAIN f : f[x] \in Nat,
         NEW g, DOMAIN g \subseteq DOMAIN f, \A x \in DOMAIN g : g[x] = f[x]
  PROVE  SumOf(g) <= SumOf(f)
<1>1. PICK D : D = DOMAIN f
  OBVIOUS
<1>2. PICK A : A = DOMAIN g
  OBVIOUS
<1>3. IsFiniteSet(A) /\ IsFiniteSet(D \ A) /\ IsFiniteSet(D) /\ A \in SUBSET D
  BY <1>1, <1>2, FS_Subset
<1>4. SumOf(g) = SumOver(f, A)
  <2>1. SumOver(g, A) = SumOver(f, A)
    BY <1>2, <1>3, SumSameTerms
  <2>. QED BY <1>2, <2>1, SumIsOverDomain
<1>5. SumOver(f, D) = SumOver(f, A) + SumOver(f, D \ A)
  <2>1. \A x \in D : f[x] \in Int
    BY <1>1
  <2>. QED BY <1>3, <2>1, SumInParts
<1>6. SumOver(f, A) \in Nat
  BY <1>1, <1>3, SumType
<1>7. SumOver(f, D \ A) \in Nat
  BY <1>1, <1>3, SumType
<1>8. SumOf(f) = SumOver(f, D)
  BY <1>1, SumIsOverDomain
<1>. QED BY <1>4, <1>5, <1>6, <1>7, <1>8

(* Sorted by owner, and summed over the owners.                            *)
LEMMA SumByOwner ==
  ASSUME NEW f, IsFiniteSet(DOMAIN f), \A x \in DOMAIN f : f[x] \in Int,
         NEW W, IsFiniteSet(W), NEW owner, \A x \in DOMAIN f : owner[x] \in W,
         NEW total, DOMAIN total = W,
         \A w \in W : total[w] = SumOver(f, {x \in DOMAIN f : owner[x] = w})
  PROVE  SumOf(total) = SumOf(f)
<1>. DEFINE Of(V) == {x \in DOMAIN f : owner[x] \in V}
            Bad == {V \in SUBSET W : SumOver(total, V) # SumOver(f, Of(V))}
<1>0. \A w \in W : total[w] \in Int
  <2>. TAKE w \in W
  <2>1. PICK A : A = {x \in DOMAIN f : owner[x] = w}
    OBVIOUS
  <2>2. IsFiniteSet(A) /\ \A x \in A : f[x] \in Int
    BY <2>1, FS_Subset
  <2>3. SumOver(f, A) \in Int
    BY <2>2, SumType
  <2>. QED BY <2>1, <2>3
<1>1. ASSUME Bad # {} PROVE FALSE
  <2>1. PICK V \in Bad : \A U \in Bad : U \subseteq V => U = V
    <3>1. Bad \in SUBSET (SUBSET W)
      OBVIOUS
    <3>. HIDE DEF Bad
    <3>. QED BY <1>1, <3>1, MinimalSubset
  <2>2. IsFiniteSet(V) /\ V \subseteq W
    BY <2>1, FS_Subset
  <2>3. V # {}
    <3>1. SumOver(f, {}) = 0
      BY SumOfNone
    <3>2. SumOver(total, {}) = 0 /\ Of({}) = {}
      BY SumOfNone
    <3>. QED BY <2>1, <3>1, <3>2
  <2>4. PICK w \in V : TRUE
    BY <2>3
  <2>5. PICK U : U = V \ {w}
    OBVIOUS
  <2>6. SumOver(total, U) = SumOver(f, Of(U))
    BY <2>1, <2>4, <2>5
  <2>7. SumOver(total, V) = total[w] + SumOver(total, U)
    <3>1. \A y \in V : total[y] \in Int
      BY <1>0, <2>2
    <3>. QED BY <2>2, <2>5, <3>1, SumTakesOut
  <2>8. PICK S : S = Of(V)
    OBVIOUS
  <2>9. PICK A : A = {x \in DOMAIN f : owner[x] = w}
    OBVIOUS
  <2>10. IsFiniteSet(S) /\ A \in SUBSET S /\ S \ A = Of(U) /\ \A x \in S : f[x] \in Int
    <3>1. IsFiniteSet(S)
      BY <2>8, FS_Subset
    <3>. QED BY <2>2, <2>4, <2>5, <2>8, <2>9, <3>1
  <2>11. SumOver(f, S) = SumOver(f, A) + SumOver(f, S \ A)
    BY <2>10, SumInParts
  <2>12. total[w] = SumOver(f, A)
    BY <2>2, <2>9
  <2>. HIDE DEF Of
  <2>13. SumOver(f, Of(V)) = SumOver(total, V)
    BY <2>6, <2>7, <2>8, <2>10, <2>11, <2>12
  <2>. QED BY <2>1, <2>13
<1>2. SumOver(total, W) = SumOver(f, Of(W))
  BY <1>1
<1>3. Of(W) = DOMAIN f
  OBVIOUS
<1>. QED BY <1>2, <1>3, SumIsOverDomain
=============================================================================
