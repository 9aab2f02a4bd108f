---------------------------- MODULE SumTheorems -----------------------------
(***************************************************************************)
(* Facts about the sum of a function's values over a finite set, as the    *)
(* folds of the community modules compute it: one element chosen after     *)
(* the other.  The library's induction theorems take an operator, so each  *)
(* induction here looks at a smallest counterexample instead.              *)
(***************************************************************************)
EXTENDS Integers, FiniteSets, FiniteSetTheorems, WellFoundedInduction, TLAPS

Pick(s) == CHOOSE x \in s : TRUE

(* One step of the fold, from the sums of the smaller sets in it.          *)
SumStep(f, it, s) == IF s = {} THEN 0 ELSE f[Pick(s)] + it[s \ {Pick(s)}]

IsSum(f, it, S) == it = [s \in SUBSET S |-> SumStep(f, it, s)]

SumOf(f, S) == (CHOOSE it : IsSum(f, it, S))[S]

-----------------------------------------------------------------------------
(* A set of natural numbers that is not empty has a least element.         *)
LEMMA LeastNumber ==
    ASSUME NEW T \in SUBSET Nat, T # {}
    PROVE  \E n \in T : \A m \in T : n <= m
<1> DEFINE Less == {ss \in Nat \X Nat : ss[1] < ss[2]}
<1>1. IsWellFoundedOn(Less, Nat)
  BY NatLessThanWellFounded DEF OpToRel
<1>2. \A m, n \in Nat : <<m, n>> \in Less <=> m < n
  OBVIOUS
<1> HIDE DEF Less
<1>3. PICK n \in T : \A m \in T : ~ (<<m, n>> \in Less)
  BY <1>1, WFMin
<1>4. ASSUME NEW m \in T PROVE n <= m
  <2>1. m \in Nat /\ n \in Nat /\ ~ (<<m, n>> \in Less)
    BY <1>3
  <2>2. ~ (m < n)
    BY <1>2, <2>1
  <2>3. QED  BY <2>1, <2>2
<1>5. QED  BY <1>4

LEMMA PickIsElement == \A s : s # {} => Pick(s) \in s
BY DEF Pick

(* Removing an element leaves one element less.                            *)
LEMMA SmallerSet ==
    ASSUME NEW S, IsFiniteSet(S), NEW s \in SUBSET S, NEW x \in s
    PROVE  /\ s \ {x} \in SUBSET S /\ IsFiniteSet(s)
           /\ Cardinality(s) \in Nat /\ Cardinality(s \ {x}) \in Nat
           /\ Cardinality(s \ {x}) = Cardinality(s) - 1
<1>1. IsFiniteSet(s)
  BY FS_Subset
<1>2. IsFiniteSet(s \ {x}) /\ Cardinality(s \ {x}) = Cardinality(s) - 1
  BY <1>1, FS_RemoveElement
<1>3. QED  BY <1>1, <1>2, FS_CardinalityType

(* Among the subsets of a finite set that are bad there is a smallest.     *)
LEMMA SmallestSet ==
    ASSUME NEW S, IsFiniteSet(S), NEW Bad \in SUBSET SUBSET S, Bad # {}
    PROVE  \E s \in Bad : \A x \in s : s \ {x} \notin Bad
<1> DEFINE Sizes == {Cardinality(s) : s \in Bad}
<1>1. Sizes \subseteq Nat
  BY FS_Subset, FS_CardinalityType
<1>2. PICK n \in Sizes : \A m \in Sizes : n <= m
  <2>1. Sizes # {}
    OBVIOUS
  <2> HIDE DEF Sizes
  <2>2. QED  BY <1>1, <2>1, LeastNumber
<1>3. PICK s \in Bad : Cardinality(s) = n
  OBVIOUS
<1>4. ASSUME NEW x \in s, s \ {x} \in Bad PROVE FALSE
  <2>1. n <= Cardinality(s \ {x})
    BY <1>2, <1>4
  <2>2. Cardinality(s) \in Nat /\ Cardinality(s \ {x}) = Cardinality(s) - 1
    BY SmallerSet
  <2>3. QED  BY <2>1, <2>2, <1>3
<1>5. QED  BY <1>4

-----------------------------------------------------------------------------
(* The fold is defined: there are sums for all subsets of a finite set.    *)
LEMMA SumsExist ==
    ASSUME NEW S, IsFiniteSet(S), NEW f, \A x \in S : f[x] \in Int
    PROVE  \E it \in [SUBSET S -> Int] : IsSum(f, it, S)
<1> DEFINE UpTo(n) == {s \in SUBSET S : Cardinality(s) <= n}
           Good(n) == \E it \in [UpTo(n) -> Int] : \A s \in UpTo(n) : it[s] = SumStep(f, it, s)
           Bad == {n \in Nat : ~ Good(n)}
<1>1. \A s \in SUBSET S : IsFiniteSet(s) /\ Cardinality(s) \in Nat
  BY FS_Subset, FS_CardinalityType
<1>2. ASSUME NEW n \in Nat, Good(n) PROVE Good(n + 1)
  <2>1. PICK it \in [UpTo(n) -> Int] : \A s \in UpTo(n) : it[s] = SumStep(f, it, s)
    BY <1>2
  <2> DEFINE next == [s \in UpTo(n + 1) |-> SumStep(f, it, s)]
  <2>2. ASSUME NEW s \in UpTo(n + 1), s # {}
        PROVE  Pick(s) \in S /\ s \ {Pick(s)} \in UpTo(n)
    <3>1. Pick(s) \in s
      BY <2>2, PickIsElement
    <3>2. QED  BY <3>1, SmallerSet
  <2>3. next \in [UpTo(n + 1) -> Int]
    <3> SUFFICES ASSUME NEW s \in UpTo(n + 1) PROVE SumStep(f, it, s) \in Int
      OBVIOUS
    <3>1. CASE s = {}
      BY <3>1 DEF SumStep
    <3>2. CASE s # {}
      <4>1. f[Pick(s)] \in Int /\ it[s \ {Pick(s)}] \in Int
        BY <2>2, <3>2
      <4>2. QED  BY <4>1 DEF SumStep
    <3>3. QED  BY <3>1, <3>2
  <2>4. \A s \in UpTo(n) : s \in UpTo(n + 1) /\ next[s] = it[s]
    <3> SUFFICES ASSUME NEW s \in UpTo(n) PROVE s \in UpTo(n + 1) /\ next[s] = it[s]
      OBVIOUS
    <3>1. s \in UpTo(n + 1)
      BY <1>1
    <3>2. QED  BY <3>1, <2>1
  <2>5. ASSUME NEW s \in UpTo(n + 1) PROVE next[s] = SumStep(f, next, s)
    <3>1. next[s] = SumStep(f, it, s)
      OBVIOUS
    <3>2. CASE s = {}
      BY <3>1, <3>2 DEF SumStep
    <3>3. CASE s # {}
      <4>1. next[s \ {Pick(s)}] = it[s \ {Pick(s)}]
        BY <2>2, <2>4, <3>3
      <4>2. QED  BY <3>1, <4>1, <3>3 DEF SumStep
    <3>4. QED  BY <3>2, <3>3
  <2> HIDE DEF next
  <2>6. QED  BY <2>3, <2>5
<1>3. Good(0)
  <2> DEFINE it == [s \in UpTo(0) |-> 0]
  <2>1. \A s \in UpTo(0) : s = {}
    <3> SUFFICES ASSUME NEW s \in UpTo(0) PROVE s = {}
      OBVIOUS
    <3>1. IsFiniteSet(s) /\ Cardinality(s) = 0
      BY <1>1
    <3>2. QED  BY <3>1, FS_EmptySet
  <2>2. it \in [UpTo(0) -> Int] /\ \A s \in UpTo(0) : it[s] = SumStep(f, it, s)
    BY <2>1 DEF SumStep
  <2> HIDE DEF it
  <2>3. QED  BY <2>2
<1>4. Bad = {}
  <2>1. SUFFICES ASSUME Bad # {} PROVE FALSE
    OBVIOUS
  <2>2. PICK n \in Bad : \A m \in Bad : n <= m
    BY <2>1, LeastNumber
  <2>3. n \in Nat /\ ~ Good(n) /\ n # 0
    BY <1>3
  <2> HIDE DEF Good
  <2>4. n - 1 \in Nat /\ n - 1 \notin Bad
    BY <2>2, <2>3
  <2>5. Good(n - 1)
    BY <2>4
  <2>6. Good((n - 1) + 1)
    BY <1>2, <2>4, <2>5
  <2>7. (n - 1) + 1 = n
    BY <2>3
  <2>8. QED  BY <2>3, <2>6, <2>7
<1>5. Cardinality(S) \in Nat /\ Good(Cardinality(S))
  <2>1. Cardinality(S) \in Nat
    BY FS_CardinalityType
  <2> HIDE DEF Good
  <2>2. QED  BY <2>1, <1>4
<1>6. UpTo(Cardinality(S)) = SUBSET S
  BY FS_Subset
<1>7. PICK it \in [SUBSET S -> Int] : \A s \in SUBSET S : it[s] = SumStep(f, it, s)
  BY <1>5, <1>6
<1>8. IsSum(f, it, S)
  BY <1>7 DEF IsSum
<1>9. QED  BY <1>8

(* Sums of two functions that agree, over any two sets of subsets, agree.  *)
LEMMA SumsAgree ==
    ASSUME NEW S, IsFiniteSet(S), NEW R, NEW f, NEW g, S \subseteq R,
           \A x \in S : f[x] = g[x],
           NEW it1, NEW it2, IsSum(f, it1, R), IsSum(g, it2, S)
    PROVE  \A s \in SUBSET S : it1[s] = it2[s]
<1> DEFINE Bad == {s \in SUBSET S : it1[s] # it2[s]}
<1>1. SUFFICES ASSUME Bad # {} PROVE FALSE
  OBVIOUS
<1>2. PICK s \in Bad : \A x \in s : s \ {x} \notin Bad
  BY <1>1, SmallestSet
<1>3. it1[s] = SumStep(f, it1, s) /\ it2[s] = SumStep(g, it2, s)
  <2>1. s \in SUBSET S /\ s \in SUBSET R
    OBVIOUS
  <2>2. QED  BY <2>1 DEF IsSum
<1>4. s # {}
  BY <1>3 DEF SumStep
<1>5. Pick(s) \in s /\ s \ {Pick(s)} \in SUBSET S
  BY <1>4, PickIsElement
<1>6. it1[s \ {Pick(s)}] = it2[s \ {Pick(s)}] /\ f[Pick(s)] = g[Pick(s)]
  BY <1>2, <1>5
<1>7. QED  BY <1>3, <1>4, <1>6 DEF SumStep

(* What the fold computes is a sum, for each function on a finite set.     *)
LEMMA SumOfIsSum ==
    ASSUME NEW S, IsFiniteSet(S), NEW f, \A x \in S : f[x] \in Int
    PROVE  \E it \in [SUBSET S -> Int] : IsSum(f, it, S) /\ SumOf(f, S) = it[S]
<1> DEFINE it == CHOOSE it : IsSum(f, it, S)
<1>1. PICK other \in [SUBSET S -> Int] : IsSum(f, other, S)
  BY SumsExist
<1>2. IsSum(f, it, S)
  BY <1>1
<1>3. SumOf(f, S) = it[S]
  BY DEF SumOf
<1> HIDE DEF it
<1>4. \A s \in SUBSET S : it[s] = other[s]
  BY <1>1, <1>2, SumsAgree
<1>5. it \in [SUBSET S -> Int]
  <2>1. DOMAIN it = SUBSET S /\ it = [s \in SUBSET S |-> it[s]]
    BY <1>2 DEF IsSum
  <2>2. QED  BY <2>1, <1>4
<1>6. QED  BY <1>2, <1>3, <1>5

-----------------------------------------------------------------------------
(* The sum over no element.                                                *)
THEOREM SumEmpty ==
    ASSUME NEW f
    PROVE  SumOf(f, {}) = 0
<1>1. PICK it : IsSum(f, it, {}) /\ SumOf(f, {}) = it[{}]
  BY SumOfIsSum, FS_EmptySet
<1>2. QED  BY <1>1 DEF IsSum, SumStep

(* A sum of integers is an integer.                                        *)
THEOREM SumType ==
    ASSUME NEW S, IsFiniteSet(S), NEW f, \A x \in S : f[x] \in Int
    PROVE  SumOf(f, S) \in Int
<1>1. PICK it \in [SUBSET S -> Int] : IsSum(f, it, S) /\ SumOf(f, S) = it[S]
  BY SumOfIsSum
<1>2. S \in SUBSET S
  OBVIOUS
<1>3. QED  BY <1>1, <1>2

(* The sum looks at the function's values on the set only.                 *)
THEOREM SumSame ==
    ASSUME NEW S, IsFiniteSet(S), NEW f, NEW g, \A x \in S : f[x] \in Int /\ f[x] = g[x]
    PROVE  SumOf(f, S) = SumOf(g, S)
<1>1. PICK it1 : IsSum(f, it1, S) /\ SumOf(f, S) = it1[S]
  BY SumOfIsSum
<1>2. PICK it2 : IsSum(g, it2, S) /\ SumOf(g, S) = it2[S]
  BY SumOfIsSum
<1>3. \A s \in SUBSET S : it1[s] = it2[s]
  BY <1>1, <1>2, SumsAgree
<1>4. QED  BY <1>1, <1>2, <1>3

(* Any element may be counted first: the order of the fold is immaterial.  *)
THEOREM SumRemove ==
    ASSUME NEW S, IsFiniteSet(S), NEW f, \A x \in S : f[x] \in Int, NEW x \in S
    PROVE  SumOf(f, S) = f[x] + SumOf(f, S \ {x})
<1>1. PICK it \in [SUBSET S -> Int] : IsSum(f, it, S) /\ SumOf(f, S) = it[S]
  BY SumOfIsSum
<1> DEFINE Bad == {s \in SUBSET S : \E y \in s : it[s] # f[y] + it[s \ {y}]}
<1>2. Bad = {}
  <2>1. SUFFICES ASSUME Bad # {} PROVE FALSE
    OBVIOUS
  <2>2. PICK s \in Bad : \A y \in s : s \ {y} \notin Bad
    BY <2>1, SmallestSet
  <2>3. PICK y \in s : it[s] # f[y] + it[s \ {y}]
    OBVIOUS
  <2> DEFINE p == Pick(s)
  <2>4. p \in s
    BY <2>3, PickIsElement
  <2>5. it[s] = f[p] + it[s \ {p}]
    <3>1. it[s] = SumStep(f, it, s)
      BY <1>1 DEF IsSum
    <3>2. QED  BY <3>1, <2>4 DEF SumStep
  <2> HIDE DEF p
  <2>6. p # y
    BY <2>3, <2>5
  <2>7. it[s \ {p}] = f[y] + it[(s \ {p}) \ {y}]
    BY <2>2, <2>4, <2>6
  <2>8. it[s \ {y}] = f[p] + it[(s \ {y}) \ {p}]
    BY <2>2, <2>4, <2>6
  <2>9. (s \ {p}) \ {y} = (s \ {y}) \ {p}
    OBVIOUS
  <2> DEFINE rest == it[(s \ {p}) \ {y}]
  <2>10. f[p] \in Int /\ f[y] \in Int /\ rest \in Int
    BY <2>4
  <2>11. it[s] = f[p] + (f[y] + rest) /\ it[s \ {y}] = f[p] + rest
    BY <2>5, <2>7, <2>8, <2>9
  <2> HIDE DEF rest
  <2>12. f[p] + (f[y] + rest) = f[y] + (f[p] + rest)
    BY <2>10
  <2>13. QED  BY <2>3, <2>11, <2>12
<1>3. it[S] = f[x] + it[S \ {x}]
  BY <1>2
<1>4. SumOf(f, S \ {x}) = it[S \ {x}]
  <2>1. IsFiniteSet(S \ {x})
    BY FS_RemoveElement
  <2>2. PICK other : IsSum(f, other, S \ {x}) /\ SumOf(f, S \ {x}) = other[S \ {x}]
    BY <2>1, SumOfIsSum
  <2>3. \A s \in SUBSET (S \ {x}) : it[s] = other[s]
    BY <1>1, <2>1, <2>2, SumsAgree
  <2>4. QED  BY <2>2, <2>3
<1>5. QED  BY <1>1, <1>3, <1>4

(* Adding an element adds its value.                                       *)
THEOREM SumAdd ==
    ASSUME NEW S, IsFiniteSet(S), NEW x, x \notin S,
           NEW f, \A y \in S \cup {x} : f[y] \in Int
    PROVE  SumOf(f, S \cup {x}) = SumOf(f, S) + f[x]
<1>1. IsFiniteSet(S \cup {x})
  BY FS_AddElement
<1>2. SumOf(f, S \cup {x}) = f[x] + SumOf(f, (S \cup {x}) \ {x})
  BY <1>1, SumRemove
<1>3. (S \cup {x}) \ {x} = S
  OBVIOUS
<1>4. SumOf(f, S) \in Int
  BY SumType
<1>5. f[x] \in Int
  OBVIOUS
<1>6. f[x] + SumOf(f, S) = SumOf(f, S) + f[x]
  BY <1>4, <1>5
<1>7. QED  BY <1>2, <1>3, <1>6

(* A sum of numbers that are not negative is not negative.                 *)
THEOREM SumNat ==
    ASSUME NEW S, IsFiniteSet(S), NEW f, \A x \in S : f[x] \in Nat
    PROVE  SumOf(f, S) \in Nat
<1>1. PICK it \in [SUBSET S -> Int] : IsSum(f, it, S) /\ SumOf(f, S) = it[S]
  <2>1. \A x \in S : f[x] \in Int
    OBVIOUS
  <2>2. QED  BY <2>1, SumOfIsSum
<1> DEFINE Bad == {s \in SUBSET S : it[s] \notin Nat}
<1>2. SUFFICES ASSUME Bad # {} PROVE FALSE
  BY <1>1
<1>3. PICK s \in Bad : \A x \in s : s \ {x} \notin Bad
  BY <1>2, SmallestSet
<1>4. it[s] = SumStep(f, it, s)
  BY <1>1 DEF IsSum
<1>5. s # {}
  BY <1>4 DEF SumStep
<1>6. Pick(s) \in s
  BY <1>5, PickIsElement
<1>7. it[s \ {Pick(s)}] \in Nat /\ f[Pick(s)] \in Nat
  BY <1>3, <1>6
<1>8. QED  BY <1>4, <1>5, <1>7 DEF SumStep

(* The same for two functions that differ at most on the element added...  *)
THEOREM SumGrows ==
    ASSUME NEW S, IsFiniteSet(S), NEW x, x \notin S, NEW f, NEW g,
           \A y \in S \cup {x} : g[y] \in Int, \A y \in S : f[y] = g[y]
    PROVE  SumOf(g, S \cup {x}) = SumOf(f, S) + g[x]
<1>1. SumOf(g, S \cup {x}) = SumOf(g, S) + g[x]
  BY SumAdd
<1>2. \A y \in S : g[y] \in Int /\ g[y] = f[y]
  OBVIOUS
<1>3. SumOf(g, S) = SumOf(f, S)
  BY <1>2, SumSame
<1>4. QED  BY <1>1, <1>3

(* ... or on the element removed.                                          *)
THEOREM SumShrinks ==
    ASSUME NEW S, IsFiniteSet(S), NEW x \in S, NEW f, NEW g,
           \A y \in S : f[y] \in Int, \A y \in S \ {x} : f[y] = g[y]
    PROVE  SumOf(g, S \ {x}) = SumOf(f, S) - f[x]
<1>1. IsFiniteSet(S \ {x})
  BY FS_RemoveElement
<1>2. \A y \in S \ {x} : f[y] \in Int /\ f[y] = g[y]
  OBVIOUS
<1>3. SumOf(f, S \ {x}) = SumOf(g, S \ {x}) /\ SumOf(f, S \ {x}) \in Int
  BY <1>1, <1>2, SumSame, SumType
<1>4. SumOf(f, S) = f[x] + SumOf(f, S \ {x}) /\ f[x] \in Int
  BY SumRemove
<1>5. QED  BY <1>3, <1>4

(* A sum is at most another one if its values are, as far as the other has *)
(* them, and not positive elsewhere.                                       *)
THEOREM SumAtMost ==
    ASSUME NEW S, NEW T, IsFiniteSet(S), IsFiniteSet(T), NEW f, NEW g,
           \A x \in S : f[x] \in Int, \A x \in T : g[x] \in Nat,
           \A x \in S \cap T : f[x] <= g[x], \A x \in S \ T : f[x] <= 0
    PROVE  SumOf(f, S) <= SumOf(g, T)
<1>0. \A s \in SUBSET S : /\ IsFiniteSet(s) /\ IsFiniteSet(s \cap T)
                          /\ SumOf(f, s) \in Int /\ SumOf(g, s \cap T) \in Nat
  <2> SUFFICES ASSUME NEW s \in SUBSET S
               PROVE  /\ IsFiniteSet(s) /\ IsFiniteSet(s \cap T)
                      /\ SumOf(f, s) \in Int /\ SumOf(g, s \cap T) \in Nat
    OBVIOUS
  <2>1. IsFiniteSet(s) /\ IsFiniteSet(s \cap T)
    BY FS_Subset
  <2>2. \A x \in s : f[x] \in Int
    OBVIOUS
  <2>3. \A x \in s \cap T : g[x] \in Nat
    OBVIOUS
  <2>4. QED  BY <2>1, <2>2, <2>3, SumType, SumNat
<1> DEFINE Bad == {s \in SUBSET S : ~ (SumOf(f, s) <= SumOf(g, s \cap T))}
<1>1. Bad = {}
  <2>1. SUFFICES ASSUME Bad # {} PROVE FALSE
    OBVIOUS
  <2>2. PICK s \in Bad : \A x \in s : s \ {x} \notin Bad
    BY <2>1, SmallestSet
  <2>3. s # {}
    <3>1. ASSUME s = {} PROVE SumOf(f, s) = 0 /\ SumOf(g, s \cap T) = 0
      <4>1. s \cap T = {}
        BY <3>1
      <4>2. QED  BY <3>1, <4>1, SumEmpty
    <3>2. QED  BY <3>1
  <2>4. PICK x \in s : TRUE
    BY <2>3
  <2> DEFINE r == s \ {x}
  <2>5. SumOf(f, r) <= SumOf(g, r \cap T) /\ r \in SUBSET S
    BY <2>2, <2>4
  <2>6. SumOf(f, s) = f[x] + SumOf(f, r)
    <3>1. IsFiniteSet(s) /\ \A y \in s : f[y] \in Int
      BY <1>0
    <3>2. QED  BY <3>1, SumRemove
  <2>7. /\ f[x] \in Int /\ SumOf(f, r) \in Int /\ SumOf(g, r \cap T) \in Nat
        /\ SumOf(g, s \cap T) \in Nat
    BY <1>0, <2>5
  <2>8. CASE x \in T
    <3>1. SumOf(g, s \cap T) = g[x] + SumOf(g, (s \cap T) \ {x})
      <4>1. IsFiniteSet(s \cap T) /\ \A y \in s \cap T : g[y] \in Int
        BY <1>0
      <4>2. QED  BY <4>1, <2>8, SumRemove
    <3>2. (s \cap T) \ {x} = r \cap T
      OBVIOUS
    <3>3. f[x] <= g[x] /\ g[x] \in Nat
      BY <2>8
    <3> HIDE DEF r, Bad
    <3>4. SumOf(g, s \cap T) = g[x] + SumOf(g, r \cap T)
      BY <3>1, <3>2
    <3>5. f[x] + SumOf(f, r) <= g[x] + SumOf(g, r \cap T)
      BY <2>5, <2>7, <3>3
    <3>6. SumOf(f, s) <= SumOf(g, s \cap T)
      BY <2>6, <3>4, <3>5
    <3>7. QED  BY <3>6 DEF Bad
  <2>9. CASE x \notin T
    <3>1. s \cap T = r \cap T
      BY <2>9
    <3>2. f[x] <= 0
      BY <2>9
    <3> HIDE DEF r, Bad
    <3>3. f[x] + SumOf(f, r) <= SumOf(g, r \cap T)
      BY <2>5, <2>7, <3>2
    <3>4. SumOf(f, s) <= SumOf(g, s \cap T)
      BY <2>6, <3>1, <3>3
    <3>5. QED  BY <3>4 DEF Bad
  <2>10. QED  BY <2>8, <2>9
<1>2. SumOf(f, S) <= SumOf(g, S \cap T)
  BY <1>1
<1> DEFINE Poor == {t \in SUBSET T : S \cap T \subseteq t /\ ~ (SumOf(g, S \cap T) <= SumOf(g, t))}
<1>3. \A t \in SUBSET T : SumOf(g, t) \in Nat /\ IsFiniteSet(t)
  <2> SUFFICES ASSUME NEW t \in SUBSET T PROVE SumOf(g, t) \in Nat /\ IsFiniteSet(t)
    OBVIOUS
  <2>1. IsFiniteSet(t)
    BY FS_Subset
  <2>2. QED  BY <2>1, SumNat
<1>4. Poor = {}
  <2>1. SUFFICES ASSUME Poor # {} PROVE FALSE
    OBVIOUS
  <2>2. PICK t \in Poor : \A x \in t : t \ {x} \notin Poor
    <3>1. Poor \in SUBSET SUBSET T
      OBVIOUS
    <3> HIDE DEF Poor
    <3>2. QED  BY <2>1, <3>1, SmallestSet
  <2>3. t # S \cap T
    <3>1. SumOf(g, S \cap T) <= SumOf(g, S \cap T)
      <4>1. SumOf(g, S \cap T) \in Nat
        BY <1>3
      <4>2. QED  BY <4>1
    <3>2. QED  BY <3>1
  <2>4. PICK x \in t : x \notin S \cap T
    BY <2>3
  <2> DEFINE r == t \ {x}
  <2>5. SumOf(g, S \cap T) <= SumOf(g, r) /\ r \in SUBSET T
    BY <2>2, <2>4
  <2>6. SumOf(g, t) = g[x] + SumOf(g, r)
    <3>1. IsFiniteSet(t) /\ \A y \in t : g[y] \in Int
      BY <1>3
    <3>2. QED  BY <3>1, SumRemove
  <2>7. g[x] \in Nat /\ SumOf(g, r) \in Nat /\ SumOf(g, S \cap T) \in Nat
    BY <1>3, <2>5
  <2> HIDE DEF r
  <2>8. SumOf(g, S \cap T) <= SumOf(g, t)
    BY <2>5, <2>6, <2>7
  <2>9. QED  BY <2>8
<1>5. SumOf(g, S \cap T) <= SumOf(g, T)
  BY <1>4
<1>6. SumOf(f, S) \in Int /\ SumOf(g, S \cap T) \in Nat /\ SumOf(g, T) \in Nat
  BY <1>0, <1>3
<1>7. QED  BY <1>2, <1>5, <1>6
=============================================================================
