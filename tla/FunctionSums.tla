---------------------------- MODULE FunctionSums ----------------------------
(* Sums of the values of a function over its finite domain: what SumFunction *)
(* of the community modules returns when one value changes, and what bounds  *)
(* it.  SumFunction is a recursive function over the subsets of the domain;  *)
(* that it exists, and what it returns, is shown by a least number of        *)
(* elements for which it would not be so.                                    *)
EXTENDS Integers, Functions, FiniteSets, FiniteSetTheorems, NaturalsInduction, WellFoundedInduction, TLAPS

\* A set of numbers that has some has a least one.
LEMMA LeastNumber ==
  ASSUME NEW T, T \subseteq Nat, T # {}
  PROVE  \E x \in T : \A y \in T : x <= y
<1> DEFINE R == {p \in Nat \X Nat : p[1] < p[2]}
<1>1. IsWellFoundedOn(R, Nat)
  BY NatLessThanWellFounded DEF OpToRel
<1>2. \A x, y \in Nat : y < x => <<y, x>> \in R
  OBVIOUS
<1> HIDE DEF R
<1>3. PICK x \in T : \A y \in T : ~ (<<y, x>> \in R)
  BY <1>1, WFMin
<1>4. ASSUME NEW y \in T PROVE x <= y
  <2>1. x \in Nat /\ y \in Nat /\ <<y, x>> \notin R
    BY <1>3
  <2>2. ~(y < x)
    BY <1>2, <2>1
  <2> QED BY <2>1, <2>2
<1> QED BY <1>4

\* The recursion of SumFunction: one element of the set, and the sum of the others.
AnyOne(s) == CHOOSE x \in s : TRUE
SumFun(f, D) == CHOOSE g : g = [s \in SUBSET D |-> IF s = {} THEN 0 ELSE f[AnyOne(s)] + g[s \ {AnyOne(s)}]]
Sums(g, f, D) ==
  \A s \in SUBSET D : g[s] = IF s = {} THEN 0 ELSE f[AnyOne(s)] + g[s \ {AnyOne(s)}]

\* What is left when one is taken from a set that is not empty has one less.
LEMMA OneLess ==
  ASSUME NEW D, IsFiniteSet(D), NEW s \in SUBSET D, s # {}
  PROVE  /\ AnyOne(s) \in s /\ s \ {AnyOne(s)} \in SUBSET D
         /\ Cardinality(s) \in Nat /\ Cardinality(s) # 0
         /\ Cardinality(s \ {AnyOne(s)}) \in Nat /\ Cardinality(s \ {AnyOne(s)}) = Cardinality(s) - 1
<1>1. AnyOne(s) \in s
  BY Zenon DEF AnyOne
<1>2. IsFiniteSet(s)
  BY FS_Subset
<1>3. Cardinality(s) \in Nat /\ Cardinality(s) # 0
  BY <1>2, FS_CardinalityType, FS_EmptySet
<1>4. IsFiniteSet(s \ {AnyOne(s)}) /\ Cardinality(s \ {AnyOne(s)}) = Cardinality(s) - 1
  BY <1>1, <1>2, FS_RemoveElement
<1>5. Cardinality(s \ {AnyOne(s)}) \in Nat
  BY <1>4, FS_CardinalityType
<1> QED BY <1>1, <1>3, <1>4, <1>5

\* As Sums, for the sets of at most n elements.
SumsTo(g, f, D, n) ==
  \A s \in SUBSET D : Cardinality(s) <= n =>
    g[s] = IF s = {} THEN 0 ELSE f[AnyOne(s)] + g[s \ {AnyOne(s)}]

\* For every number there is a function that sums the sets of no more elements.
LEMMA SumsUpTo ==
  ASSUME NEW f, NEW D, IsFiniteSet(D), NEW n \in Nat
  PROVE  \E g : SumsTo(g, f, D, n)
<1> DEFINE Is(g, k) == SumsTo(g, f, D, k)
           T == {k \in Nat : ~ \E g : Is(g, k)}
<1> SUFFICES ASSUME T # {} PROVE FALSE
  OBVIOUS
<1>1. PICK k \in T : \A j \in T : k <= j
  BY LeastNumber
<1>2. CASE k = 0
  <2>1. Is([s \in SUBSET D |-> 0], 0)
    <3>1. ASSUME NEW s \in SUBSET D, Cardinality(s) <= 0 PROVE s = {}
      <4>1. s # {} => Cardinality(s) \in Nat /\ Cardinality(s) # 0
        BY OneLess
      <4> QED BY <3>1, <4>1
    <3> QED BY <3>1 DEF SumsTo
  <2> QED BY <1>1, <1>2, <2>1
<1>3. CASE k # 0
  <2> HIDE DEF Is
  <2>1. k \in Nat /\ k - 1 \in Nat /\ ~(k <= k - 1)
    BY <1>1, <1>3
  <2>2. PICK g : Is(g, k - 1)
    BY <1>1, <2>1
  <2> USE DEF Is, SumsTo
  <2>3. PICK h : h = [s \in SUBSET D |-> IF s = {} THEN 0 ELSE f[AnyOne(s)] + g[s \ {AnyOne(s)}]]
    OBVIOUS
  <2>4. ASSUME NEW s \in SUBSET D, Cardinality(s) <= k
        PROVE  h[s] = IF s = {} THEN 0 ELSE f[AnyOne(s)] + h[s \ {AnyOne(s)}]
    <3>1. CASE s = {}
      BY <2>3, <3>1
    <3>2. CASE s # {}
      <4>1. PICK r : r = s \ {AnyOne(s)}
        OBVIOUS
      <4>2. r \in SUBSET D /\ Cardinality(r) <= k - 1
        BY <2>1, <2>4, <3>2, <4>1, OneLess
      <4>3. g[r] = IF r = {} THEN 0 ELSE f[AnyOne(r)] + g[r \ {AnyOne(r)}]
        BY <2>2, <4>2
      <4>4. h[r] = g[r]
        BY <2>3, <4>2, <4>3
      <4> QED BY <2>3, <3>2, <4>1, <4>4
    <3> QED BY <3>1, <3>2
  <2>5. Is(h, k)
    BY <2>4
  <2> QED BY <1>1, <2>5
<1> QED BY <1>2, <1>3

\* What SumFunction returns is what a function that sums gives for the whole domain.
LEMMA SumIs ==
  ASSUME NEW f, NEW D, IsFiniteSet(D), DOMAIN f = D
  PROVE  SumFunction(f) = SumFun(f, D)[D] /\ Sums(SumFun(f, D), f, D)
<1>1. SumFunction(f) = SumFun(f, DOMAIN f)[DOMAIN f]
  BY Zenon DEF SumFunction, SumFunctionOnSet, FoldFunction, FoldFunctionOnSet, MapThenFoldSet, SumFun, AnyOne
<1>2. \E g : g = [s \in SUBSET D |-> IF s = {} THEN 0 ELSE f[AnyOne(s)] + g[s \ {AnyOne(s)}]]
  <2>1. PICK n \in Nat : n = Cardinality(D)
    BY FS_CardinalityType
  <2>2. PICK h : SumsTo(h, f, D, n)
    BY <2>1, SumsUpTo
  <2>3. \A s \in SUBSET D : Cardinality(s) <= n
    BY <2>1, FS_Subset
  <2>4. PICK g : g = [s \in SUBSET D |-> h[s]]
    OBVIOUS
  <2>5. ASSUME NEW s \in SUBSET D
        PROVE  g[s] = IF s = {} THEN 0 ELSE f[AnyOne(s)] + g[s \ {AnyOne(s)}]
    <3>1. h[s] = IF s = {} THEN 0 ELSE f[AnyOne(s)] + h[s \ {AnyOne(s)}]
      BY <2>2, <2>3 DEF SumsTo
    <3>2. g[s] = h[s] /\ g[s \ {AnyOne(s)}] = h[s \ {AnyOne(s)}]
      BY <2>4
    <3> QED BY <3>1, <3>2, Zenon
  <2>6. g = [s \in SUBSET D |-> g[s]]
    BY <2>4
  <2>7. g = [s \in SUBSET D |-> IF s = {} THEN 0 ELSE f[AnyOne(s)] + g[s \ {AnyOne(s)}]]
    BY <2>5, <2>6
  <2> QED BY <2>7
<1>3. SumFun(f, D) = [s \in SUBSET D |-> IF s = {} THEN 0 ELSE f[AnyOne(s)] + SumFun(f, D)[s \ {AnyOne(s)}]]
  BY <1>2, Zenon DEF SumFun
<1>4. Sums(SumFun(f, D), f, D)
  BY <1>3, Zenon DEF Sums
<1> QED BY <1>1, <1>4

\* The values of a function that sums numbers are numbers.
LEMMA SumsInt ==
  ASSUME NEW D, IsFiniteSet(D), NEW f \in [D -> Int], NEW g, Sums(g, f, D)
  PROVE  \A s \in SUBSET D : g[s] \in Int
<1> DEFINE T == {n \in Nat : \E s \in SUBSET D : Cardinality(s) = n /\ g[s] \notin Int}
<1>1. ASSUME T # {} PROVE FALSE
  <2>1. PICK n \in T : \A k \in T : n <= k
    BY <1>1, LeastNumber
  <2>2. PICK s \in SUBSET D : Cardinality(s) = n /\ g[s] \notin Int
    BY <2>1
  <2>3. s # {}
    <3>1. s = {} => g[s] = 0
      BY Zenon DEF Sums
    <3> QED BY <2>2, <3>1
  <2>4. PICK r \in SUBSET D : r = s \ {AnyOne(s)} /\ Cardinality(r) \in Nat /\ Cardinality(r) = n - 1 /\ AnyOne(s) \in s
    <3>1. /\ AnyOne(s) \in s /\ s \ {AnyOne(s)} \in SUBSET D
          /\ Cardinality(s \ {AnyOne(s)}) \in Nat /\ Cardinality(s \ {AnyOne(s)}) = Cardinality(s) - 1
      BY <2>3, OneLess, Zenon
    <3> QED BY <2>2, <3>1
  <2>5. g[r] \in Int
    <3>1. n - 1 \notin T
      BY <2>1
    <3> QED BY <2>4, <3>1
  <2>6. g[s] = f[AnyOne(s)] + g[r]
    BY <2>3, <2>4, Zenon DEF Sums
  <2> QED BY <2>2, <2>4, <2>5, <2>6
<1>2. \A s \in SUBSET D : Cardinality(s) \in Nat
  BY FS_Subset, FS_CardinalityType
<1> QED BY <1>1, <1>2

\* Changing one value changes the sum by as much.
LEMMA SumsDiffer ==
  ASSUME NEW D, IsFiniteSet(D), NEW f \in [D -> Int], NEW h \in [D -> Int], NEW a \in D,
         \A x \in D \ {a} : h[x] = f[x],
         NEW g, Sums(g, f, D), NEW k, Sums(k, h, D)
  PROVE  \A s \in SUBSET D : k[s] = g[s] + (IF a \in s THEN h[a] - f[a] ELSE 0)
<1> DEFINE T == {n \in Nat : \E s \in SUBSET D :
                   Cardinality(s) = n /\ k[s] # g[s] + (IF a \in s THEN h[a] - f[a] ELSE 0)}
<1>1. ASSUME T # {} PROVE FALSE
  <2>1. PICK n \in T : \A j \in T : n <= j
    BY <1>1, LeastNumber
  <2>2. PICK s \in SUBSET D : Cardinality(s) = n /\ k[s] # g[s] + (IF a \in s THEN h[a] - f[a] ELSE 0)
    BY <2>1
  <2>3. s # {}
    <3>1. s = {} => k[s] = 0 /\ g[s] = 0
      BY Zenon DEF Sums
    <3> QED BY <2>2, <3>1
  <2>4. PICK r \in SUBSET D : r = s \ {AnyOne(s)} /\ Cardinality(r) \in Nat /\ Cardinality(r) = n - 1 /\ AnyOne(s) \in s
    <3>1. /\ AnyOne(s) \in s /\ s \ {AnyOne(s)} \in SUBSET D
          /\ Cardinality(s \ {AnyOne(s)}) \in Nat /\ Cardinality(s \ {AnyOne(s)}) = Cardinality(s) - 1
      BY <2>3, OneLess, Zenon
    <3> QED BY <2>2, <3>1
  <2>5. k[r] = g[r] + (IF a \in r THEN h[a] - f[a] ELSE 0)
    <3>1. n - 1 \notin T
      BY <2>1
    <3> QED BY <2>4, <3>1
  <2>6. g[s] = f[AnyOne(s)] + g[r] /\ k[s] = h[AnyOne(s)] + k[r]
    BY <2>3, <2>4, Zenon DEF Sums
  <2>7. g[r] \in Int /\ f[AnyOne(s)] \in Int /\ f[a] \in Int /\ h[a] \in Int
    BY <2>4, SumsInt
  <2>8. CASE AnyOne(s) = a
    <3>1. a \notin r /\ a \in s
      BY <2>4, <2>8
    <3> QED BY <2>2, <2>5, <2>6, <2>7, <2>8, <3>1
  <2>9. CASE AnyOne(s) # a
    <3>1. (a \in r <=> a \in s) /\ h[AnyOne(s)] = f[AnyOne(s)]
      BY <2>4, <2>9
    <3>2. CASE a \in s
      BY <2>2, <2>5, <2>6, <2>7, <3>1, <3>2
    <3>3. CASE a \notin s
      BY <2>2, <2>5, <2>6, <2>7, <3>1, <3>3
    <3> QED BY <3>2, <3>3
  <2> QED BY <2>8, <2>9
<1>2. \A s \in SUBSET D : Cardinality(s) \in Nat
  BY FS_Subset, FS_CardinalityType
<1> QED BY <1>1, <1>2

\* So it is for SumFunction.
LEMMA SumChange ==
  ASSUME NEW D, IsFiniteSet(D), NEW f \in [D -> Int], NEW h \in [D -> Int], NEW a \in D,
         \A x \in D \ {a} : h[x] = f[x]
  PROVE  SumFunction(h) = SumFunction(f) - f[a] + h[a] /\ SumFunction(f) \in Int
<1>1. PICK g : Sums(g, f, D) /\ SumFunction(f) = g[D]
  BY SumIs
<1>2. PICK k : Sums(k, h, D) /\ SumFunction(h) = k[D]
  BY SumIs
<1>3. k[D] = g[D] + (IF a \in D THEN h[a] - f[a] ELSE 0)
  BY <1>1, <1>2, SumsDiffer
<1>4. g[D] \in Int /\ f[a] \in Int /\ h[a] \in Int
  BY <1>1, SumsInt
<1> QED BY <1>1, <1>2, <1>3, <1>4

\* A sum of zeros is zero.
LEMMA SumZero ==
  ASSUME NEW D, IsFiniteSet(D), NEW f \in [D -> Int], \A x \in D : f[x] = 0
  PROVE  SumFunction(f) = 0
<1>1. PICK g : Sums(g, f, D) /\ SumFunction(f) = g[D]
  BY SumIs
<1> DEFINE T == {n \in Nat : \E s \in SUBSET D : Cardinality(s) = n /\ g[s] # 0}
<1>2. ASSUME T # {} PROVE FALSE
  <2>1. PICK n \in T : \A k \in T : n <= k
    BY <1>2, LeastNumber
  <2>2. PICK s \in SUBSET D : Cardinality(s) = n /\ g[s] # 0
    BY <2>1
  <2>3. s # {}
    <3>1. s = {} => g[s] = 0
      BY <1>1, Zenon DEF Sums
    <3> QED BY <2>2, <3>1
  <2>4. PICK r \in SUBSET D : r = s \ {AnyOne(s)} /\ Cardinality(r) \in Nat /\ Cardinality(r) = n - 1 /\ AnyOne(s) \in s
    <3>1. /\ AnyOne(s) \in s /\ s \ {AnyOne(s)} \in SUBSET D
          /\ Cardinality(s \ {AnyOne(s)}) \in Nat /\ Cardinality(s \ {AnyOne(s)}) = Cardinality(s) - 1
      BY <2>3, OneLess, Zenon
    <3> QED BY <2>2, <3>1
  <2>5. g[r] = 0
    <3>1. n - 1 \notin T
      BY <2>1
    <3> QED BY <2>4, <3>1
  <2>6. g[s] = f[AnyOne(s)] + g[r]
    BY <1>1, <2>3, <2>4, Zenon DEF Sums
  <2> QED BY <2>2, <2>4, <2>5, <2>6
<1>3. Cardinality(D) \in Nat
  BY FS_CardinalityType
<1> QED BY <1>1, <1>2, <1>3

\* A sum of numbers that are not negative is not negative.
LEMMA SumNat ==
  ASSUME NEW D, IsFiniteSet(D), NEW f \in [D -> Nat]
  PROVE  SumFunction(f) \in Nat
<1>1. PICK g : Sums(g, f, D) /\ SumFunction(f) = g[D]
  BY SumIs
<1> DEFINE T == {n \in Nat : \E s \in SUBSET D : Cardinality(s) = n /\ g[s] \notin Nat}
<1>2. ASSUME T # {} PROVE FALSE
  <2>1. PICK n \in T : \A k \in T : n <= k
    BY <1>2, LeastNumber
  <2>2. PICK s \in SUBSET D : Cardinality(s) = n /\ g[s] \notin Nat
    BY <2>1
  <2>3. s # {}
    <3>1. s = {} => g[s] = 0
      BY <1>1, Zenon DEF Sums
    <3> QED BY <2>2, <3>1
  <2>4. PICK r \in SUBSET D : r = s \ {AnyOne(s)} /\ Cardinality(r) \in Nat /\ Cardinality(r) = n - 1 /\ AnyOne(s) \in s
    <3>1. /\ AnyOne(s) \in s /\ s \ {AnyOne(s)} \in SUBSET D
          /\ Cardinality(s \ {AnyOne(s)}) \in Nat /\ Cardinality(s \ {AnyOne(s)}) = Cardinality(s) - 1
      BY <2>3, OneLess, Zenon
    <3> QED BY <2>2, <3>1
  <2>5. g[r] \in Nat
    <3>1. n - 1 \notin T
      BY <2>1
    <3> QED BY <2>4, <3>1
  <2>6. g[s] = f[AnyOne(s)] + g[r]
    BY <1>1, <2>3, <2>4, Zenon DEF Sums
  <2> QED BY <2>2, <2>4, <2>5, <2>6
<1>3. Cardinality(D) \in Nat
  BY FS_CardinalityType
<1> QED BY <1>1, <1>2, <1>3

\* Such a sum is at least each of its numbers.
LEMMA SumMember ==
  ASSUME NEW D, IsFiniteSet(D), NEW f \in [D -> Nat], NEW a \in D
  PROVE  SumFunction(f) >= f[a]
<1>1. PICK h : h = [f EXCEPT ![a] = 0]
  OBVIOUS
<1>2. h \in [D -> Nat] /\ h[a] = 0 /\ \A x \in D \ {a} : h[x] = f[x]
  BY <1>1
<1>3. f \in [D -> Int] /\ h \in [D -> Int] /\ f[a] \in Nat
  BY <1>2
<1>4. SumFunction(h) = SumFunction(f) - f[a] + h[a] /\ SumFunction(f) \in Int
  BY <1>2, <1>3, SumChange
<1>5. SumFunction(h) \in Nat
  BY <1>2, SumNat
<1> QED BY <1>2, <1>3, <1>4, <1>5
=============================================================================
