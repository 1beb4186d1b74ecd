----------------------------- MODULE FiniteSums -----------------------------
(***************************************************************************)
(* What SumFunctionOnSet adds up, for any finite set.  It is defined by a  *)
(* recursive CHOOSE on the subsets of its argument; that such a function   *)
(* exists and does not depend on the choices follows by looking at a       *)
(* smallest subset without the property (WFMin).                           *)
(***************************************************************************)
EXTENDS FiniteSetTheorems, TLAPS

\* A set of naturals that is not empty has a least element.
LEMMA LeastNumber ==
  ASSUME NEW T, T \subseteq Nat, T # {}
  PROVE  \E n \in T : \A m \in T : n <= m
<1> DEFINE R == {ss \in Nat \X Nat : ss[1] < ss[2]}
<1>1. IsWellFoundedOn(R, Nat)
  BY NatLessThanWellFounded DEF OpToRel
<1>2. \A x, y \in Nat : y < x => <<y, x>> \in R
  OBVIOUS
<1> HIDE DEF R
<1>3. \E x \in T : \A y \in T : <<y, x>> \notin R
  BY <1>1, WFMin
<1>4. PICK n \in T : \A m \in T : <<m, n>> \notin R
  BY <1>3
<1>5. ASSUME NEW m \in T PROVE n <= m
  <2>1. ~(m < n)
    BY <1>2, <1>4
  <2> QED
    BY <2>1
<1> QED
  BY <1>5

\* Among some subsets of a finite set there is one none of whose proper parts is
\* among them.
LEMMA SmallestSubset ==
  ASSUME NEW S, IsFiniteSet(S), NEW B, B \subseteq SUBSET S, B # {}
  PROVE  \E s \in B : \A x \in s : \A t \in SUBSET (s \ {x}) : t \notin B
<1> DEFINE sizes == {Cardinality(s) : s \in B}
<1>1. \A s \in B : IsFiniteSet(s) /\ Cardinality(s) \in Nat
  BY FS_Subset, FS_CardinalityType
<1>2. sizes \subseteq Nat /\ sizes # {}
  BY <1>1
<1>3. PICK n \in sizes : \A m \in sizes : n <= m
  <2> HIDE DEF sizes
  <2> QED
    BY <1>2, LeastNumber
<1>4. PICK s \in B : n = Cardinality(s)
  OBVIOUS
<1>5. ASSUME NEW x \in s, NEW t \in SUBSET (s \ {x}), t \in B PROVE FALSE
  <2>1. IsFiniteSet(s \ {x}) /\ Cardinality(s \ {x}) = n - 1
    BY <1>1, <1>4, FS_RemoveElement
  <2>2. Cardinality(t) <= n - 1
    BY <2>1, FS_Subset
  <2>3. n <= Cardinality(t)
    BY <1>3, <1>5
  <2>4. n \in Nat /\ Cardinality(t) \in Nat
    BY <1>1, <1>2, <1>5
  <2> HIDE DEF sizes
  <2> QED
    BY <2>2, <2>3, <2>4
<1> QED
  BY <1>5

\* The element a sum takes out of a set first.
AnyOf(s) == CHOOSE x \in s : TRUE

\* g gives the sum of w over each of the sets T.
Sums(g, w, T) ==
  g = [s \in T |-> IF s = {} THEN 0 ELSE w[AnyOf(s)] + g[s \ {AnyOf(s)}]]

\* It is an element of the set.
LEMMA AnyIsIn == \A s : s # {} => AnyOf(s) \in s
BY DEF AnyOf

\* The subsets of S with at most n elements.
UpTo(S, n) == {s \in SUBSET S : Cardinality(s) <= n}

\* Sums over sets of n elements give sums over sets of n + 1.
LEMMA NextLevel ==
  ASSUME NEW S, IsFiniteSet(S), NEW w, NEW n \in Nat,
         \E g : Sums(g, w, UpTo(S, n))
  PROVE  \E g : Sums(g, w, UpTo(S, n + 1))
<1>1. PICK g : Sums(g, w, UpTo(S, n))
  OBVIOUS
<1> DEFINE h == [s \in UpTo(S, n + 1) |->
                   IF s = {} THEN 0 ELSE w[AnyOf(s)] + g[s \ {AnyOf(s)}]]
<1>2. \A s \in UpTo(S, n) : h[s] = g[s]
  <2> TAKE s \in UpTo(S, n)
  <2>1. s \in UpTo(S, n + 1)
    <3>1. Cardinality(s) \in Nat
      BY FS_Subset, FS_CardinalityType DEF UpTo
    <3> QED
      BY <3>1 DEF UpTo
  <2>2. g[s] = IF s = {} THEN 0 ELSE w[AnyOf(s)] + g[s \ {AnyOf(s)}]
    <3>1. g = [t \in UpTo(S, n) |-> IF t = {} THEN 0 ELSE w[AnyOf(t)] + g[t \ {AnyOf(t)}]]
      BY <1>1 DEF Sums
    <3> QED
      BY <3>1
  <2> QED
    BY <2>1, <2>2
<1>3. ASSUME NEW s \in UpTo(S, n + 1), s # {}
      PROVE  h[s \ {AnyOf(s)}] = g[s \ {AnyOf(s)}]
  <2>1. AnyOf(s) \in s
    BY <1>3, AnyIsIn
  <2>2. IsFiniteSet(s) /\ Cardinality(s) \in Nat /\ Cardinality(s) <= n + 1
    BY FS_Subset, FS_CardinalityType DEF UpTo
  <2>3. Cardinality(s \ {AnyOf(s)}) = Cardinality(s) - 1
    BY <2>1, <2>2, FS_RemoveElement
  <2>4. s \ {AnyOf(s)} \in UpTo(S, n)
    BY <2>2, <2>3 DEF UpTo
  <2> QED
    BY <1>2, <2>4
<1>4. h = [s \in UpTo(S, n + 1) |-> IF s = {} THEN 0 ELSE w[AnyOf(s)] + h[s \ {AnyOf(s)}]]
  <2>1. \A s \in UpTo(S, n + 1) :
          (IF s = {} THEN 0 ELSE w[AnyOf(s)] + g[s \ {AnyOf(s)}])
          = (IF s = {} THEN 0 ELSE w[AnyOf(s)] + h[s \ {AnyOf(s)}])
    <3> HIDE DEF h
    <3> QED
      BY <1>3
  <2> QED
    BY <2>1
<1> HIDE DEF h
<1>5. Sums(h, w, UpTo(S, n + 1))
  BY <1>4 DEF Sums
<1> QED
  BY <1>5

\* There is a function of sums on the subsets of a finite set.
LEMMA SumsExist ==
  ASSUME NEW S, IsFiniteSet(S), NEW w
  PROVE  \E g : Sums(g, w, SUBSET S)
<1> DEFINE none == {n \in Nat : ~ \E g : Sums(g, w, UpTo(S, n))}
<1>1. 0 \notin none
  <2> DEFINE g == [s \in UpTo(S, 0) |-> 0]
  <2>1. \A s \in UpTo(S, 0) : s = {}
    BY FS_Subset, FS_EmptySet, FS_CardinalityType DEF UpTo
  <2>2. g = [s \in UpTo(S, 0) |-> IF s = {} THEN 0 ELSE w[AnyOf(s)] + g[s \ {AnyOf(s)}]]
    BY <2>1
  <2> HIDE DEF g
  <2>3. Sums(g, w, UpTo(S, 0))
    BY <2>2 DEF Sums
  <2> QED
    BY <2>3
<1>2. none = {}
  <2> SUFFICES ASSUME none # {} PROVE FALSE
    OBVIOUS
  <2>0. none \subseteq Nat
    OBVIOUS
  <2>1. PICK n \in none : \A m \in none : n <= m
    <3> HIDE DEF none
    <3> QED
      BY <2>0, LeastNumber
  <2>2. n \in Nat /\ n # 0
    BY <1>1
  <2>3. n - 1 \in Nat /\ (n - 1) + 1 = n
    BY <2>2
  <2>4. n - 1 \notin none
    BY <2>1, <2>2, <2>3
  <2>5. \E g : Sums(g, w, UpTo(S, n - 1))
    BY <2>3, <2>4
  <2>6. \E g : Sums(g, w, UpTo(S, (n - 1) + 1))
    BY <2>3, <2>5, NextLevel
  <2> QED
    BY <2>3, <2>6
<1>3. Cardinality(S) \in Nat
  BY FS_CardinalityType
<1>4. UpTo(S, Cardinality(S)) = SUBSET S
  BY FS_Subset DEF UpTo
<1>5. Cardinality(S) \notin none
  BY <1>2
<1>6. \E g : Sums(g, w, UpTo(S, Cardinality(S)))
  BY <1>3, <1>5
<1> QED
  BY <1>4, <1>6

\* SumFunctionOnSet is the value of such a function.
LEMMA SumIsOfSums ==
  ASSUME NEW S, IsFiniteSet(S), NEW w
  PROVE  \E g : Sums(g, w, SUBSET S) /\ SumFunctionOnSet(w, S) = g[S]
<1> DEFINE it == CHOOSE g : Sums(g, w, SUBSET S)
<1>1. Sums(it, w, SUBSET S)
  BY SumsExist
<1>2. SumFunctionOnSet(w, S) = it[S]
  BY DEF SumFunctionOnSet, FoldFunctionOnSet, MapThenFoldSet, Sums, AnyOf
<1> QED
  BY <1>1, <1>2

\* v and w have the same values on S.
Agree(v, w, S) == \A x \in S : v[x] = w[x]

\* The sum over a set does not depend on the larger set it is taken in.
LEMMA SumsAgree ==
  \A S, R, v, w, g, h :
     (/\ IsFiniteSet(S) /\ S \subseteq R /\ Agree(v, w, S)
      /\ Sums(g, v, SUBSET S) /\ Sums(h, w, SUBSET R))
     => g[S] = h[S]
<1> SUFFICES ASSUME NEW S, NEW R, NEW v, NEW w, NEW g, NEW h,
                    IsFiniteSet(S), S \subseteq R, Agree(v, w, S),
                    Sums(g, v, SUBSET S), Sums(h, w, SUBSET R)
             PROVE  g[S] = h[S]
  OBVIOUS
<1> DEFINE differ == {s \in SUBSET S : g[s] # h[s]}
<1>1. differ = {}
  <2> SUFFICES ASSUME differ # {} PROVE FALSE
    OBVIOUS
  <2>1. PICK s \in differ : \A x \in s : \A t \in SUBSET (s \ {x}) : t \notin differ
    <3>1. differ \subseteq SUBSET S
      OBVIOUS
    <3> HIDE DEF differ
    <3> QED
      BY <3>1, SmallestSubset
  <2>2. /\ g[s] = IF s = {} THEN 0 ELSE v[AnyOf(s)] + g[s \ {AnyOf(s)}]
        /\ h[s] = IF s = {} THEN 0 ELSE w[AnyOf(s)] + h[s \ {AnyOf(s)}]
    <3>1. /\ g = [t \in SUBSET S |-> IF t = {} THEN 0 ELSE v[AnyOf(t)] + g[t \ {AnyOf(t)}]]
          /\ h = [t \in SUBSET R |-> IF t = {} THEN 0 ELSE w[AnyOf(t)] + h[t \ {AnyOf(t)}]]
      BY DEF Sums
    <3>2. s \in SUBSET S /\ s \in SUBSET R
      OBVIOUS
    <3> QED
      BY <3>1, <3>2
  <2>3. s # {}
    BY <2>2
  <2>4. AnyOf(s) \in s
    BY <2>3, AnyIsIn
  <2>5. g[s \ {AnyOf(s)}] = h[s \ {AnyOf(s)}]
    BY <2>1, <2>4
  <2>6. v[AnyOf(s)] = w[AnyOf(s)]
    BY <2>4 DEF Agree
  <2> QED
    BY <2>2, <2>5, <2>6
<1> QED
  BY <1>1

\* A sum depends on nothing but the values it adds up.
LEMMA SumOfSame ==
  ASSUME NEW S, IsFiniteSet(S), NEW v, NEW w, \A x \in S : v[x] = w[x]
  PROVE  SumFunctionOnSet(v, S) = SumFunctionOnSet(w, S)
<1>1. PICK g : Sums(g, v, SUBSET S) /\ SumFunctionOnSet(v, S) = g[S]
  BY SumIsOfSums
<1>2. PICK h : Sums(h, w, SUBSET S) /\ SumFunctionOnSet(w, S) = h[S]
  BY SumIsOfSums
<1>3. g[S] = h[S]
  <2> S \subseteq S /\ Agree(v, w, S)
    BY DEF Agree
  <2> QED
    BY <1>1, <1>2, SumsAgree
<1> QED
  BY <1>1, <1>2, <1>3

\* The sum over no elements is zero.
LEMMA SumOfNone == ASSUME NEW w PROVE SumFunctionOnSet(w, {}) = 0
<1>1. PICK g : Sums(g, w, SUBSET {}) /\ SumFunctionOnSet(w, {}) = g[{}]
  BY SumIsOfSums, FS_EmptySet
<1> QED
  BY <1>1 DEF Sums

\* A sum is the value at the first element taken, plus the sum of the rest.
LEMMA SumFirst ==
  ASSUME NEW S, IsFiniteSet(S), S # {}, NEW w
  PROVE  SumFunctionOnSet(w, S) = w[AnyOf(S)] + SumFunctionOnSet(w, S \ {AnyOf(S)})
<1> DEFINE R == S \ {AnyOf(S)}
<1>1. PICK g : Sums(g, w, SUBSET S) /\ SumFunctionOnSet(w, S) = g[S]
  BY SumIsOfSums
<1>2. IsFiniteSet(R)
  BY FS_Subset
<1>3. PICK h : Sums(h, w, SUBSET R) /\ SumFunctionOnSet(w, R) = h[R]
  BY <1>2, SumIsOfSums
<1>4. h[R] = g[R]
  <2> R \subseteq S
    OBVIOUS
  <2> Agree(w, w, R)
    BY DEF Agree
  <2> HIDE DEF R
  <2> QED
    BY <1>1, <1>2, <1>3, SumsAgree
<1>5. g[S] = w[AnyOf(S)] + g[R]
  <2>1. g = [s \in SUBSET S |-> IF s = {} THEN 0 ELSE w[AnyOf(s)] + g[s \ {AnyOf(s)}]]
    BY <1>1 DEF Sums
  <2> QED
    BY <2>1
<1> QED
  BY <1>1, <1>3, <1>4, <1>5

\* A sum of integers is an integer.
LEMMA SumType ==
  ASSUME NEW S, IsFiniteSet(S), NEW w, \A x \in S : w[x] \in Int
  PROVE  SumFunctionOnSet(w, S) \in Int
<1> DEFINE odd == {s \in SUBSET S : SumFunctionOnSet(w, s) \notin Int}
<1>1. odd = {}
  <2> SUFFICES ASSUME odd # {} PROVE FALSE
    OBVIOUS
  <2>1. PICK s \in odd : \A x \in s : \A t \in SUBSET (s \ {x}) : t \notin odd
    <3>1. odd \subseteq SUBSET S
      OBVIOUS
    <3> HIDE DEF odd
    <3> QED
      BY <3>1, SmallestSubset
  <2>2. s # {}
    BY SumOfNone
  <2>3. IsFiniteSet(s)
    BY FS_Subset
  <2>4. AnyOf(s) \in s
    BY <2>2, AnyIsIn
  <2>5. SumFunctionOnSet(w, s \ {AnyOf(s)}) \in Int
    BY <2>1, <2>4
  <2>6. SumFunctionOnSet(w, s) = w[AnyOf(s)] + SumFunctionOnSet(w, s \ {AnyOf(s)})
    BY <2>2, <2>3, SumFirst
  <2>7. w[AnyOf(s)] \in Int
    BY <2>4
  <2>8. SumFunctionOnSet(w, s) \in Int
    BY <2>5, <2>6, <2>7
  <2> QED
    BY <2>8
<1>2. S \notin odd
  BY <1>1
<1> QED
  BY <1>2

\* A sum of integers is the value at any of the elements, plus the sum of the rest:
\* the order in which they are taken does not matter.
LEMMA SumSplit ==
  ASSUME NEW S, IsFiniteSet(S), NEW w, \A x \in S : w[x] \in Int, NEW x \in S
  PROVE  SumFunctionOnSet(w, S) = w[x] + SumFunctionOnSet(w, S \ {x})
<1> DEFINE Sum(s) == SumFunctionOnSet(w, s)
           Splits(s, y) == Sum(s) = w[y] + Sum(s \ {y})
           odd == {s \in SUBSET S : \E y \in s : ~Splits(s, y)}
<1>1. odd = {}
  <2> SUFFICES ASSUME odd # {} PROVE FALSE
    OBVIOUS
  <2>1. PICK s \in odd : \A y \in s : \A t \in SUBSET (s \ {y}) : t \notin odd
    <3>1. odd \subseteq SUBSET S
      OBVIOUS
    <3> HIDE DEF odd
    <3> QED
      BY <3>1, SmallestSubset
  <2>2. PICK b \in s : ~Splits(s, b)
    OBVIOUS
  <2>3. /\ s # {} /\ IsFiniteSet(s) /\ s \subseteq S
    BY FS_Subset
  <2> DEFINE a == AnyOf(s)
  <2>4. a \in s
    BY <2>3, AnyIsIn
  <2>5. Splits(s, a)
    BY <2>3, SumFirst
  <2>6. a # b
    BY <2>2, <2>5
  <2>7. Splits(s \ {a}, b)
    <3>1. s \ {a} \notin odd
      BY <2>1, <2>4
    <3>2. b \in s \ {a} /\ s \ {a} \in SUBSET S
      BY <2>3, <2>6
    <3> HIDE DEF Splits, a
    <3> QED
      BY <3>1, <3>2
  <2>8. Splits(s \ {b}, a)
    <3>1. s \ {b} \notin odd
      BY <2>1, <2>2
    <3>2. a \in s \ {b} /\ s \ {b} \in SUBSET S
      BY <2>3, <2>4, <2>6
    <3> HIDE DEF Splits, a
    <3> QED
      BY <3>1, <3>2
  <2> DEFINE both == (s \ {a}) \ {b}
  <2>9. both = (s \ {b}) \ {a}
    OBVIOUS
  <2>10. Sum(both) \in Int
    BY <2>3, FS_Subset, SumType
  <2>11. w[a] \in Int /\ w[b] \in Int
    BY <2>3, <2>4
  <2>12. Sum(s) = w[a] + (w[b] + Sum(both)) /\ Sum(s \ {b}) = w[a] + Sum(both)
    BY <2>5, <2>7, <2>8, <2>9
  <2>13. Sum(s) # w[b] + Sum(s \ {b})
    BY <2>2
  <2> HIDE DEF a, Sum, both
  <2> QED
    BY <2>10, <2>11, <2>12, <2>13
<1>2. S \notin odd
  BY <1>1
<1>3. Splits(S, x)
  <2> HIDE DEF Splits
  <2> QED
    BY <1>2
<1> QED
  BY <1>3

\* A sum after one more element, the values of the others unchanged.
LEMMA SumAdds ==
  ASSUME NEW S, IsFiniteSet(S), NEW v, NEW w, NEW x, x \notin S,
         \A y \in S : v[y] \in Int /\ w[y] = v[y], w[x] \in Int
  PROVE  /\ SumFunctionOnSet(w, S \cup {x}) = SumFunctionOnSet(v, S) + w[x]
         /\ SumFunctionOnSet(v, S) \in Int
<1> DEFINE T == S \cup {x}
<1>1. IsFiniteSet(T) /\ x \in T /\ T \ {x} = S /\ \A y \in T : w[y] \in Int
  BY FS_AddElement
<1>2. SumFunctionOnSet(w, T) = w[x] + SumFunctionOnSet(w, S)
  <2> HIDE DEF T
  <2>1. SumFunctionOnSet(w, T) = w[x] + SumFunctionOnSet(w, T \ {x})
    BY <1>1, SumSplit
  <2> QED
    BY <1>1, <2>1
<1>3. SumFunctionOnSet(w, S) = SumFunctionOnSet(v, S)
  BY SumOfSame
<1>4. SumFunctionOnSet(v, S) \in Int
  BY SumType
<1> QED
  BY <1>2, <1>3, <1>4

\* T is S without x.
Without(S, x, T) == x \in S /\ T = S \ {x}

\* A sum after one element less, the values of the others unchanged.
LEMMA SumDrops ==
  \A S, T, v, w, x :
     (/\ IsFiniteSet(S) /\ Without(S, x, T)
      /\ \A y \in S : v[y] \in Int
      /\ Agree(v, w, T))
     => SumFunctionOnSet(w, T) = SumFunctionOnSet(v, S) - v[x]
<1> SUFFICES ASSUME NEW S, NEW T, NEW v, NEW w, NEW x,
                    IsFiniteSet(S), Without(S, x, T),
                    \A y \in S : v[y] \in Int, Agree(v, w, T)
             PROVE  SumFunctionOnSet(w, T) = SumFunctionOnSet(v, S) - v[x]
  OBVIOUS
<1>1. IsFiniteSet(T) /\ \A y \in T : v[y] \in Int /\ w[y] = v[y]
  BY FS_RemoveElement DEF Agree, Without
<1>2. SumFunctionOnSet(v, S) = v[x] + SumFunctionOnSet(v, T)
  BY SumSplit DEF Without
<1>3. SumFunctionOnSet(w, T) = SumFunctionOnSet(v, T)
  BY <1>1, SumOfSame
<1>4. SumFunctionOnSet(v, T) \in Int /\ v[x] \in Int
  BY <1>1, SumType DEF Without
<1> QED
  BY <1>2, <1>3, <1>4
=============================================================================
