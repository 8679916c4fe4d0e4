----------------------------- MODULE FoldProofs -----------------------------
(***************************************************************************)
(* Induction over data for the proofs of the other modules.  The induction *)
(* theorems of the library take an operator as a parameter; here induction *)
(* is stated for a set of numbers (SetInduction), and what the components  *)
(* compute recursively is reached through the table of a recursive function*)
(* or of a library fold: a table exists, CHOOSE therefore takes one, and a *)
(* fact about its entries is proved by induction over the size of the      *)
(* argument.  The sums are those of Functions!SumFunctionOnSet.            *)
(***************************************************************************)
EXTENDS Integers, Functions, FiniteSets, FiniteSetsExt, FiniteSetTheorems,
        WellFoundedInduction, TLAPS

----------------------------------------------------------------------------
(* Induction                                                               *)

\* The order of the naturals, as a relation.
Less == {ss \in Nat \X Nat : ss[1] < ss[2]}

\* A nonempty set of naturals has a least element.
LEMMA LeastNat ==
  ASSUME NEW T, T \subseteq Nat, T # {}
  PROVE  \E m \in T : \A n \in T : m <= n
<1>1. OpToRel(<, Nat) = Less
  BY Zenon DEF OpToRel, Less
<1>2. IsWellFoundedOn(Less, Nat)
  BY <1>1, NatLessThanWellFounded, Zenon
<1>3. \E m \in T : \A n \in T : ~ (<<n, m>> \in Less)
  BY <1>2, WFMin, Zenon
<1>4. PICK m \in T : \A n \in T : ~ (<<n, m>> \in Less)
  BY <1>3
<1>5. \A n \in T : m <= n
  <2>1. TAKE n \in T
  <2>2. ~ (n < m)
    BY <1>4 DEF Less
  <2> QED
    BY <2>2
<1> QED
  BY <1>5

\* Induction over the naturals, for a set.
LEMMA SetInduction ==
  ASSUME NEW T, 0 \in T, \A n \in Nat : n \in T => n + 1 \in T
  PROVE  Nat \subseteq T
<1>1. SUFFICES ASSUME Nat \ T # {} PROVE FALSE
  OBVIOUS
<1>2. PICK m \in Nat \ T : \A n \in Nat \ T : m <= n
  <2> DEFINE U == Nat \ T
  <2>1. U \subseteq Nat /\ U # {}
    BY <1>1
  <2> HIDE DEF U
  <2>2. \E m \in U : \A n \in U : m <= n
    BY <2>1, LeastNat
  <2> QED
    BY <2>2 DEF U
<1>3. m # 0
  BY <1>2
<1>4. m - 1 \in Nat /\ m - 1 \in T
  BY <1>2, <1>3
<1>5. (m - 1) + 1 \in T
  BY <1>4
<1> QED
  BY <1>2, <1>5

----------------------------------------------------------------------------
(* Sums                                                                    *)

\* The element that a fold of the library takes first.
AnyOf(s) == CHOOSE x \in s : TRUE

\* A sum, from that of the set without the first element.
SumStepOf(f, g, s) == IF s = {} THEN 0 ELSE f[AnyOf(s)] + g[s \ {AnyOf(s)}]

\* The sums over all subsets of S.
SumTable(f, S, g) == g = [s \in SUBSET S |-> SumStepOf(f, g, s)]

\* The sum of the library is the entry of S in such a table.
LEMMA SumIsChosen ==
  ASSUME NEW f, NEW S
  PROVE  SumFunctionOnSet(f, S) = (CHOOSE g : SumTable(f, S, g))[S]
BY DEF SumFunctionOnSet, FoldFunctionOnSet, MapThenFoldSet, SumTable, SumStepOf, AnyOf

\* A nonempty set contains the element taken first.
LEMMA AnyOfIn ==
  ASSUME NEW s, s # {}
  PROVE  AnyOf(s) \in s
BY DEF AnyOf

\* Subsets of S with at most n elements.
Small(S, n) == {s \in SUBSET S : Cardinality(s) <= n}

\* The sums over the subsets with at most n elements.
SmallTable(f, S, n, g) == g = [s \in Small(S, n) |-> SumStepOf(f, g, s)]

\* Without one element, a set of n + 1 elements has at most n.
LEMMA SmallerPart ==
  ASSUME NEW S, IsFiniteSet(S), NEW n \in Nat, NEW s \in Small(S, n + 1), s # {}
  PROVE  s \ {AnyOf(s)} \in Small(S, n)
<1>1. IsFiniteSet(s) /\ AnyOf(s) \in s
  BY FS_Subset, AnyOfIn DEF Small
<1>2. Cardinality(s \ {AnyOf(s)}) = Cardinality(s) - 1 /\ Cardinality(s) \in Nat
  BY <1>1, FS_RemoveElement, FS_CardinalityType
<1> QED
  BY <1>2 DEF Small

\* The table of the small subsets exists, by induction over n.
LEMMA SmallTablesExist ==
  ASSUME NEW f, NEW S, IsFiniteSet(S)
  PROVE  \A n \in Nat : \E g : SmallTable(f, S, n, g)
<1> DEFINE T == {n \in Nat : \E g : SmallTable(f, S, n, g)}
<1>1. 0 \in T
  <2> DEFINE g == [s \in Small(S, 0) |-> 0]
  <2>1. \A s \in Small(S, 0) : s = {}
    BY FS_Subset, FS_EmptySet, FS_CardinalityType DEF Small
  <2>2. SmallTable(f, S, 0, g)
    BY <2>1 DEF SmallTable, SumStepOf
  <2> QED
    BY <2>2
<1>2. ASSUME NEW n \in Nat, n \in T PROVE n + 1 \in T
  <2>1. PICK g : SmallTable(f, S, n, g)
    BY <1>2
  <2> DEFINE h == [s \in Small(S, n + 1) |-> SumStepOf(f, g, s)]
  <2>2. Small(S, n) \subseteq Small(S, n + 1)
    BY FS_Subset, FS_CardinalityType DEF Small
  <2>3. \A s \in Small(S, n) : h[s] = g[s]
    BY <2>1, <2>2 DEF SmallTable
  <2>4. \A s \in Small(S, n + 1) : SumStepOf(f, g, s) = SumStepOf(f, h, s)
    BY <2>3, SmallerPart DEF SumStepOf
  <2> HIDE DEF h
  <2>5. h = [s \in Small(S, n + 1) |-> SumStepOf(f, h, s)]
    BY <2>4 DEF h
  <2>6. SmallTable(f, S, n + 1, h)
    BY <2>5 DEF SmallTable
  <2> QED
    BY <2>6
<1> HIDE DEF T
<1>3. Nat \subseteq T
  BY <1>1, <1>2, SetInduction
<1> QED
  BY <1>3 DEF T

\* The table of all subsets of a finite set exists.
LEMMA TableExists ==
  ASSUME NEW f, NEW S, IsFiniteSet(S)
  PROVE  \E g : SumTable(f, S, g)
<1>1. Cardinality(S) \in Nat
  BY FS_CardinalityType
<1>2. Small(S, Cardinality(S)) = SUBSET S
  BY FS_Subset DEF Small
<1>3. PICK g : SmallTable(f, S, Cardinality(S), g)
  BY <1>1, SmallTablesExist
<1> QED
  BY <1>2, <1>3 DEF SmallTable, SumTable

\* Two tables agree where both are defined.
LEMMA TablesAgree ==
  ASSUME NEW f, NEW U, IsFiniteSet(U), NEW S \in SUBSET U,
         NEW g, NEW h, SumTable(f, S, g), SumTable(f, U, h)
  PROVE  \A s \in SUBSET S : g[s] = h[s]
<1>0. IsFiniteSet(S)
  BY FS_Subset
<1> DEFINE T == {n \in Nat : \A s \in Small(S, n) : g[s] = h[s]}
<1>1. 0 \in T
  <2>1. \A s \in Small(S, 0) : s = {} /\ s \in SUBSET S /\ s \in SUBSET U
    BY <1>0, FS_Subset, FS_EmptySet, FS_CardinalityType DEF Small
  <2> QED
    BY <2>1 DEF SumTable, SumStepOf
<1>2. ASSUME NEW n \in Nat, n \in T PROVE n + 1 \in T
  <2>1. SUFFICES ASSUME NEW s \in Small(S, n + 1) PROVE g[s] = h[s]
    BY <1>2
  <2>2. s \in SUBSET S /\ s \in SUBSET U
    BY DEF Small
  <2>3. g[s] = SumStepOf(f, g, s) /\ h[s] = SumStepOf(f, h, s)
    BY <2>2 DEF SumTable
  <2>4. CASE s # {}
    BY <1>0, <1>2, <2>3, <2>4, SmallerPart DEF SumStepOf
  <2>5. CASE s = {}
    BY <2>3, <2>5 DEF SumStepOf
  <2> QED
    BY <2>4, <2>5
<1> HIDE DEF T
<1>3. Nat \subseteq T
  BY <1>1, <1>2, SetInduction
<1>4. SUFFICES ASSUME NEW s \in SUBSET S PROVE g[s] = h[s]
  OBVIOUS
<1>5. Cardinality(s) \in Nat /\ s \in Small(S, Cardinality(s))
  BY <1>0, FS_Subset, FS_CardinalityType DEF Small
<1> QED
  BY <1>3, <1>5 DEF T

\* A sum over a subset stands in the table of the whole set.
LEMMA SumOfTable ==
  ASSUME NEW f, NEW U, IsFiniteSet(U), NEW h, SumTable(f, U, h), NEW S \in SUBSET U
  PROVE  SumFunctionOnSet(f, S) = h[S]
<1>1. IsFiniteSet(S)
  BY FS_Subset
<1>2. SumTable(f, S, CHOOSE g : SumTable(f, S, g))
  BY <1>1, TableExists
<1>3. PICK t : t = (CHOOSE g : SumTable(f, S, g))
  OBVIOUS
<1>4. SumTable(f, S, t) /\ SumFunctionOnSet(f, S) = t[S]
  BY <1>2, <1>3, SumIsChosen
<1>5. SumTable(f, S, t)
  BY <1>4
<1>6. \A s \in SUBSET S : t[s] = h[s]
  BY <1>5, TablesAgree
<1> QED
  BY <1>4, <1>6

\* The sum over the empty set, and the sum without the element that is
\* chosen first.
LEMMA SumEmpty ==
  ASSUME NEW f
  PROVE  SumFunctionOnSet(f, {}) = 0
<1>1. IsFiniteSet({})
  BY FS_EmptySet
<1>2. PICK h : SumTable(f, {}, h)
  BY <1>1, TableExists
<1>3. SumFunctionOnSet(f, {}) = h[{}]
  BY <1>1, <1>2, SumOfTable
<1> QED
  BY <1>2, <1>3 DEF SumTable, SumStepOf

\* A sum is its first element and the sum of the rest.
LEMMA SumFirst ==
  ASSUME NEW f, NEW S, IsFiniteSet(S), S # {}
  PROVE  /\ AnyOf(S) \in S
         /\ SumFunctionOnSet(f, S) = f[AnyOf(S)] + SumFunctionOnSet(f, S \ {AnyOf(S)})
<1>1. PICK h : SumTable(f, S, h)
  BY TableExists
<1>2. SumFunctionOnSet(f, S) = h[S] /\ SumFunctionOnSet(f, S \ {AnyOf(S)}) = h[S \ {AnyOf(S)}]
  BY <1>1, SumOfTable
<1>3. h[S] = SumStepOf(f, h, S)
  BY <1>1 DEF SumTable
<1> QED
  BY <1>2, <1>3, AnyOfIn DEF SumStepOf

----------------------------------------------------------------------------
\* A sum of naturals is a natural.
LEMMA SumNat ==
  ASSUME NEW f, NEW S, IsFiniteSet(S), \A x \in S : f[x] \in Nat
  PROVE  SumFunctionOnSet(f, S) \in Nat
<1> DEFINE T == {n \in Nat : \A s \in Small(S, n) : SumFunctionOnSet(f, s) \in Nat}
<1>1. 0 \in T
  <2>1. \A s \in Small(S, 0) : s = {}
    BY FS_Subset, FS_EmptySet, FS_CardinalityType DEF Small
  <2> QED
    BY <2>1, SumEmpty
<1>2. ASSUME NEW n \in Nat, n \in T PROVE n + 1 \in T
  <2>1. SUFFICES ASSUME NEW s \in Small(S, n + 1) PROVE SumFunctionOnSet(f, s) \in Nat
    BY <1>2
  <2>2. s \in SUBSET S /\ IsFiniteSet(s)
    BY FS_Subset DEF Small
  <2>3. CASE s # {}
    <3>1. SumFunctionOnSet(f, s) = f[AnyOf(s)] + SumFunctionOnSet(f, s \ {AnyOf(s)}) /\ AnyOf(s) \in s
      BY <2>2, <2>3, SumFirst
    <3>2. SumFunctionOnSet(f, s \ {AnyOf(s)}) \in Nat
      BY <1>2, <2>3, SmallerPart
    <3>3. f[AnyOf(s)] \in Nat
      BY <2>2, <3>1
    <3> QED
      BY <3>1, <3>2, <3>3
  <2>4. CASE s = {}
    BY <2>4, SumEmpty
  <2> QED
    BY <2>3, <2>4
<1> HIDE DEF T
<1>3. Nat \subseteq T
  BY <1>1, <1>2, SetInduction
<1>4. Cardinality(S) \in Nat /\ S \in Small(S, Cardinality(S))
  BY FS_CardinalityType DEF Small
<1> QED
  BY <1>3, <1>4 DEF T

\* Any element may be taken out, not only the one that is chosen first.
LEMMA SumRemove ==
  ASSUME NEW f, NEW S, IsFiniteSet(S), \A y \in S : f[y] \in Nat, NEW x \in S
  PROVE  SumFunctionOnSet(f, S) = f[x] + SumFunctionOnSet(f, S \ {x})
<1> DEFINE Good(s) == \A y \in s : SumFunctionOnSet(f, s) = f[y] + SumFunctionOnSet(f, s \ {y})
           T == {n \in Nat : \A s \in Small(S, n) : Good(s)}
<1>1. 0 \in T
  BY FS_Subset, FS_EmptySet, FS_CardinalityType DEF Small
<1>2. ASSUME NEW n \in Nat, n \in T PROVE n + 1 \in T
  <2>1. SUFFICES ASSUME NEW s \in Small(S, n + 1), NEW y \in s
                 PROVE  SumFunctionOnSet(f, s) = f[y] + SumFunctionOnSet(f, s \ {y})
    BY <1>2
  <2> DEFINE p == AnyOf(s)
             rest == (s \ {p}) \ {y}
  <2>2. s \in SUBSET S /\ IsFiniteSet(s) /\ s # {}
    BY FS_Subset DEF Small
  <2>3. p \in s /\ SumFunctionOnSet(f, s) = f[p] + SumFunctionOnSet(f, s \ {p})
    BY <2>2, SumFirst
  <2>4. CASE y = p
    BY <2>3, <2>4
  <2>5. CASE y # p
    <3>1. s \ {p} \in Small(S, n)
      BY <2>2, SmallerPart
    <3>2. SumFunctionOnSet(f, s \ {p}) = f[y] + SumFunctionOnSet(f, rest)
      BY <1>2, <2>5, <3>1
    <3>3. s \ {y} \in Small(S, n) /\ p \in s \ {y}
      <4>1. Cardinality(s \ {y}) = Cardinality(s) - 1 /\ Cardinality(s) \in Nat
        BY <2>2, FS_RemoveElement, FS_CardinalityType
      <4> QED
        BY <2>2, <2>3, <2>5, <4>1 DEF Small
    <3>4. (s \ {y}) \ {p} = rest
      OBVIOUS
    <3>5. SumFunctionOnSet(f, s \ {y}) = f[p] + SumFunctionOnSet(f, rest)
      BY <1>2, <3>3, <3>4
    <3>6. f[p] \in Nat /\ f[y] \in Nat
      BY <2>2, <2>3
    <3>7. SumFunctionOnSet(f, rest) \in Nat
      <4>1. IsFiniteSet(rest) /\ rest \subseteq S
        BY <2>2, FS_Subset
      <4> HIDE DEF rest
      <4> QED
        BY <4>1, SumNat
    <3> HIDE DEF p, rest
    <3> QED
      BY <2>3, <3>2, <3>5, <3>6, <3>7
  <2> QED
    BY <2>4, <2>5
<1> HIDE DEF T
<1>3. Nat \subseteq T
  BY <1>1, <1>2, SetInduction
<1>4. Cardinality(S) \in Nat /\ S \in Small(S, Cardinality(S))
  BY FS_CardinalityType DEF Small
<1> QED
  BY <1>3, <1>4 DEF T

\* A new element adds its value.
LEMMA SumAdd ==
  ASSUME NEW f, NEW S, IsFiniteSet(S), NEW x, x \notin S,
         f[x] \in Nat, \A y \in S : f[y] \in Nat
  PROVE  SumFunctionOnSet(f, S \cup {x}) = f[x] + SumFunctionOnSet(f, S)
<1> DEFINE U == S \cup {x}
<1>1. IsFiniteSet(U) /\ x \in U /\ \A y \in U : f[y] \in Nat
  BY FS_AddElement
<1>2. U \ {x} = S
  OBVIOUS
<1> HIDE DEF U
<1>3. SumFunctionOnSet(f, U) = f[x] + SumFunctionOnSet(f, U \ {x})
  BY <1>1, SumRemove
<1> QED
  BY <1>2, <1>3 DEF U

\* The sum depends on the values on the set only, and is monotone in them.
LEMMA SumMonotone ==
  ASSUME NEW f, NEW g, NEW S, IsFiniteSet(S),
         \A y \in S : f[y] \in Nat /\ g[y] \in Nat /\ f[y] <= g[y]
  PROVE  SumFunctionOnSet(f, S) <= SumFunctionOnSet(g, S)
<1> DEFINE T == {n \in Nat : \A s \in Small(S, n) :
                   SumFunctionOnSet(f, s) <= SumFunctionOnSet(g, s)}
<1>1. 0 \in T
  <2>1. \A s \in Small(S, 0) : s = {}
    BY FS_Subset, FS_EmptySet, FS_CardinalityType DEF Small
  <2> QED
    BY <2>1, SumEmpty
<1>2. ASSUME NEW n \in Nat, n \in T PROVE n + 1 \in T
  <2>1. SUFFICES ASSUME NEW s \in Small(S, n + 1)
                 PROVE  SumFunctionOnSet(f, s) <= SumFunctionOnSet(g, s)
    BY <1>2
  <2>2. s \in SUBSET S /\ IsFiniteSet(s)
    BY FS_Subset DEF Small
  <2>3. CASE s # {}
    <3> DEFINE r == s \ {AnyOf(s)}
    <3>1. /\ AnyOf(s) \in s
          /\ SumFunctionOnSet(f, s) = f[AnyOf(s)] + SumFunctionOnSet(f, r)
          /\ SumFunctionOnSet(g, s) = g[AnyOf(s)] + SumFunctionOnSet(g, r)
      BY <2>2, <2>3, SumFirst
    <3>2. r \in Small(S, n) /\ IsFiniteSet(r) /\ r \subseteq S
      BY <2>2, <2>3, SmallerPart, FS_Subset
    <3> HIDE DEF r
    <3>3. SumFunctionOnSet(f, r) <= SumFunctionOnSet(g, r)
      BY <1>2, <3>2
    <3>4. SumFunctionOnSet(f, r) \in Nat
      BY <3>2, SumNat
    <3>5. SumFunctionOnSet(g, r) \in Nat
      BY <3>2, SumNat
    <3>6. f[AnyOf(s)] \in Nat /\ g[AnyOf(s)] \in Nat /\ f[AnyOf(s)] <= g[AnyOf(s)]
      BY <2>2, <3>1
    <3> QED
      BY <3>1, <3>3, <3>4, <3>5, <3>6
  <2>4. CASE s = {}
    BY <2>4, SumEmpty
  <2> QED
    BY <2>3, <2>4
<1> HIDE DEF T
<1>3. Nat \subseteq T
  BY <1>1, <1>2, SetInduction
<1>4. Cardinality(S) \in Nat /\ S \in Small(S, Cardinality(S))
  BY FS_CardinalityType DEF Small
<1> QED
  BY <1>3, <1>4 DEF T

\* Equal summands have equal sums.
LEMMA SumSame ==
  ASSUME NEW f, NEW g, NEW S, IsFiniteSet(S),
         \A y \in S : f[y] \in Nat /\ g[y] = f[y]
  PROVE  SumFunctionOnSet(g, S) = SumFunctionOnSet(f, S)
<1>1. SumFunctionOnSet(f, S) \in Nat
  BY SumNat
<1>2. SumFunctionOnSet(g, S) \in Nat
  BY SumNat
<1>3. SumFunctionOnSet(f, S) <= SumFunctionOnSet(g, S)
  BY SumMonotone
<1>4. SumFunctionOnSet(g, S) <= SumFunctionOnSet(f, S)
  BY SumMonotone
<1> QED
  BY <1>1, <1>2, <1>3, <1>4

\* One value grows and the others stay.
LEMMA SumChange ==
  ASSUME NEW f, NEW g, NEW S, IsFiniteSet(S), NEW x \in S,
         \A y \in S : f[y] \in Nat, g[x] \in Nat, \A y \in S \ {x} : g[y] = f[y]
  PROVE  SumFunctionOnSet(g, S) + f[x] = SumFunctionOnSet(f, S) + g[x]
<1> DEFINE R == S \ {x}
<1>1. IsFiniteSet(R) /\ \A y \in R : f[y] \in Nat /\ g[y] = f[y]
  BY FS_Subset
<1>2. \A y \in S : g[y] \in Nat
  OBVIOUS
<1>3. SumFunctionOnSet(f, S) = f[x] + SumFunctionOnSet(f, R)
  BY SumRemove
<1>4. SumFunctionOnSet(g, S) = g[x] + SumFunctionOnSet(g, R)
  BY <1>2, SumRemove
<1> HIDE DEF R
<1>5. SumFunctionOnSet(g, R) = SumFunctionOnSet(f, R) /\ SumFunctionOnSet(f, R) \in Nat
  BY <1>1, SumSame, SumNat
<1>6. f[x] \in Nat
  OBVIOUS
<1> QED
  BY <1>3, <1>4, <1>5, <1>6

\* A part of a set sums to no more than the set.
LEMMA SumSubset ==
  ASSUME NEW f, NEW S, NEW U, IsFiniteSet(U), S \subseteq U, \A y \in U : f[y] \in Nat
  PROVE  SumFunctionOnSet(f, S) <= SumFunctionOnSet(f, U)
<1> DEFINE T == {n \in Nat : \A s \in Small(U, n) :
                   SumFunctionOnSet(f, s \cap S) <= SumFunctionOnSet(f, s)}
<1>1. 0 \in T
  <2>1. \A s \in Small(U, 0) : s = {} /\ s \cap S = {}
    BY FS_Subset, FS_EmptySet, FS_CardinalityType DEF Small
  <2> QED
    BY <2>1, SumEmpty
<1>2. ASSUME NEW n \in Nat, n \in T PROVE n + 1 \in T
  <2>1. SUFFICES ASSUME NEW s \in Small(U, n + 1)
                 PROVE  SumFunctionOnSet(f, s \cap S) <= SumFunctionOnSet(f, s)
    BY <1>2
  <2>2. s \in SUBSET U /\ IsFiniteSet(s)
    BY FS_Subset DEF Small
  <2>3. CASE s # {}
    <3> DEFINE p == AnyOf(s)
               r == s \ {p}
               c == r \cap S
    <3>1. p \in s /\ SumFunctionOnSet(f, s) = f[p] + SumFunctionOnSet(f, r)
      BY <2>2, <2>3, SumFirst
    <3>2. r \in Small(U, n) /\ IsFiniteSet(r) /\ r \subseteq U
      BY <2>2, <2>3, SmallerPart, FS_Subset
    <3>3. IsFiniteSet(c) /\ c \subseteq U /\ p \notin c
      BY <3>2, FS_Subset
    <3>4. f[p] \in Nat
      BY <2>2, <3>1
    <3>5. IF p \in S THEN s \cap S = c \cup {p} ELSE s \cap S = c
      BY <3>1
    <3>6. SumFunctionOnSet(f, c) <= SumFunctionOnSet(f, r)
      BY <1>2, <3>2
    <3> HIDE DEF p, r, c
    <3>7. SumFunctionOnSet(f, c) \in Nat
      BY <3>3, SumNat
    <3>8. SumFunctionOnSet(f, r) \in Nat
      BY <3>2, SumNat
    <3>9. SumFunctionOnSet(f, c \cup {p}) = f[p] + SumFunctionOnSet(f, c)
      BY <3>3, <3>4, SumAdd
    <3> QED
      BY <3>1, <3>4, <3>5, <3>6, <3>7, <3>8, <3>9
  <2>4. CASE s = {}
    BY <2>4, SumEmpty
  <2> QED
    BY <2>3, <2>4
<1> HIDE DEF T
<1>3. Nat \subseteq T
  BY <1>1, <1>2, SetInduction
<1>4. Cardinality(U) \in Nat /\ U \in Small(U, Cardinality(U)) /\ U \cap S = S
  BY FS_CardinalityType DEF Small
<1> QED
  BY <1>3, <1>4 DEF T

\* A sum is that of a part and that of the rest.
LEMMA SumSplit ==
  ASSUME NEW f, NEW S, NEW U, IsFiniteSet(U), S \subseteq U, \A y \in U : f[y] \in Nat
  PROVE  SumFunctionOnSet(f, U) = SumFunctionOnSet(f, S) + SumFunctionOnSet(f, U \ S)
<1> DEFINE T == {n \in Nat : \A s \in Small(U, n) :
                   SumFunctionOnSet(f, s)
                     = SumFunctionOnSet(f, s \cap S) + SumFunctionOnSet(f, s \ S)}
<1>1. 0 \in T
  <2>1. \A s \in Small(U, 0) : s = {} /\ s \cap S = {} /\ s \ S = {}
    BY FS_Subset, FS_EmptySet, FS_CardinalityType DEF Small
  <2>2. ASSUME NEW s \in Small(U, 0)
        PROVE  SumFunctionOnSet(f, s)
                 = SumFunctionOnSet(f, s \cap S) + SumFunctionOnSet(f, s \ S)
    <3>1. /\ SumFunctionOnSet(f, s) = 0 /\ SumFunctionOnSet(f, s \cap S) = 0
          /\ SumFunctionOnSet(f, s \ S) = 0
      BY <2>1, SumEmpty, Zenon
    <3> QED
      BY <3>1
  <2> QED
    BY <2>2
<1>2. ASSUME NEW n \in Nat, n \in T PROVE n + 1 \in T
  <2>1. SUFFICES ASSUME NEW s \in Small(U, n + 1)
                 PROVE  SumFunctionOnSet(f, s)
                          = SumFunctionOnSet(f, s \cap S) + SumFunctionOnSet(f, s \ S)
    BY <1>2
  <2>2. s \in SUBSET U /\ IsFiniteSet(s)
    BY FS_Subset DEF Small
  <2>3. CASE s # {}
    <3> DEFINE p == AnyOf(s)
               r == s \ {p}
               c == r \cap S
               d == r \ S
    <3>1. p \in s /\ SumFunctionOnSet(f, s) = f[p] + SumFunctionOnSet(f, r)
      BY <2>2, <2>3, SumFirst
    <3>2. r \in Small(U, n) /\ IsFiniteSet(r) /\ r \subseteq U
      BY <2>2, <2>3, SmallerPart, FS_Subset
    <3>3. IsFiniteSet(c) /\ c \subseteq U /\ p \notin c /\ IsFiniteSet(d) /\ d \subseteq U /\ p \notin d
      BY <3>2, FS_Subset
    <3>4. f[p] \in Nat
      BY <2>2, <3>1
    <3>5. IF p \in S THEN s \cap S = c \cup {p} /\ s \ S = d
          ELSE s \cap S = c /\ s \ S = d \cup {p}
      BY <3>1
    <3>6. SumFunctionOnSet(f, r) = SumFunctionOnSet(f, c) + SumFunctionOnSet(f, d)
      BY <1>2, <3>2
    <3> HIDE DEF p, r, c, d
    <3>7. SumFunctionOnSet(f, c) \in Nat
      BY <3>3, SumNat
    <3>8. SumFunctionOnSet(f, d) \in Nat
      BY <3>3, SumNat
    <3>9. SumFunctionOnSet(f, c \cup {p}) = f[p] + SumFunctionOnSet(f, c)
      BY <3>3, <3>4, SumAdd
    <3>10. SumFunctionOnSet(f, d \cup {p}) = f[p] + SumFunctionOnSet(f, d)
      BY <3>3, <3>4, SumAdd
    <3>11. CASE p \in S
      <4>1. /\ SumFunctionOnSet(f, s \cap S) = f[p] + SumFunctionOnSet(f, c)
            /\ SumFunctionOnSet(f, s \ S) = SumFunctionOnSet(f, d)
        BY <3>5, <3>9, <3>11, Zenon
      <4> QED
        BY <3>1, <3>4, <3>6, <3>7, <3>8, <4>1
    <3>12. CASE p \notin S
      <4>1. /\ SumFunctionOnSet(f, s \cap S) = SumFunctionOnSet(f, c)
            /\ SumFunctionOnSet(f, s \ S) = f[p] + SumFunctionOnSet(f, d)
        BY <3>5, <3>10, <3>12, Zenon
      <4> QED
        BY <3>1, <3>4, <3>6, <3>7, <3>8, <4>1
    <3> QED
      BY <3>11, <3>12
  <2>4. CASE s = {}
    <3>1. s \cap S = {} /\ s \ S = {}
      BY <2>4
    <3>2. /\ SumFunctionOnSet(f, s) = 0 /\ SumFunctionOnSet(f, s \cap S) = 0
          /\ SumFunctionOnSet(f, s \ S) = 0
      BY <2>4, <3>1, SumEmpty, Zenon
    <3> QED
      BY <3>2
  <2> QED
    BY <2>3, <2>4
<1> HIDE DEF T
<1>3. Nat \subseteq T
  BY <1>1, <1>2, SetInduction
<1>4. Cardinality(U) \in Nat /\ U \in Small(U, Cardinality(U)) /\ U \cap S = S
  BY FS_CardinalityType DEF Small
<1> QED
  BY <1>3, <1>4 DEF T

\* Nothing but zeros sums to zero.
LEMMA SumZero ==
  ASSUME NEW f, NEW S, IsFiniteSet(S), \A y \in S : f[y] = 0
  PROVE  SumFunctionOnSet(f, S) = 0
<1> DEFINE T == {n \in Nat : \A s \in Small(S, n) : SumFunctionOnSet(f, s) = 0}
<1>1. 0 \in T
  <2>1. \A s \in Small(S, 0) : s = {}
    BY FS_Subset, FS_EmptySet, FS_CardinalityType DEF Small
  <2> QED
    BY <2>1, SumEmpty
<1>2. ASSUME NEW n \in Nat, n \in T PROVE n + 1 \in T
  <2>1. SUFFICES ASSUME NEW s \in Small(S, n + 1) PROVE SumFunctionOnSet(f, s) = 0
    BY <1>2
  <2>2. s \in SUBSET S /\ IsFiniteSet(s)
    BY FS_Subset DEF Small
  <2>3. CASE s # {}
    <3> DEFINE p == AnyOf(s)
               r == s \ {p}
    <3>1. p \in s /\ SumFunctionOnSet(f, s) = f[p] + SumFunctionOnSet(f, r)
      BY <2>2, <2>3, SumFirst
    <3>2. r \in Small(S, n)
      BY <2>2, <2>3, SmallerPart
    <3>3. SumFunctionOnSet(f, r) = 0 /\ f[p] = 0
      BY <1>2, <2>2, <3>1, <3>2
    <3> HIDE DEF p, r
    <3> QED
      BY <3>1, <3>3
  <2>4. CASE s = {}
    BY <2>4, SumEmpty
  <2> QED
    BY <2>3, <2>4
<1> HIDE DEF T
<1>3. Nat \subseteq T
  BY <1>1, <1>2, SetInduction
<1>4. Cardinality(S) \in Nat /\ S \in Small(S, Cardinality(S))
  BY FS_CardinalityType DEF Small
<1> QED
  BY <1>3, <1>4 DEF T

\* A sum may be taken over the image of an injection.
LEMMA SumImage ==
  ASSUME NEW f, NEW g, NEW S, IsFiniteSet(S), NEW b,
         \A x, y \in S : b[x] = b[y] => x = y,
         \A x \in S : f[x] \in Nat /\ g[b[x]] = f[x]
  PROVE  /\ IsFiniteSet({b[x] : x \in S})
         /\ SumFunctionOnSet(g, {b[x] : x \in S}) = SumFunctionOnSet(f, S)
<1> DEFINE Im(s) == {b[x] : x \in s}
           T == {n \in Nat : \A s \in Small(S, n) :
                   /\ IsFiniteSet(Im(s))
                   /\ SumFunctionOnSet(g, Im(s)) = SumFunctionOnSet(f, s)}
<1>1. 0 \in T
  <2>1. \A s \in Small(S, 0) : s = {} /\ Im(s) = {}
    BY FS_Subset, FS_EmptySet, FS_CardinalityType DEF Small
  <2> QED
    BY <2>1, SumEmpty, FS_EmptySet
<1>2. ASSUME NEW n \in Nat, n \in T PROVE n + 1 \in T
  <2>1. SUFFICES ASSUME NEW s \in Small(S, n + 1)
                 PROVE  /\ IsFiniteSet(Im(s))
                        /\ SumFunctionOnSet(g, Im(s)) = SumFunctionOnSet(f, s)
    BY <1>2
  <2>2. s \in SUBSET S /\ IsFiniteSet(s)
    BY FS_Subset DEF Small
  <2>3. CASE s # {}
    <3> DEFINE p == AnyOf(s)
               r == s \ {p}
    <3>1. p \in s /\ SumFunctionOnSet(f, s) = f[p] + SumFunctionOnSet(f, r)
      BY <2>2, <2>3, SumFirst
    <3>2. r \in Small(S, n) /\ IsFiniteSet(r) /\ r \subseteq S
      BY <2>2, <2>3, SmallerPart, FS_Subset
    <3>3. p \in S /\ f[p] \in Nat /\ g[b[p]] = f[p] /\ p \notin r
      BY <2>2, <3>1
    <3>4. Im(s) = Im(r) \cup {b[p]} /\ b[p] \notin Im(r)
      BY <2>2, <3>1, <3>3
    <3>5. SumFunctionOnSet(g, Im(r)) = SumFunctionOnSet(f, r)
      BY <1>2, <3>2
    <3>6. IsFiniteSet(Im(r))
      BY <1>2, <3>2
    <3>7. \A y \in Im(r) : g[y] \in Nat
      BY <3>2
    <3> DEFINE I == Im(r)
    <3> HIDE DEF r, p, I, Im
    <3>8. SumFunctionOnSet(g, I \cup {b[p]}) = g[b[p]] + SumFunctionOnSet(g, I)
      BY <3>3, <3>4, <3>6, <3>7, SumAdd DEF I
    <3>9. IsFiniteSet(I \cup {b[p]})
      BY <3>6, FS_AddElement DEF I
    <3> QED
      BY <3>1, <3>3, <3>4, <3>5, <3>8, <3>9 DEF I
  <2>4. CASE s = {}
    <3>1. Im(s) = {}
      BY <2>4
    <3> QED
      BY <2>4, <3>1, SumEmpty, FS_EmptySet
  <2> QED
    BY <2>3, <2>4
<1> HIDE DEF T
<1>3. Nat \subseteq T
  BY <1>1, <1>2, SetInduction
<1>4. Cardinality(S) \in Nat /\ S \in Small(S, Cardinality(S))
  BY FS_CardinalityType DEF Small
<1> QED
  BY <1>3, <1>4 DEF T

\* The image of a finite set is finite.
LEMMA FiniteImage ==
  ASSUME NEW S, IsFiniteSet(S), NEW b
  PROVE  IsFiniteSet({b[x] : x \in S})
<1> DEFINE f == [x \in S |-> b[x]]
           I == {b[x] : x \in S}
<1>1. f \in Surjection(S, I)
  BY DEF Surjection
<1> HIDE DEF f, I
<1>2. IsFiniteSet(I)
  BY <1>1, FS_Surjection
<1> QED
  BY <1>2 DEF I

----------------------------------------------------------------------------
(* Definitions by recursion                                                *)

\* One step of a recursion with values in X, for the numbers 1..N.
IsStep(X, N, F) == F \in [X \X (1..N) -> X]

\* f is defined from base by the steps F.
IsRecursion(X, base, N, F, f) ==
  f \in [0..N -> X] /\ f[0] = base /\ \A n \in 1..N : f[n] = F[<<f[n - 1], n>>]

\* A function on 0..N may be defined from its value at the number before.
LEMMA RecursionExists ==
  ASSUME NEW X, NEW base, base \in X, NEW N \in Nat, NEW F, IsStep(X, N, F)
  PROVE  \E f : IsRecursion(X, base, N, F, f)
<1> USE DEF IsStep
<1> DEFINE Upto(k, f) == f[0] = base /\ \A n \in 1..k : f[n] = F[<<f[n - 1], n>>]
           T == {k \in Nat : k <= N => \E f \in [0..k -> X] : Upto(k, f)}
<1>1. 0 \in T
  <2>1. [n \in 0..0 |-> base] \in [0..0 -> X] /\ Upto(0, [n \in 0..0 |-> base])
    OBVIOUS
  <2> QED
    BY <2>1
<1>2. ASSUME NEW k \in Nat, k \in T PROVE k + 1 \in T
  <2>1. SUFFICES ASSUME k + 1 <= N PROVE \E f \in [0..(k + 1) -> X] : Upto(k + 1, f)
    OBVIOUS
  <2>2. PICK f \in [0..k -> X] : Upto(k, f)
    BY <1>2, <2>1
  <2> DEFINE y == F[<<f[k], k + 1>>]
             g == [n \in 0..(k + 1) |-> IF n <= k THEN f[n] ELSE y]
  <2>3. y \in X
    <3>1. <<f[k], k + 1>> \in X \X (1..N)
      BY <2>1, <2>2
    <3> QED
      BY <3>1
  <2>4. g \in [0..(k + 1) -> X]
    BY <2>2, <2>3
  <2>5. g[0] = base
    BY <2>2
  <2>6. \A n \in 1..(k + 1) : g[n] = F[<<g[n - 1], n>>]
    <3>1. TAKE n \in 1..(k + 1)
    <3>2. n - 1 \in 0..k /\ g[n - 1] = f[n - 1]
      OBVIOUS
    <3>3. CASE n <= k
      BY <2>2, <3>2, <3>3
    <3>4. CASE n = k + 1
      <4>1. g[n] = y /\ n - 1 = k
        BY <3>4
      <4> QED
        BY <3>2, <3>4, <4>1
    <3> QED
      BY <3>3, <3>4
  <2> HIDE DEF g
  <2> QED
    BY <2>4, <2>5, <2>6
<1> HIDE DEF T
<1>3. Nat \subseteq T
  BY <1>1, <1>2, SetInduction
<1>4. N \in T /\ N <= N
  BY <1>3
<1> QED
  BY <1>4 DEF T, IsRecursion

\* P takes an element of every nonempty subset of D.
IsPicker(D, P) == \A s \in SUBSET D : s # {} => P[s] \in s

\* One step of a fold with values in X over elements of D.
IsFoldStep(X, D, F) == F \in [X \X D -> X]

\* The folds over all subsets of D, the element P picks applied last.
IsFoldTable(X, base, D, P, F, g) ==
  /\ g \in [SUBSET D -> X]
  /\ \A s \in SUBSET D : g[s] = IF s = {} THEN base ELSE F[<<g[s \ {P[s]}], P[s]>>]

\* A function on the subsets of a finite set may be defined from its value
\* without the element that P picks: so the folds of the library are defined.
LEMMA FoldTableExists ==
  ASSUME NEW X, NEW base, base \in X, NEW D, IsFiniteSet(D), NEW P, IsPicker(D, P),
         NEW F, IsFoldStep(X, D, F)
  PROVE  \E g : IsFoldTable(X, base, D, P, F, g)
<1> DEFINE Val(g, s) == IF s = {} THEN base ELSE F[<<g[s \ {P[s]}], P[s]>>]
           Ok(n, g) == g \in [Small(D, n) -> X] /\ \A s \in Small(D, n) : g[s] = Val(g, s)
           T == {n \in Nat : \E g : Ok(n, g)}
<1>1. 0 \in T
  <2>1. \A s \in Small(D, 0) : s = {}
    BY FS_Subset, FS_EmptySet, FS_CardinalityType DEF Small
  <2>2. Ok(0, [s \in Small(D, 0) |-> base])
    BY <2>1
  <2> QED
    BY <2>2
<1>2. ASSUME NEW n \in Nat, n \in T PROVE n + 1 \in T
  <2>1. PICK g : Ok(n, g)
    BY <1>2
  <2> DEFINE h == [s \in Small(D, n + 1) |-> Val(g, s)]
  <2>2. \A s \in Small(D, n + 1) : s # {} => s \ {P[s]} \in Small(D, n) /\ P[s] \in D
    <3>1. SUFFICES ASSUME NEW s \in Small(D, n + 1), s # {}
                   PROVE  s \ {P[s]} \in Small(D, n) /\ P[s] \in D
      OBVIOUS
    <3>2. IsFiniteSet(s) /\ s \in SUBSET D /\ P[s] \in s
      BY <3>1, FS_Subset DEF Small, IsPicker
    <3>3. Cardinality(s \ {P[s]}) = Cardinality(s) - 1 /\ Cardinality(s) \in Nat
      BY <3>2, FS_RemoveElement, FS_CardinalityType
    <3> QED
      BY <3>2, <3>3 DEF Small
  <2>3. \A s \in Small(D, n + 1) : Val(g, s) \in X
    <3>1. TAKE s \in Small(D, n + 1)
    <3>2. CASE s # {}
      <4>1. <<g[s \ {P[s]}], P[s]>> \in X \X D
        BY <2>1, <2>2, <3>2
      <4> QED
        BY <3>2, <4>1 DEF IsFoldStep
    <3> QED
      BY <3>2
  <2>4. Small(D, n) \subseteq Small(D, n + 1)
    BY FS_Subset, FS_CardinalityType DEF Small
  <2>5. \A s \in Small(D, n) : h[s] = g[s]
    BY <2>1, <2>4
  <2>6. \A s \in Small(D, n + 1) : Val(g, s) = Val(h, s)
    BY <2>2, <2>5
  <2>7. h \in [Small(D, n + 1) -> X] /\ \A s \in Small(D, n + 1) : h[s] = Val(g, s)
    BY <2>3
  <2> HIDE DEF h, Val
  <2>8. Ok(n + 1, h)
    BY <2>6, <2>7
  <2> QED
    BY <2>8
<1> HIDE DEF T
<1>3. Nat \subseteq T
  BY <1>1, <1>2, SetInduction
<1>4. Cardinality(D) \in T
  BY <1>3, FS_CardinalityType
<1>5. Small(D, Cardinality(D)) = SUBSET D
  BY FS_Subset DEF Small
<1>6. PICK g : Ok(Cardinality(D), g)
  BY <1>4 DEF T
<1> QED
  BY <1>5, <1>6 DEF IsFoldTable

\* The greatest element of a nonempty set 1..k.
LEMMA MaxOfPrefix ==
  ASSUME NEW k \in Nat, k > 0
  PROVE  Max(1..k) = k /\ (1..k) \ {k} = 1..(k - 1)
BY DEF Max

\* A nonempty set of positions has a greatest and a least one.
LEMMA MaxOfSet ==
  ASSUME NEW n \in Nat, NEW s \in SUBSET (1..n), s # {}
  PROVE  Max(s) \in s /\ \A i \in s : i <= Max(s)
<1> DEFINE T == {m \in Nat : \E i \in s : m = n - i}
<1>1. T \subseteq Nat /\ T # {}
  <2>1. PICK j \in s : TRUE
    OBVIOUS
  <2>2. n - j \in T
    BY <2>1
  <2> QED
    BY <2>2
<1>2. PICK m \in T : \A k \in T : m <= k
  <2> HIDE DEF T
  <2> QED
    BY <1>1, LeastNat
<1>3. PICK i \in s : m = n - i
  BY <1>2
<1>4. \A j \in s : i >= j
  <2>1. TAKE j \in s
  <2>2. n - j \in T /\ i \in 1..n /\ j \in 1..n
    OBVIOUS
  <2>3. m <= n - j
    BY <1>2, <2>2
  <2> QED
    BY <1>3, <2>2, <2>3
<1>5. \E x \in s : \A y \in s : x >= y
  BY <1>4
<1>6. Max(s) \in s /\ \A y \in s : Max(s) >= y
  BY <1>5 DEF Max
<1> QED
  BY <1>6

\* A nonempty set of positions has a least one, which Min returns.
LEMMA MinOfSet ==
  ASSUME NEW n \in Nat, NEW s \in SUBSET (1..n), s # {}
  PROVE  Min(s) \in s /\ \A i \in s : Min(s) <= i
<1>1. s \subseteq Nat
  OBVIOUS
<1>2. \E m \in s : \A k \in s : m <= k
  BY <1>1, LeastNat
<1> QED
  BY <1>2 DEF Min


----------------------------------------------------------------------------
(* Orders of a finite set                                                  *)

\* A relation that orders a set.
Orders(R, S) ==
  /\ \A x, y, z \in S : <<x, y>> \in R /\ <<y, z>> \in R => <<x, z>> \in R
  /\ \A x, y \in S : x # y => <<x, y>> \in R \/ <<y, x>> \in R

\* The greatest of a set.
Tops(m, R, U) == m \in U /\ \A x \in U \ {m} : <<x, m>> \in R

LEMMA TopExists ==
  ASSUME NEW S, IsFiniteSet(S), NEW R, Orders(R, S)
  PROVE  \A U \in SUBSET S : U # {} => \E m \in U : Tops(m, R, U)
<1> DEFINE T == {n \in Nat : \A U \in SUBSET S :
                   Cardinality(U) = n + 1 => \E m \in U : Tops(m, R, U)}
<1>1. \A U \in SUBSET S : IsFiniteSet(U) /\ Cardinality(U) \in Nat
  BY FS_Subset, FS_CardinalityType
<1>2. 0 \in T
  <2>1. SUFFICES ASSUME NEW U \in SUBSET S, Cardinality(U) = 1 PROVE \E m \in U : Tops(m, R, U)
    OBVIOUS
  <2>2. PICK m : U = {m}
    BY <1>1, <2>1, FS_Singleton
  <2> QED
    BY <2>2 DEF Tops
<1>3. ASSUME NEW n \in Nat, n \in T PROVE n + 1 \in T
  <2>1. SUFFICES ASSUME NEW U \in SUBSET S, Cardinality(U) = (n + 1) + 1
                 PROVE  \E m \in U : Tops(m, R, U)
    OBVIOUS
  <2>2. PICK u \in U : TRUE
    <3>1. U # {}
      BY <2>1, FS_EmptySet
    <3> QED
      BY <3>1
  <2> DEFINE V == U \ {u}
  <2>3. Cardinality(V) = n + 1 /\ V \in SUBSET S
    BY <1>1, <2>1, FS_RemoveElement
  <2>4. U = V \cup {u}
    OBVIOUS
  <2> HIDE DEF V
  <2>5. PICK m \in V : Tops(m, R, V)
    BY <1>3, <2>3
  <2>6. CASE u = m
    BY <2>4, <2>5, <2>6 DEF Tops
  <2>7. CASE u # m /\ <<m, u>> \in R
    <3>1. ASSUME NEW x \in U \ {u} PROVE <<x, u>> \in R
      <4>1. x \in V /\ x \in S /\ m \in S /\ u \in S
        BY <2>2, <2>3, <2>4, <3>1
      <4>2. x = m \/ <<x, m>> \in R
        BY <2>5, <4>1 DEF Tops
      <4> QED
        BY <2>7, <4>1, <4>2 DEF Orders
    <3> QED
      BY <2>2, <3>1 DEF Tops
  <2>8. CASE u # m /\ <<u, m>> \in R
    BY <2>4, <2>5, <2>8 DEF Tops
  <2>9. u \in S /\ m \in S
    BY <2>2, <2>3
  <2> QED
    BY <2>6, <2>7, <2>8, <2>9 DEF Orders
<1> HIDE DEF T
<1>4. Nat \subseteq T
  BY <1>2, <1>3, SetInduction
<1>5. ASSUME NEW U \in SUBSET S, U # {} PROVE \E m \in U : Tops(m, R, U)
  <2>1. Cardinality(U) \in Nat /\ Cardinality(U) # 0
    BY <1>1, <1>5, FS_EmptySet
  <2>2. PICK n \in Nat : Cardinality(U) = n + 1
    <3>1. Cardinality(U) - 1 \in Nat /\ Cardinality(U) = (Cardinality(U) - 1) + 1
      BY <2>1
    <3> QED
      BY <3>1
  <2> QED
    BY <1>4, <2>2 DEF T
<1> QED
  BY <1>5

\* What comes before a member of a set.
Ahead(i, R, U) == {j \in U : <<j, i>> \in R}

\* In a strict order every place has a member.
LEMMA RankExists ==
  ASSUME NEW S, IsFiniteSet(S), NEW R, Orders(R, S), \A x \in S : <<x, x>> \notin R
  PROVE  \A n \in 1..Cardinality(S) : \E i \in S : Cardinality(Ahead(i, R, S)) = n - 1
<1> DEFINE Full(U) == \A n \in 1..Cardinality(U) :
                        \E i \in U : Cardinality(Ahead(i, R, U)) = n - 1
           T == {k \in Nat : \A U \in SUBSET S : Cardinality(U) = k => Full(U)}
<1>1. \A U \in SUBSET S : IsFiniteSet(U) /\ Cardinality(U) \in Nat
  BY FS_Subset, FS_CardinalityType
<1>2. 0 \in T
  OBVIOUS
<1>3. ASSUME NEW k \in Nat, k \in T PROVE k + 1 \in T
  <2>1. SUFFICES ASSUME NEW U \in SUBSET S, Cardinality(U) = k + 1 PROVE Full(U)
    <3> HIDE DEF Full
    <3> QED
      OBVIOUS
  <2>2. U # {}
    BY <2>1, FS_EmptySet
  <2>3. PICK m \in U : Tops(m, R, U)
    BY <2>2, TopExists
  <2> DEFINE V == U \ {m}
  <2>4. Cardinality(V) = k /\ V \in SUBSET S
    <3>1. IsFiniteSet(U) /\ m \in U
      BY <1>1, <2>3
    <3>2. Cardinality(U \ {m}) = Cardinality(U) - 1
      BY <3>1, FS_RemoveElement, Zenon
    <3> QED
      BY <2>1, <3>2
  <2>5. /\ U = V \cup {m} /\ m \in S
        /\ \A x \in V : x \in S /\ <<x, m>> \in R
    BY <2>3 DEF Tops
  <2> HIDE DEF V
  <2>6. Full(V)
    <3> HIDE DEF Full
    <3> QED
      BY <1>3, <2>4
  <2>7. ASSUME NEW i \in V PROVE Ahead(i, R, U) = Ahead(i, R, V)
    <3>1. <<m, i>> \notin R
      <4>1. i \in S /\ <<i, m>> \in R /\ <<i, i>> \notin R
        BY <2>5
      <4> QED
        BY <2>5, <4>1 DEF Orders
    <3> QED
      BY <2>5, <3>1 DEF Ahead
  <2>8. Ahead(m, R, U) = V
    <3>1. <<m, m>> \notin R
      BY <2>5
    <3> QED
      BY <2>5, <3>1 DEF Ahead
  <2>9. ASSUME NEW n \in 1..(k + 1) PROVE \E i \in U : Cardinality(Ahead(i, R, U)) = n - 1
    <3>1. CASE n = k + 1
      <4>1. m \in U /\ Cardinality(Ahead(m, R, U)) = n - 1
        BY <2>4, <2>5, <2>8, <3>1
      <4> QED
        BY <4>1
    <3>2. CASE n # k + 1
      <4>1. n \in 1..Cardinality(V)
        BY <2>4, <3>2
      <4>2. PICK i \in V : Cardinality(Ahead(i, R, V)) = n - 1
        BY <2>6, <4>1
      <4> QED
        BY <2>5, <2>7, <4>2
    <3> QED
      BY <3>1, <3>2
  <2> QED
    BY <2>1, <2>9
<1> HIDE DEF T
<1>4. Nat \subseteq T
  BY <1>2, <1>3, SetInduction
<1>5. Cardinality(S) \in T
  BY <1>1, <1>4
<1> QED
  BY <1>5 DEF T

\* The member with fewer before it comes first.
LEMMA FewerIsAhead ==
  ASSUME NEW S, IsFiniteSet(S), NEW R, Orders(R, S), NEW i \in S, NEW k \in S,
         Cardinality(Ahead(i, R, S)) < Cardinality(Ahead(k, R, S))
  PROVE  <<i, k>> \in R
<1> DEFINE A == Ahead(i, R, S)
           B == Ahead(k, R, S)
<1>1. /\ IsFiniteSet(A) /\ IsFiniteSet(B)
      /\ Cardinality(A) \in Nat /\ Cardinality(B) \in Nat
  <2>1. A \in SUBSET S /\ B \in SUBSET S
    BY DEF Ahead
  <2> HIDE DEF A, B
  <2> QED
    BY <2>1, FS_Subset, FS_CardinalityType
<1>2. i # k
  BY <1>1
<1>3. ASSUME <<k, i>> \in R PROVE FALSE
  <2>1. B \in SUBSET A
    BY <1>3 DEF Ahead, Orders
  <2> HIDE DEF A, B
  <2>2. Cardinality(B) <= Cardinality(A)
    BY <1>1, <2>1, FS_Subset
  <2>3. Cardinality(A) < Cardinality(B)
    BY DEF A, B
  <2> QED
    BY <1>1, <2>2, <2>3
<1> QED
  BY <1>2, <1>3 DEF Orders
=============================================================================
