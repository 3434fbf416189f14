----------------------------- MODULE SumsProofs ------------------------------
(***************************************************************************)
(* Sums over finite sets: the recursion of the community modules' fold has *)
(* a solution, the order in which it takes elements does not matter, and a *)
(* sum is that of its parts. Each by least counterexample, over the sizes  *)
(* of the sets.                                                            *)
(***************************************************************************)
EXTENDS Sums, FiniteSetTheorems, WellFoundedInduction, TLAPS

\* What the fold of the community modules adds up, subset by subset.
Body(f, g, s) ==
  IF s = {} THEN 0
  ELSE f[CHOOSE x \in s : TRUE] + g[s \ {CHOOSE x \in s : TRUE}]

LEMMA SumUnfolds ==
  ASSUME NEW f, NEW S, NEW g, g = [s \in SUBSET S |-> Body(f, g, s)]
  PROVE  \E h : h = [s \in SUBSET S |-> Body(f, h, s)] /\ SumOver(f, S) = h[S]
<1> DEFINE it == CHOOSE h : h = [s \in SUBSET S |-> Body(f, h, s)]
<1>1. it = [s \in SUBSET S |-> Body(f, it, s)]
  OBVIOUS
<1>2. SumOver(f, S) = it[S]
  BY DEF SumOver, MapThenSumSet, MapThenFoldSet, Body
<1>3. QED
  BY <1>1, <1>2

\* Every set of finite sets has a member of least cardinality.
LEMMA Smallest ==
  ASSUME NEW T, T # {}, \A t \in T : IsFiniteSet(t)
  PROVE  \E t \in T : \A u \in T : Cardinality(t) <= Cardinality(u)
<1> DEFINE R == {ss \in Nat \X Nat : ss[1] < ss[2]}
<1>1. IsWellFoundedOn(OpToRel(<, Nat), Nat)
  BY NatLessThanWellFounded, Zenon
<1>2. IsWellFoundedOn(R, Nat)
  BY <1>1, Zenon DEF OpToRel
<1>3. \A x, y \in Nat : x < y => <<x, y>> \in R
  OBVIOUS
<1> HIDE DEF R
<1>4. PICK D : D = {Cardinality(t) : t \in T}
  OBVIOUS
<1>5. \A t \in T : Cardinality(t) \in Nat
  BY FS_CardinalityType
<1>6. D \subseteq Nat /\ D # {}
  BY <1>4, <1>5
<1>7. PICK x \in D : \A y \in D : ~(<<y, x>> \in R)
  BY <1>2, <1>6, WFMin
<1>8. PICK t \in T : x = Cardinality(t)
  BY <1>4
<1>9. \A u \in T : Cardinality(t) <= Cardinality(u)
  <2>1. SUFFICES ASSUME NEW u \in T PROVE Cardinality(t) <= Cardinality(u)
    OBVIOUS
  <2>2. Cardinality(u) \in D /\ Cardinality(u) \in Nat /\ Cardinality(t) \in Nat
    BY <1>4, <1>5
  <2>3. ~(Cardinality(u) < Cardinality(t))
    BY <1>3, <1>7, <1>8, <2>2
  <2>4. QED
    BY <2>2, <2>3
<1>10. QED
  BY <1>9

\* The sets that are smaller by one element.
LEMMA SmallerByOne ==
  ASSUME NEW s, IsFiniteSet(s), NEW x \in s
  PROVE  /\ IsFiniteSet(s \ {x}) /\ Cardinality(s) \in Nat /\ Cardinality(s \ {x}) \in Nat
         /\ Cardinality(s \ {x}) = Cardinality(s) - 1
BY FS_RemoveElement, FS_CardinalityType

\* The recursion of the fold has a solution: it is solved for the subsets up to
\* a size, and then for those that have one element more.
SolvesUpTo(f, S, n, g) ==
  \A s \in SUBSET S : Cardinality(s) <= n => g[s] = Body(f, g, s)

LEMMA SolvedOneUp ==
  ASSUME NEW f, NEW S, IsFiniteSet(S), NEW n \in Nat, NEW g, SolvesUpTo(f, S, n, g)
  PROVE  \E h : SolvesUpTo(f, S, n + 1, h)
<1> DEFINE h == [s \in SUBSET S |-> Body(f, g, s)]
<1>1. \A s \in SUBSET S : Cardinality(s) <= n => h[s] = g[s]
  BY DEF SolvesUpTo
<1>2. ASSUME NEW s \in SUBSET S, Cardinality(s) <= n + 1
      PROVE  h[s] = Body(f, h, s)
  <2>1. CASE s = {}
    BY <2>1 DEF Body
  <2>2. CASE s # {}
    <3> DEFINE x == CHOOSE y \in s : TRUE
    <3>1. x \in s
      BY <2>2
    <3>2. IsFiniteSet(s)
      BY FS_Subset
    <3>3. Cardinality(s \ {x}) <= n
      <4>1. Cardinality(s) \in Nat /\ Cardinality(s \ {x}) = Cardinality(s) - 1
        BY <3>1, <3>2, SmallerByOne
      <4>2. QED
        BY <1>2, <4>1
    <3>4. h[s \ {x}] = g[s \ {x}] /\ s \ {x} \in SUBSET S
      BY <1>1, <3>3
    <3>5. Body(f, g, s) = f[x] + g[s \ {x}] /\ Body(f, h, s) = f[x] + h[s \ {x}]
      BY <2>2 DEF Body
    <3>6. h[s] = Body(f, g, s)
      OBVIOUS
    <3>7. QED
      BY <3>4, <3>5, <3>6
  <2>3. QED
    BY <2>1, <2>2
<1>3. SolvesUpTo(f, S, n + 1, h)
  BY <1>2 DEF SolvesUpTo
<1>4. QED
  BY <1>3

LEMMA NatLeast ==
  ASSUME NEW N \in SUBSET Nat, N # {}
  PROVE  \E n \in N : \A m \in N : n <= m
<1> DEFINE R == {ss \in Nat \X Nat : ss[1] < ss[2]}
<1>1. IsWellFoundedOn(OpToRel(<, Nat), Nat)
  BY NatLessThanWellFounded, Zenon
<1>2. IsWellFoundedOn(R, Nat)
  BY <1>1, Zenon DEF OpToRel
<1>3. \A x, y \in Nat : x < y => <<x, y>> \in R
  OBVIOUS
<1> HIDE DEF R
<1>4. PICK n \in N : \A m \in N : ~(<<m, n>> \in R)
  BY <1>2, WFMin
<1>5. ASSUME NEW m \in N PROVE n <= m
  <2>1. n \in Nat /\ m \in Nat
    OBVIOUS
  <2>2. ~(m < n)
    BY <1>3, <1>4, <2>1
  <2>3. QED
    BY <2>1, <2>2
<1>6. QED
  BY <1>5

LEMMA SolutionExists ==
  ASSUME NEW f, NEW S, IsFiniteSet(S)
  PROVE  \E g : g = [s \in SUBSET S |-> Body(f, g, s)]
<1> DEFINE Unsolved == {n \in Nat : ~\E g : SolvesUpTo(f, S, n, g)}
<1>1. Unsolved = {}
  <2> SUFFICES ASSUME Unsolved # {} PROVE FALSE
    OBVIOUS
  <2>1. PICK n \in Unsolved : \A m \in Unsolved : n <= m
    <3>1. Unsolved \in SUBSET Nat /\ Unsolved # {}
      OBVIOUS
    <3> HIDE DEF Unsolved
    <3>2. QED
      BY <3>1, NatLeast
  <2>2. CASE n = 0
    <3> DEFINE g == [s \in SUBSET S |-> 0]
    <3>1. ASSUME NEW s \in SUBSET S, Cardinality(s) <= 0 PROVE g[s] = Body(f, g, s)
      <4>1. IsFiniteSet(s) /\ Cardinality(s) \in Nat
        BY FS_Subset, FS_CardinalityType
      <4>2. s = {}
        BY <3>1, <4>1, FS_EmptySet
      <4>3. QED
        BY <4>2 DEF Body
    <3>2. SolvesUpTo(f, S, 0, g)
      BY <3>1 DEF SolvesUpTo
    <3>3. QED
      BY <2>2, <3>2
  <2>3. CASE n # 0
    <3>1. n - 1 \in Nat /\ (n - 1) + 1 = n
      BY <2>3
    <3>2. n - 1 \notin Unsolved
      BY <2>1, <3>1
    <3>3. PICK g : SolvesUpTo(f, S, n - 1, g)
      BY <3>1, <3>2
    <3>4. \E h : SolvesUpTo(f, S, (n - 1) + 1, h)
      BY <3>1, <3>3, SolvedOneUp
    <3>5. QED
      BY <3>1, <3>4
  <2>4. QED
    BY <2>2, <2>3
<1>2. Cardinality(S) \in Nat
  BY FS_CardinalityType
<1>3. PICK g : SolvesUpTo(f, S, Cardinality(S), g)
  BY <1>1, <1>2
<1> DEFINE h == [s \in SUBSET S |-> g[s]]
<1>4. ASSUME NEW s \in SUBSET S PROVE h[s] = Body(f, h, s)
  <2>1. Cardinality(s) <= Cardinality(S)
    BY FS_Subset
  <2>2. g[s] = Body(f, g, s)
    BY <1>3, <2>1 DEF SolvesUpTo
  <2>3. Body(f, g, s) = Body(f, h, s)
    <3>1. CASE s = {}
      BY <3>1 DEF Body
    <3>2. CASE s # {}
      <4> DEFINE x == CHOOSE y \in s : TRUE
      <4>1. s \ {x} \in SUBSET S
        OBVIOUS
      <4>2. g[s \ {x}] = h[s \ {x}]
        BY <4>1
      <4>3. QED
        BY <3>2, <4>2 DEF Body
    <3>3. QED
      BY <3>1, <3>2
  <2>4. QED
    BY <2>2, <2>3
<1>5. h = [s \in SUBSET S |-> Body(f, h, s)]
  <2>1. h = [s \in SUBSET S |-> h[s]]
    OBVIOUS
  <2>2. [s \in SUBSET S |-> h[s]] = [s \in SUBSET S |-> Body(f, h, s)]
    BY <1>4
  <2>3. QED
    BY <2>1, <2>2
<1>6. QED
  BY <1>5

LEMMA SumIsSolution ==
  ASSUME NEW f, NEW S, IsFiniteSet(S)
  PROVE  \E h : /\ \A s \in SUBSET S : h[s] = Body(f, h, s)
                /\ SumOver(f, S) = h[S]
<1>1. PICK g : g = [s \in SUBSET S |-> Body(f, g, s)]
  BY SolutionExists
<1>2. PICK h : h = [s \in SUBSET S |-> Body(f, h, s)] /\ SumOver(f, S) = h[S]
  BY <1>1, SumUnfolds
<1>3. \A s \in SUBSET S : h[s] = Body(f, h, s)
  <2> SUFFICES ASSUME NEW s \in SUBSET S PROVE h[s] = Body(f, h, s)
    OBVIOUS
  <2> DEFINE k == [u \in SUBSET S |-> Body(f, h, u)]
  <2>1. k[s] = Body(f, h, s)
    OBVIOUS
  <2>2. h[s] = k[s]
    BY <1>2
  <2>3. QED
    BY <2>1, <2>2
<1>4. QED
  BY <1>2, <1>3

Solution(f, S, h) == \A s \in SUBSET S : h[s] = Body(f, h, s)

\* Two sums agree where what they add up agrees.
LEMMA SolutionsAgree ==
  ASSUME NEW f, NEW S, NEW h, Solution(f, S, h),
         NEW g, NEW T, NEW k, Solution(g, T, k),
         NEW U, IsFiniteSet(U), U \subseteq S, U \subseteq T,
         \A x \in U : f[x] = g[x]
  PROVE  h[U] = k[U]
<1> DEFINE Bad == {s \in SUBSET U : h[s] # k[s]}
<1> SUFFICES ASSUME Bad # {} PROVE FALSE
  OBVIOUS
<1>1. \A s \in Bad : IsFiniteSet(s)
  BY FS_Subset
<1>2. PICK s \in Bad : \A u \in Bad : Cardinality(s) <= Cardinality(u)
  <2> HIDE DEF Bad
  <2> QED
    BY <1>1, Smallest
<1>3. h[s] = Body(f, h, s) /\ k[s] = Body(g, k, s)
  BY DEF Solution
<1>4. s # {}
  BY <1>3 DEF Body
<1> DEFINE x == CHOOSE y \in s : TRUE
<1>5. x \in s /\ x \in U
  BY <1>4
<1>6. s \ {x} \notin Bad
  <2>1. IsFiniteSet(s)
    BY <1>1
  <2>2. Cardinality(s \ {x}) = Cardinality(s) - 1 /\ Cardinality(s) \in Nat
    BY <1>5, <2>1, SmallerByOne
  <2>3. ~(Cardinality(s) <= Cardinality(s \ {x}))
    BY <2>2
  <2>4. QED
    BY <1>2, <2>3
<1>7. h[s \ {x}] = k[s \ {x}]
  BY <1>6
<1>8. h[s] = f[x] + h[s \ {x}] /\ k[s] = g[x] + k[s \ {x}]
  BY <1>3, <1>4 DEF Body
<1>9. f[x] = g[x]
  BY <1>5
<1>10. QED
  BY <1>7, <1>8, <1>9

\* Any element may be taken out first.
LEMMA AnyOrder ==
  ASSUME NEW f, NEW S, IsFiniteSet(S), \A x \in S : f[x] \in Int,
         NEW h, Solution(f, S, h)
  PROVE  \A s \in SUBSET S : h[s] \in Int /\ \A x \in s : h[s] = f[x] + h[s \ {x}]
<1> DEFINE Good(s) == h[s] \in Int /\ \A x \in s : h[s] = f[x] + h[s \ {x}]
<1> DEFINE Bad == {s \in SUBSET S : ~Good(s)}
<1> SUFFICES ASSUME Bad # {} PROVE FALSE
  OBVIOUS
<1>1. \A s \in Bad : IsFiniteSet(s)
  BY FS_Subset
<1>2. PICK s \in Bad : \A u \in Bad : Cardinality(s) <= Cardinality(u)
  <2> HIDE DEF Bad
  <2> QED
    BY <1>1, Smallest
<1>3. h[s] = Body(f, h, s)
  BY DEF Solution
<1>4. s # {}
  BY <1>3 DEF Body
<1> DEFINE c == CHOOSE y \in s : TRUE
<1>5. c \in s /\ s \in SUBSET S /\ f[c] \in Int
  BY <1>4
<1>6. h[s] = f[c] + h[s \ {c}]
  BY <1>3, <1>4 DEF Body
<1>7. ASSUME NEW x \in s PROVE s \ {x} \in SUBSET S /\ Good(s \ {x}) /\ f[x] \in Int
  <2>1. Cardinality(s \ {x}) = Cardinality(s) - 1 /\ Cardinality(s) \in Nat
    BY <1>1, SmallerByOne
  <2>2. s \ {x} \notin Bad
    <3>1. ~(Cardinality(s) <= Cardinality(s \ {x}))
      BY <2>1
    <3>2. QED
      BY <1>2, <3>1
  <2>3. s \ {x} \in SUBSET S /\ f[x] \in Int
    OBVIOUS
  <2>4. QED
    BY <2>2, <2>3
<1>8. h[s] \in Int
  <2>1. h[s \ {c}] \in Int
    BY <1>5, <1>7
  <2>2. QED
    BY <1>5, <1>6, <2>1
<1>9. ASSUME NEW x \in s PROVE h[s] = f[x] + h[s \ {x}]
  <2>1. CASE x = c
    BY <1>6, <2>1
  <2>2. CASE x # c
    <3>1. (s \ {c}) \ {x} = (s \ {x}) \ {c}
      OBVIOUS
    <3>2. x \in s \ {c} /\ c \in s \ {x}
      BY <1>5, <2>2
    <3>3. h[s \ {c}] = f[x] + h[(s \ {c}) \ {x}]
      BY <1>5, <1>7, <3>2
    <3>4. h[s \ {x}] = f[c] + h[(s \ {x}) \ {c}]
      BY <1>7, <3>2
    <3>5. /\ h[s \ {c}] \in Int /\ h[s \ {x}] \in Int /\ f[x] \in Int /\ f[c] \in Int
          /\ h[(s \ {c}) \ {x}] \in Int
      <4>1. s \ {c} \in SUBSET S /\ Good(s \ {c}) /\ Good(s \ {x}) /\ f[x] \in Int
        BY <1>5, <1>7
      <4>2. Good((s \ {c}) \ {x})
        <5> DEFINE u == (s \ {c}) \ {x}
        <5>1. IsFiniteSet(s) /\ IsFiniteSet(s \ {c})
          BY <1>1, <1>5, SmallerByOne
        <5>2. Cardinality(s \ {c}) = Cardinality(s) - 1 /\ Cardinality(s) \in Nat
          BY <1>5, <5>1, SmallerByOne
        <5>3. Cardinality(u) = Cardinality(s \ {c}) - 1
          BY <3>2, <5>1, SmallerByOne
        <5>4. u \notin Bad
          BY <1>2, <5>2, <5>3
        <5>5. u \in SUBSET S
          OBVIOUS
        <5>6. QED
          BY <5>4, <5>5
      <4>3. QED
        BY <1>5, <4>1, <4>2
    <3>6. PICK a \in Int, b \in Int, d \in Int :
            a = f[x] /\ b = f[c] /\ d = h[(s \ {c}) \ {x}]
      BY <3>5
    <3>7. h[s \ {x}] = b + d /\ h[s] = b + (a + d)
      BY <1>6, <3>1, <3>3, <3>4, <3>6
    <3>8. QED
      BY <3>6, <3>7
  <2>3. QED
    BY <2>1, <2>2
<1>10. Good(s)
  BY <1>8, <1>9
<1>11. QED
  BY <1>10

LEMMA TakeOut ==
  ASSUME NEW f, NEW S, IsFiniteSet(S), \A x \in S : f[x] \in Int,
         NEW h, Solution(f, S, h), NEW x \in S
  PROVE  h[S] = f[x] + h[S \ {x}]
<1>1. S \in SUBSET S
  OBVIOUS
<1>2. QED
  BY <1>1, AnyOrder

LEMMA SumOfNone == ASSUME NEW f PROVE SumOver(f, {}) = 0
<1>1. IsFiniteSet({})
  BY FS_EmptySet
<1>2. PICK h : (\A s \in SUBSET {} : h[s] = Body(f, h, s)) /\ SumOver(f, {}) = h[{}]
  BY <1>1, SumIsSolution
<1>3. h[{}] = Body(f, h, {})
  BY <1>2
<1>4. QED
  BY <1>2, <1>3 DEF Body

\* A sum is that of what it adds up.
LEMMA SumOfSame ==
  ASSUME NEW f, NEW g, NEW S, IsFiniteSet(S), \A x \in S : f[x] = g[x]
  PROVE  SumOver(f, S) = SumOver(g, S)
<1>1. PICK h : Solution(f, S, h) /\ SumOver(f, S) = h[S]
  BY SumIsSolution DEF Solution
<1>2. PICK k : Solution(g, S, k) /\ SumOver(g, S) = k[S]
  BY SumIsSolution DEF Solution
<1>3. h[S] = k[S]
  BY <1>1, <1>2, SolutionsAgree
<1>4. QED
  BY <1>1, <1>2, <1>3

LEMMA SumOfInts ==
  ASSUME NEW f, NEW S, IsFiniteSet(S), \A x \in S : f[x] \in Int
  PROVE  SumOver(f, S) \in Int
<1>1. PICK h : Solution(f, S, h) /\ SumOver(f, S) = h[S]
  BY SumIsSolution DEF Solution
<1>2. S \in SUBSET S
  OBVIOUS
<1>3. QED
  BY <1>1, <1>2, AnyOrder

\* One more.
LEMMA SumOfOneMore ==
  ASSUME NEW f, NEW S, IsFiniteSet(S), NEW x, x \notin S,
         \A y \in S \cup {x} : f[y] \in Int
  PROVE  SumOver(f, S \cup {x}) = SumOver(f, S) + f[x]
<1> DEFINE T == S \cup {x}
<1>1. IsFiniteSet(T)
  BY FS_AddElement
<1>2. PICK h : Solution(f, S, h) /\ SumOver(f, S) = h[S]
  BY SumIsSolution DEF Solution
<1>3. PICK k : Solution(f, T, k) /\ SumOver(f, T) = k[T]
  <2> HIDE DEF T
  <2> QED
    BY <1>1, SumIsSolution DEF Solution
<1>4. h[S] = k[S]
  <2>1. S \subseteq T
    OBVIOUS
  <2> HIDE DEF T
  <2>2. QED
    BY <1>2, <1>3, <2>1, SolutionsAgree
<1>5. k[T] = f[x] + k[T \ {x}]
  <2>1. T \in SUBSET T /\ x \in T /\ \A y \in T : f[y] \in Int
    OBVIOUS
  <2> HIDE DEF T
  <2>2. \A y \in T : f[y] \in Int
    BY <2>1
  <2>3. Solution(f, T, k)
    BY <1>3
  <2>4. QED
    BY <1>1, <2>1, <2>2, <2>3, TakeOut
<1>6. T \ {x} = S
  OBVIOUS
<1>7. PICK a \in Int, b \in Int : a = SumOver(f, S) /\ b = f[x]
  <2>1. SumOver(f, S) \in Int
    BY SumOfInts
  <2>2. QED
    BY <2>1
<1>8. k[T \ {x}] = a
  BY <1>2, <1>4, <1>6, <1>7
<1>9. SumOver(f, T) = b + a
  BY <1>3, <1>5, <1>7, <1>8
<1>10. QED
  BY <1>7, <1>9

LEMMA SumOfNats ==
  ASSUME NEW f, NEW S, IsFiniteSet(S), \A x \in S : f[x] \in Nat
  PROVE  SumOver(f, S) \in Nat
<1> DEFINE Bad == {U \in SUBSET S : SumOver(f, U) \notin Nat}
<1> SUFFICES ASSUME Bad # {} PROVE FALSE
  OBVIOUS
<1>1. \A U \in Bad : IsFiniteSet(U)
  BY FS_Subset
<1>2. PICK U \in Bad : \A V \in Bad : Cardinality(U) <= Cardinality(V)
  <2> HIDE DEF Bad
  <2> QED
    BY <1>1, Smallest
<1>3. U # {}
  BY SumOfNone
<1>4. PICK x \in U : TRUE
  BY <1>3
<1>5. PICK V : V = U \ {x}
  OBVIOUS
<1>6. V \in SUBSET S /\ x \notin V /\ U = V \cup {x} /\ IsFiniteSet(V)
  BY <1>1, <1>5, SmallerByOne
<1>7. Cardinality(V) = Cardinality(U) - 1 /\ Cardinality(U) \in Nat
  BY <1>1, <1>5, SmallerByOne
<1>8. SumOver(f, V) \in Nat
  <2>1. ~(Cardinality(U) <= Cardinality(V))
    BY <1>7
  <2>2. QED
    BY <1>2, <1>6, <2>1
<1>9. SumOver(f, V \cup {x}) = SumOver(f, V) + f[x]
  <2>1. \A z \in V \cup {x} : f[z] \in Int
    BY <1>6
  <2>2. QED
    BY <1>6, <2>1, SumOfOneMore
<1>10. SumOver(f, U) \in Nat
  BY <1>6, <1>8, <1>9
<1>11. QED
  BY <1>10

LEMMA SumOfOne == ASSUME NEW f, NEW x, f[x] \in Int PROVE SumOver(f, {x}) = f[x]
<1>1. IsFiniteSet({}) /\ x \notin {} /\ {} \cup {x} = {x} /\ \A y \in {} \cup {x} : f[y] \in Int
  BY FS_EmptySet
<1>2. SumOver(f, {} \cup {x}) = SumOver(f, {}) + f[x]
  BY <1>1, SumOfOneMore
<1>3. QED
  BY <1>1, <1>2, SumOfNone

\* The sum over a set is that over its parts.
LEMMA SumOfParts ==
  ASSUME NEW f, NEW S, IsFiniteSet(S), \A x \in S : f[x] \in Int, NEW T \in SUBSET S
  PROVE  SumOver(f, S) = SumOver(f, S \ T) + SumOver(f, T)
<1> DEFINE Wrong(U) == SumOver(f, S) # SumOver(f, S \ U) + SumOver(f, U)
           Odd      == {U \in SUBSET S : Wrong(U)}
<1> SUFFICES ASSUME Odd # {} PROVE FALSE
  OBVIOUS
<1>1. \A U \in SUBSET S : IsFiniteSet(U) /\ Cardinality(U) \in Nat
  BY FS_Subset, FS_CardinalityType
<1>2. PICK U \in Odd : \A V \in Odd : Cardinality(U) <= Cardinality(V)
  <2>1. Odd # {} /\ \A V \in Odd : IsFiniteSet(V)
    BY <1>1
  <2> HIDE DEF Odd
  <2>2. QED
    BY <2>1, Smallest
<1>3. U \in SUBSET S /\ SumOver(f, S) # SumOver(f, S \ U) + SumOver(f, U)
  BY <1>2
<1> HIDE DEF Wrong
<1>i. \A V \in SUBSET S : SumOver(f, V) \in Int
  <2>1. ASSUME NEW V \in SUBSET S PROVE SumOver(f, V) \in Int
    <3>1. IsFiniteSet(V) /\ \A x \in V : f[x] \in Int
      BY <1>1
    <3>2. QED
      BY <3>1, SumOfInts
  <2>2. QED
    BY <2>1
<1>4. CASE U = {}
  <2>1. S \ U = S /\ SumOver(f, U) = 0 /\ SumOver(f, S) \in Int
    BY <1>4, <1>i, SumOfNone
  <2>2. SumOver(f, S \ U) = SumOver(f, S)
    BY <2>1
  <2>3. QED
    BY <1>3, <2>1, <2>2
<1>5. CASE U # {}
  <2>1. PICK x \in U : TRUE
    BY <1>5
  <2> PICK V, W : V = U \ {x} /\ W = S \ U
    OBVIOUS
  <2>2. V \in SUBSET S /\ x \notin V /\ U = V \cup {x} /\ x \in S
    BY <1>3, <2>1
  <2>3. W \in SUBSET S /\ x \notin W /\ S \ V = W \cup {x}
    BY <1>3, <2>1, <2>2
  <2>4. Cardinality(V) = Cardinality(U) - 1 /\ Cardinality(U) \in Nat
    BY <1>1, <1>3, <2>1, <2>2, SmallerByOne
  <2>5. V \notin Odd
    BY <1>2, <2>4
  <2>6. SumOver(f, S) = SumOver(f, S \ V) + SumOver(f, V)
    BY <2>2, <2>5 DEF Wrong
  <2>7. IsFiniteSet(V) /\ IsFiniteSet(W) /\ f[x] \in Int
    BY <1>1, <2>2, <2>3
  <2>8. SumOver(f, V \cup {x}) = SumOver(f, V) + f[x]
    <3>1. \A z \in V \cup {x} : f[z] \in Int
      BY <2>2
    <3>2. QED
      BY <2>2, <2>7, <3>1, SumOfOneMore
  <2>9. SumOver(f, W \cup {x}) = SumOver(f, W) + f[x]
    <3>1. \A z \in W \cup {x} : f[z] \in Int
      BY <2>2, <2>3
    <3>2. QED
      BY <2>3, <2>7, <3>1, SumOfOneMore
  <2>10. PICK v \in Int, w \in Int, e \in Int :
           v = SumOver(f, V) /\ w = SumOver(f, W) /\ e = f[x]
    BY <1>i, <2>2, <2>3, <2>7
  <2>11. /\ SumOver(f, S \ V) = w + e /\ SumOver(f, U) = v + e
         /\ SumOver(f, S) = (w + e) + v /\ SumOver(f, S \ U) = w
    BY <2>2, <2>3, <2>6, <2>8, <2>9, <2>10
  <2>12. QED
    BY <1>3, <2>10, <2>11
<1>6. QED
  BY <1>4, <1>5
=============================================================================
