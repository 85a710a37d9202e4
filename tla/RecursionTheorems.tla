-------------------------- MODULE RecursionTheorems --------------------------
(***************************************************************************)
(* Induction and recursion for the proofs of this project, stated of sets  *)
(* and functions: a property is the set of the numbers that have it, and   *)
(* the step of a recursion is a function.                                  *)
(*                                                                         *)
(* A recursive function denotes the value chosen among those that satisfy  *)
(* its equation, so a proof about one needs to know that there is one.     *)
(***************************************************************************)
EXTENDS Integers, FiniteSets, FiniteSetTheorems, WellFoundedInduction, Functions, TLAPS

\* A set of natural numbers has a least one.
LEMMA LeastNatural ==
    ASSUME NEW T, T \subseteq Nat, T # {}
    PROVE  \E x \in T : \A y \in T : x <= y
<1>1. IsWellFoundedOn(OpToRel(<, Nat), Nat)
  BY NatLessThanWellFounded
<1>2. PICK x \in T : \A y \in T : ~ (<<y, x>> \in OpToRel(<, Nat))
  BY <1>1, WFMin, Zenon
<1>3. ASSUME NEW y \in T PROVE x <= y
  <2>1. <<y, x>> \in Nat \X Nat
    OBVIOUS
  <2>2. ~ (y < x)
    BY <1>2, <2>1 DEF OpToRel
  <2> QED BY <2>2
<1> QED BY <1>3

\* Induction up to n: S is the set of the numbers that have the property.
LEMMA InductionUpTo ==
    ASSUME NEW n \in Nat, NEW S, 0 \in S, \A i \in 0..n : i < n /\ i \in S => i + 1 \in S
    PROVE  \A i \in 0..n : i \in S
<1> DEFINE bad == {i \in 0..n : i \notin S}
<1> SUFFICES ASSUME bad # {} PROVE FALSE
  OBVIOUS
<1>1. bad \subseteq Nat
  OBVIOUS
<1> HIDE DEF bad
<1>2. PICK x \in bad : \A y \in bad : x <= y
  BY <1>1, LeastNatural
<1> USE DEF bad
<1>3. x \in 0..n /\ x \notin S /\ x # 0
  BY <1>2
<1>4. x - 1 \in S
  BY <1>2, <1>3
<1> QED BY <1>3, <1>4

\* g is the function on 0..n with this value at 0 and these steps.
Iterates(g, n, T, base, h) ==
    /\ g \in [0..n -> T]
    /\ g[0] = base
    /\ \A i \in 1..n : g[i] = h[i][g[i - 1]]

\* There is one.
LEMMA RecursionUpTo ==
    ASSUME NEW n \in Nat, NEW T, NEW base \in T, NEW h \in [1..n -> [T -> T]]
    PROVE  \E g : Iterates(g, n, T, base, h)
<1> DEFINE S == {k \in 0..n : \E g : Iterates(g, k, T, base, h)}
<1>1. 0 \in S
  <2> DEFINE g == [i \in 0..0 |-> base]
  <2>1. Iterates(g, 0, T, base, h)
    BY DEF Iterates
  <2> QED BY <2>1
<1>2. ASSUME NEW k \in 0..n, k < n, k \in S PROVE k + 1 \in S
  <2>1. PICK g : Iterates(g, k, T, base, h)
    BY <1>2
  <2> DEFINE e == [i \in 0..(k + 1) |-> IF i = k + 1 THEN h[k + 1][g[k]] ELSE g[i]]
  <2>2. h[k + 1][g[k]] \in T
    <3>1. h[k + 1] \in [T -> T] /\ g[k] \in T
      BY <1>2, <2>1 DEF Iterates
    <3> QED BY <3>1
  <2>3. e \in [0..(k + 1) -> T]
    BY <2>1, <2>2 DEF Iterates
  <2>4. e[0] = base
    BY <2>1 DEF Iterates
  <2>5. ASSUME NEW i \in 1..(k + 1) PROVE e[i] = h[i][e[i - 1]]
    <3>1. CASE i = k + 1
      BY <3>1
    <3>2. CASE i # k + 1
      BY <2>1, <3>2 DEF Iterates
    <3> QED BY <3>1, <3>2
  <2> HIDE DEF e
  <2>6. Iterates(e, k + 1, T, base, h)
    BY <2>3, <2>4, <2>5 DEF Iterates
  <2> QED BY <1>2, <2>6
<1> HIDE DEF S
<1>3. n \in S
  <2>1. \A i \in 0..n : i < n /\ i \in S => i + 1 \in S
    BY <1>2
  <2>2. \A i \in 0..n : i \in S
    BY <1>1, <2>1, InductionUpTo
  <2> QED BY <2>2
<1> QED BY <1>3 DEF S

\* A function on 0..n that starts in T, and whose steps from T are those of h,
\* stays in T.
LEMMA RecursionType ==
    ASSUME NEW n \in Nat, NEW T, NEW h \in [1..n -> [T -> T]], NEW f,
           f[0] \in T, \A i \in 1..n : f[i - 1] \in T => f[i] = h[i][f[i - 1]]
    PROVE  \A i \in 0..n : f[i] \in T
<1> DEFINE S == {k \in 0..n : f[k] \in T}
<1>1. 0 \in S
  OBVIOUS
<1>2. ASSUME NEW k \in 0..n, k < n, k \in S PROVE k + 1 \in S
  <2>1. k + 1 \in 1..n /\ (k + 1) - 1 = k /\ f[k] \in T
    BY <1>2
  <2>2. f[k + 1] = h[k + 1][f[k]] /\ h[k + 1] \in [T -> T]
    BY <2>1
  <2> QED BY <1>2, <2>1, <2>2
<1> HIDE DEF S
<1>3. \A i \in 0..n : i < n /\ i \in S => i + 1 \in S
  BY <1>2
<1>4. \A i \in 0..n : i \in S
  BY <1>1, <1>3, InductionUpTo
<1> QED BY <1>4 DEF S

\* What satisfies the equations of g is g.
LEMMA RecursionUnique ==
    ASSUME NEW n \in Nat, NEW T, NEW base, NEW h, NEW g, Iterates(g, n, T, base, h),
           NEW f, f[0] = base, \A i \in 1..n : f[i - 1] \in T => f[i] = h[i][f[i - 1]]
    PROVE  \A i \in 0..n : f[i] = g[i]
<1> DEFINE S == {k \in 0..n : f[k] = g[k]}
<1>1. 0 \in S
  BY DEF Iterates
<1>2. ASSUME NEW k \in 0..n, k < n, k \in S PROVE k + 1 \in S
  <2>1. k + 1 \in 1..n /\ (k + 1) - 1 = k /\ f[k] = g[k]
    BY <1>2
  <2>2. g[k] \in T /\ g[k + 1] = h[k + 1][g[k]]
    BY <1>2, <2>1 DEF Iterates
  <2>3. f[k + 1] = g[k + 1]
    BY <2>1, <2>2
  <2> QED BY <1>2, <2>1, <2>3
<1> HIDE DEF S
<1>3. \A i \in 0..n : i < n /\ i \in S => i + 1 \in S
  BY <1>2
<1>4. \A i \in 0..n : i \in S
  BY <1>1, <1>3, InductionUpTo
<1> QED BY <1>4 DEF S

\* One step more.
LEMMA RecursionStep ==
    ASSUME NEW n \in Nat, NEW T, NEW base,
           NEW h, NEW g, Iterates(g, n, T, base, h),
           NEW k, NEW e, Iterates(e, n + 1, T, base, k), \A i \in 1..n : k[i] = h[i]
    PROVE  e[n + 1] = k[n + 1][g[n]] /\ g[n] \in T
<1>1. /\ e[0] = base
      /\ \A i \in 1..n : e[i] = h[i][e[i - 1]]
  BY DEF Iterates
<1>2. \A i \in 0..n : e[i] = g[i]
  BY <1>1, RecursionUnique
<1>3. e[n + 1] = k[n + 1][e[n]] /\ g[n] \in T
  BY DEF Iterates
<1> QED BY <1>2, <1>3

-----------------------------------------------------------------------------
(* Sums over a finite set *)

First(s) == CHOOSE x \in s : TRUE

\* g sums f over every part of S.
IsSum(g, f, S) ==
    g = [s \in SUBSET S |-> IF s = {} THEN 0 ELSE f[First(s)] + g[s \ {First(s)}]]

LEMMA FirstOfPart ==
    ASSUME NEW S, IsFiniteSet(S), NEW s \in SUBSET S, s # {}
    PROVE  /\ First(s) \in s /\ s \ {First(s)} \in SUBSET S
           /\ Cardinality(s) \in Nat \ {0}
           /\ Cardinality(s \ {First(s)}) = Cardinality(s) - 1
<1>1. First(s) \in s
  BY DEF First
<1>2. IsFiniteSet(s)
  BY FS_Subset
<1>3. Cardinality(s) \in Nat /\ Cardinality(s \ {First(s)}) = Cardinality(s) - 1
  BY <1>1, <1>2, FS_RemoveElement, FS_CardinalityType
<1>4. Cardinality(s) # 0
  BY <1>2, FS_EmptySet
<1> QED BY <1>1, <1>3, <1>4

\* There is such a function: the functions that sum f over the parts of at most
\* k elements agree from k on.
LEMMA SumExists ==
    ASSUME NEW S, IsFiniteSet(S), NEW f \in [S -> Int]
    PROVE  \E g \in [SUBSET S -> Int] : IsSum(g, f, S)
<1> DEFINE T == [SUBSET S -> Int]
           Step(G) == [s \in SUBSET S |-> IF s = {} THEN 0 ELSE f[First(s)] + G[s \ {First(s)}]]
           n == Cardinality(S)
           base == [s \in SUBSET S |-> 0]
           h == [i \in 1..(n + 1) |-> [G \in T |-> Step(G)]]
<1>1. n \in Nat /\ n + 1 \in Nat
  BY FS_CardinalityType
<1>2. ASSUME NEW G \in T PROVE Step(G) \in T
  <2>1. ASSUME NEW s \in SUBSET S, s # {} PROVE f[First(s)] + G[s \ {First(s)}] \in Int
    <3>1. First(s) \in S /\ s \ {First(s)} \in SUBSET S
      BY <2>1, FirstOfPart
    <3>2. f[First(s)] \in Int /\ G[s \ {First(s)}] \in Int
      BY <1>2, <3>1
    <3> QED BY <3>2
  <2> QED BY <2>1
<1>3. base \in T
  OBVIOUS
<1>4. h \in [1..(n + 1) -> [T -> T]]
  BY <1>2
<1> HIDE DEF T, base, h, n
<1>5. PICK G : Iterates(G, n + 1, T, base, h)
  BY <1>1, <1>3, <1>4, RecursionUpTo
<1>a. G \in [0..(n + 1) -> T]
  BY <1>5 DEF Iterates
<1>6. G[0] = base /\ \A i \in 1..(n + 1) : G[i] = Step(G[i - 1])
  <2> SUFFICES ASSUME NEW i \in 1..(n + 1) PROVE G[i] = Step(G[i - 1])
    BY <1>5 DEF Iterates
  <2>1. i - 1 \in 0..(n + 1)
    BY <1>1
  <2>2. G[i - 1] \in T /\ G[i] = h[i][G[i - 1]]
    BY <1>5, <2>1 DEF Iterates
  <2> HIDE DEF Step
  <2> QED BY <2>2 DEF h
<1> DEFINE A == {k \in 0..n : \A s \in SUBSET S : Cardinality(s) <= k => G[k + 1][s] = G[k][s]}
<1>7. 0 \in A
  <2>1. ASSUME NEW s \in SUBSET S, Cardinality(s) <= 0 PROVE G[0 + 1][s] = G[0][s]
    <3>1. s = {}
      <4>1. s # {} => Cardinality(s) \in Nat \ {0}
        BY FirstOfPart
      <4> QED BY <2>1, <4>1
    <3>2. G[1][s] = 0
      <4>1. 1 \in 1..(n + 1)
        BY <1>1
      <4>2. G[1] = Step(G[1 - 1])
        BY <1>6, <4>1
      <4> QED BY <3>1, <4>2
    <3> QED BY <1>6, <3>2 DEF base
  <2> QED BY <1>1, <2>1
<1>8. ASSUME NEW k \in 0..n, k < n, k \in A PROVE k + 1 \in A
  <2>1. ASSUME NEW s \in SUBSET S, Cardinality(s) <= k + 1
        PROVE  G[(k + 1) + 1][s] = G[k + 1][s]
    <3>1. G[(k + 1) + 1] = Step(G[k + 1]) /\ G[k + 1] = Step(G[k])
      <4>1. (k + 1) + 1 \in 1..(n + 1) /\ ((k + 1) + 1) - 1 = k + 1
            /\ k + 1 \in 1..(n + 1) /\ (k + 1) - 1 = k
        BY <1>1, <1>8
      <4> HIDE DEF Step
      <4> QED BY <1>6, <4>1
    <3>2. CASE s = {}
      BY <3>1, <3>2
    <3>3. CASE s # {}
      <4>1. s \ {First(s)} \in SUBSET S /\ Cardinality(s \ {First(s)}) <= k
        BY <2>1, <3>3, FirstOfPart
      <4>2. G[k + 1][s \ {First(s)}] = G[k][s \ {First(s)}]
        BY <1>8, <4>1
      <4> QED BY <3>1, <3>3, <4>2
    <3> QED BY <3>2, <3>3
  <2> QED BY <1>1, <1>8, <2>1
<1> HIDE DEF A
<1>9. n \in A
  <2>1. \A i \in 0..n : i < n /\ i \in A => i + 1 \in A
    BY <1>8
  <2>2. \A i \in 0..n : i \in A
    BY <1>1, <1>7, <2>1, InductionUpTo
  <2> QED BY <1>1, <2>2
<1>10. \A s \in SUBSET S : G[n + 1][s] = G[n][s]
  <2>1. \A s \in SUBSET S : Cardinality(s) <= n
    BY FS_Subset DEF n
  <2> QED BY <1>9, <2>1 DEF A
<1>11. G[n] \in T /\ G[n + 1] = Step(G[n])
  <2>1. n \in 0..(n + 1) /\ n + 1 \in 1..(n + 1) /\ (n + 1) - 1 = n
    BY <1>1
  <2>2. G[n] \in T
    BY <1>a, <2>1
  <2> HIDE DEF Step
  <2>3. G[n + 1] = Step(G[(n + 1) - 1])
    BY <1>6, <2>1
  <2> QED BY <2>1, <2>2, <2>3
<1>12. G[n] = Step(G[n])
  <2>1. G[n] \in [SUBSET S -> Int]
    BY <1>11 DEF T
  <2>2. \A s \in SUBSET S : G[n][s] = Step(G[n])[s]
    BY <1>10, <1>11
  <2> QED BY <2>1, <2>2
<1> QED BY <1>11, <1>12 DEF IsSum, T

\* The sum over s is that of x and of the others.
TakesOff(g, f, s, x) == g[s] = f[x] + g[s \ {x}]

\* Any element can be the one taken off.
LEMMA SumTakesAny ==
    ASSUME NEW S, IsFiniteSet(S), NEW f \in [S -> Int], NEW g, IsSum(g, f, S),
           NEW part \in SUBSET S
    PROVE  /\ g[part] \in Int
           /\ g[{}] = 0
           /\ \A x \in part : TakesOff(g, f, part, x)
<1> DEFINE n == Cardinality(S)
           Any(s) == g[s] \in Int /\ \A x \in s : g[s] = f[x] + g[s \ {x}]
           A == {k \in 0..n : \A s \in SUBSET S : Cardinality(s) <= k => Any(s)}
<1>1. n \in Nat
  BY FS_CardinalityType
<1>2. /\ g[{}] = 0
      /\ \A s \in SUBSET S : s # {} => g[s] = f[First(s)] + g[s \ {First(s)}]
  BY DEF IsSum
<1>3. \A s \in SUBSET S : IsFiniteSet(s) /\ Cardinality(s) \in 0..n
  BY FS_Subset, FS_CardinalityType
<1>4. Any({})
  BY <1>2
<1> HIDE DEF n
<1>5. 0 \in A
  <2>1. ASSUME NEW s \in SUBSET S, Cardinality(s) <= 0 PROVE s = {}
    <3>1. ASSUME s # {} PROVE Cardinality(s) \in Nat \ {0}
      BY <3>1, FirstOfPart, Zenon
    <3> QED BY <2>1, <3>1
  <2> HIDE DEF Any
  <2> QED BY <1>1, <1>4, <2>1
<1>6. ASSUME NEW k \in 0..n, k < n, k \in A PROVE k + 1 \in A
  <2>1. ASSUME NEW s \in SUBSET S, s # {}, Cardinality(s) <= k + 1 PROVE Any(s)
    <3> DEFINE a == First(s)
    <3>1. \A x \in s : s \ {x} \in SUBSET S /\ Cardinality(s \ {x}) <= k
      <4>1. IsFiniteSet(s) /\ Cardinality(s) \in Nat
        BY <1>3
      <4>2. \A x \in s : Cardinality(s \ {x}) = Cardinality(s) - 1
        BY <4>1, FS_RemoveElement
      <4> QED BY <2>1, <4>1, <4>2
    <3>2. a \in s /\ g[s] = f[a] + g[s \ {a}]
      BY <1>2, <2>1, FirstOfPart
    <3> HIDE DEF a
    <3>3. \A x \in s : Any(s \ {x})
      BY <1>6, <3>1
    <3>4. \A x \in s : f[x] \in Int /\ g[s \ {x}] \in Int
      BY <3>3
    <3>5. g[s] \in Int
      BY <3>2, <3>4
    <3>6. ASSUME NEW x \in s, x # a PROVE g[s] = f[x] + g[s \ {x}]
      <4> DEFINE u == (s \ {a}) \ {x}
      <4>1. a \in s \ {x} /\ x \in s \ {a} /\ (s \ {x}) \ {a} = u
        BY <3>2, <3>6
      <4>2. g[s \ {x}] = f[a] + g[u] /\ g[s \ {a}] = f[x] + g[u]
        BY <3>2, <3>3, <4>1
      <4>3. g[u] \in Int
        <5>1. u \in SUBSET S /\ Cardinality(u) <= k
          <6>1. IsFiniteSet(s \ {a}) /\ u \subseteq s \ {a}
            BY <1>3
          <6>2. Cardinality(u) <= Cardinality(s \ {a})
            BY <6>1, FS_Subset
          <6>3. u \in SUBSET S /\ s \ {a} \in SUBSET S
            OBVIOUS
          <6>4. Cardinality(u) \in Nat /\ Cardinality(s \ {a}) \in Nat /\ Cardinality(s \ {a}) <= k
            BY <1>3, <3>1, <3>2, <6>3
          <6> QED BY <6>2, <6>3, <6>4
        <5> QED BY <1>6, <5>1
      <4> HIDE DEF u
      <4>4. f[a] \in Int /\ f[x] \in Int
        BY <3>2, <3>4
      <4> QED BY <3>2, <4>2, <4>3, <4>4
    <3> QED BY <3>2, <3>5, <3>6
  <2> HIDE DEF Any
  <2>2. ASSUME NEW s \in SUBSET S, Cardinality(s) <= k + 1 PROVE Any(s)
    BY <1>4, <2>1, <2>2
  <2> QED BY <1>1, <1>6, <2>2
<1> HIDE DEF A
<1>7. \A k \in 0..n : k \in A
  <2>1. \A i \in 0..n : i < n /\ i \in A => i + 1 \in A
    BY <1>6
  <2> QED BY <1>1, <1>5, <2>1, InductionUpTo
<1>8. ASSUME NEW s \in SUBSET S PROVE Any(s)
  <2>1. Cardinality(s) \in 0..n /\ Cardinality(s) <= n /\ n \in A
    BY <1>1, <1>3, <1>7
  <2> QED BY <2>1 DEF A
<1> QED BY <1>2, <1>8 DEF TakesOff

\* What is summed from values up to B is at most B for each.
LEMMA SumBound ==
    ASSUME NEW S, IsFiniteSet(S), NEW B \in Nat, NEW f \in [S -> 0..B]
    PROVE  SumFunctionOnSet(f, S) \in 0..(B * Cardinality(S))
<1> DEFINE g == CHOOSE g : IsSum(g, f, S)
           n == Cardinality(S)
           A == {k \in 0..n : \A s \in SUBSET S : Cardinality(s) = k => g[s] \in 0..(B * k)}
<1>1. IsSum(g, f, S)
  <2>1. f \in [S -> Int]
    OBVIOUS
  <2> QED BY <2>1, SumExists
<1>2. SumFunctionOnSet(f, S) = g[S]
  BY DEF SumFunctionOnSet, FoldFunctionOnSet, MapThenFoldSet, IsSum, First
<1> HIDE DEF g
<1>3. n \in Nat
  BY FS_CardinalityType
<1>4. \A s \in SUBSET S : g[s] = IF s = {} THEN 0 ELSE f[First(s)] + g[s \ {First(s)}]
  BY <1>1 DEF IsSum
<1> HIDE DEF n
<1>5. 0 \in A
  <2>1. ASSUME NEW s \in SUBSET S, Cardinality(s) = 0 PROVE g[s] \in 0..(B * 0)
    <3>1. s = {}
      <4>1. ASSUME s # {} PROVE Cardinality(s) \in Nat \ {0}
        BY <4>1, FirstOfPart, Zenon
      <4> QED BY <2>1, <4>1
    <3>2. g[s] = 0
      BY <1>4, <3>1
    <3> QED BY <3>2
  <2> QED BY <1>3, <2>1
<1>6. ASSUME NEW k \in 0..n, k < n, k \in A PROVE k + 1 \in A
  <2>1. ASSUME NEW s \in SUBSET S, Cardinality(s) = k + 1 PROVE g[s] \in 0..(B * (k + 1))
    <3>1. s # {}
      BY <2>1, FS_EmptySet
    <3>2. First(s) \in S /\ s \ {First(s)} \in SUBSET S /\ Cardinality(s \ {First(s)}) = k
      BY <2>1, <3>1, FirstOfPart
    <3>3. f[First(s)] \in 0..B /\ g[s \ {First(s)}] \in 0..(B * k)
      BY <1>6, <3>2
    <3>4. g[s] = f[First(s)] + g[s \ {First(s)}]
      BY <1>4, <3>1
    <3>5. \A a \in 0..B, b \in 0..(B * k) : a + b \in 0..(B * (k + 1))
      <4>1. k \in Nat /\ B * k \in Nat /\ B * (k + 1) = B * k + B
        BY <1>3
      <4> QED BY <4>1
    <3> QED BY <3>3, <3>4, <3>5
  <2> QED BY <1>3, <1>6, <2>1
<1> HIDE DEF A
<1>7. n \in A
  <2>1. \A i \in 0..n : i < n /\ i \in A => i + 1 \in A
    BY <1>6
  <2>2. \A i \in 0..n : i \in A
    BY <1>3, <1>5, <2>1, InductionUpTo
  <2> QED BY <1>3, <2>2
<1> QED BY <1>2, <1>7 DEF A, n

-----------------------------------------------------------------------------
(* Ranks: every element of S has one below n. *)

\* Induction over the ranks: P is the set of the elements that have the property.
LEMMA RankedInduction ==
    ASSUME NEW S, NEW n \in Nat, NEW rank \in [S -> 0..n], NEW P,
           \A s \in S : (\A r \in S : rank[r] < rank[s] => r \in P) => s \in P
    PROVE  S \subseteq P
<1> DEFINE bad == {rank[s] : s \in S \ P}
<1> SUFFICES ASSUME S \ P # {} PROVE FALSE
  OBVIOUS
<1>1. bad \subseteq Nat /\ bad # {}
  OBVIOUS
<1>2. PICK m \in bad : \A k \in bad : m <= k
  BY <1>1, LeastNatural
<1>3. PICK s \in S \ P : rank[s] = m
  BY <1>2
<1>4. ASSUME NEW r \in S, rank[r] < rank[s] PROVE r \in P
  <2>1. CASE r \notin P
    <3>1. m <= rank[r]
      BY <1>2, <2>1
    <3>2. rank[r] \in Nat /\ rank[s] \in Nat
      OBVIOUS
    <3> QED BY <1>3, <1>4, <3>1, <3>2
  <2> QED BY <2>1
<1> QED BY <1>3, <1>4

\* H computes a function on S, at each element from the values at lower ranks.
Determines(H, S, T, n, rank) ==
    /\ H \in [[S -> T] -> [S -> T]] /\ T # {}
    /\ rank \in [S -> 0..n]
    /\ \A F, G \in [S -> T] : \A s \in S :
          (\A r \in S : rank[r] < rank[s] => F[r] = G[r]) => H[F][s] = H[G][s]

\* There is a function that H does not change.
LEMMA RankedRecursion ==
    ASSUME NEW S, NEW n \in Nat, NEW rank, NEW T, NEW H, Determines(H, S, T, n, rank)
    PROVE  \E G \in [S -> T] : G = H[G]
<1> DEFINE X == [S -> T]
           base == [s \in S |-> CHOOSE z \in T : TRUE]
           h == [i \in 1..(n + 2) |-> H]
           Agree(F, G, k) == \A s \in S : rank[s] < k => F[s] = G[s]
<1> USE DEF Determines
<1>1. base \in X /\ n + 2 \in Nat
  OBVIOUS
<1>2. h \in [1..(n + 2) -> [X -> X]]
  OBVIOUS
<1>3. ASSUME NEW F \in X, NEW G \in X, NEW k \in Nat, Agree(F, G, k)
      PROVE  Agree(H[F], H[G], k + 1)
  <2> SUFFICES ASSUME NEW s \in S, rank[s] < k + 1 PROVE H[F][s] = H[G][s]
    OBVIOUS
  <2>1. ASSUME NEW r \in S, rank[r] < rank[s] PROVE F[r] = G[r]
    <3>1. rank[r] \in Nat /\ rank[s] \in Nat
      OBVIOUS
    <3>2. rank[r] < k
      BY <2>1, <3>1
    <3> QED BY <1>3, <3>2
  <2> QED BY <2>1
<1>4. ASSUME NEW F \in X, NEW G \in X PROVE Agree(F, G, 0) /\ (Agree(F, G, n + 1) => F = G)
  <2>1. \A s \in S : rank[s] \in 0..n
    OBVIOUS
  <2>2. \A s \in S : ~ (rank[s] < 0) /\ rank[s] < n + 1
    BY <2>1
  <2>3. Agree(F, G, n + 1) => \A s \in S : F[s] = G[s]
    BY <2>2
  <2> QED BY <2>2, <2>3
<1>a. \A F \in X : H[F] \in X
  OBVIOUS
<1> HIDE DEF X, base, h, Agree
<1>5. PICK G : Iterates(G, n + 2, X, base, h)
  BY <1>1, <1>2, RecursionUpTo
<1>6. \A i \in 0..(n + 2) : G[i] \in X
  BY <1>5 DEF Iterates
<1>7. ASSUME NEW i \in 0..(n + 1) PROVE G[i + 1] = H[G[i]]
  <2>1. i + 1 \in 1..(n + 2) /\ (i + 1) - 1 = i
    OBVIOUS
  <2>2. G[i + 1] = h[i + 1][G[(i + 1) - 1]]
    BY <1>5, <2>1 DEF Iterates
  <2> QED BY <2>1, <2>2 DEF h
<1> DEFINE A == {k \in 0..(n + 1) : Agree(G[k + 1], G[k], k)}
<1>8. 0 \in A
  <2>1. G[0 + 1] \in X /\ G[0] \in X
    BY <1>6
  <2> QED BY <1>4, <2>1
<1>9. ASSUME NEW k \in 0..(n + 1), k < n + 1, k \in A PROVE k + 1 \in A
  <2>1. k \in 0..(n + 2) /\ k + 1 \in 0..(n + 2) /\ k + 1 \in 0..(n + 1) /\ k \in Nat
    BY <1>9
  <2>2. G[k] \in X /\ G[k + 1] \in X
    BY <1>6, <2>1
  <2>3. Agree(H[G[k + 1]], H[G[k]], k + 1)
    BY <1>3, <1>9, <2>1, <2>2
  <2>4. G[(k + 1) + 1] = H[G[k + 1]] /\ G[k + 1] = H[G[k]]
    BY <1>7, <2>1
  <2> QED BY <2>1, <2>3, <2>4
<1> HIDE DEF A
<1>10. n + 1 \in A
  <2>1. \A i \in 0..(n + 1) : i < n + 1 /\ i \in A => i + 1 \in A
    BY <1>9
  <2>2. n + 1 \in Nat
    OBVIOUS
  <2>3. \A i \in 0..(n + 1) : i \in A
    BY <1>8, <2>1, <2>2, InductionUpTo
  <2> QED BY <2>3
<1>11. G[n + 1] \in X /\ G[(n + 1) + 1] \in X
  BY <1>6
<1>12. G[(n + 1) + 1] = G[n + 1]
  BY <1>4, <1>10, <1>11 DEF A
<1>13. G[n + 1] = H[G[n + 1]]
  BY <1>7, <1>12
<1> QED BY <1>11, <1>13 DEF X

\* Of the values of a function on a finite set one is the greatest.
LEMMA GreatestValue ==
    ASSUME NEW S, IsFiniteSet(S), S # {}, NEW f \in [S -> Nat]
    PROVE  \E m \in S : \A x \in S : f[x] <= f[m]
<1> DEFINE n == Cardinality(S)
           Has(s) == \E m \in s : \A x \in s : f[x] <= f[m]
           A == {k \in 0..n : \A s \in SUBSET S : s # {} /\ Cardinality(s) = k => Has(s)}
<1>1. n \in Nat
  BY FS_CardinalityType
<1>2. 0 \in A
  <2>1. ASSUME NEW s \in SUBSET S, s # {}, Cardinality(s) = 0 PROVE FALSE
    <3>1. Cardinality(s) \in Nat \ {0}
      BY <2>1, FirstOfPart
    <3> QED BY <2>1, <3>1
  <2> QED BY <1>1, <2>1
<1> HIDE DEF n
<1>3. ASSUME NEW k \in 0..n, k < n, k \in A PROVE k + 1 \in A
  <2>1. ASSUME NEW s \in SUBSET S, s # {}, Cardinality(s) = k + 1 PROVE Has(s)
    <3> DEFINE a == First(s)
               t == s \ {First(s)}
    <3>1. a \in s /\ t \in SUBSET S /\ Cardinality(t) = k
      BY <2>1, FirstOfPart
    <3> HIDE DEF a
    <3>2. \A x \in s : f[x] \in Nat
      OBVIOUS
    <3>3. CASE t = {}
      <4>1. \A x \in s : x = a
        BY <3>3 DEF a
      <4> QED BY <3>1, <3>2, <4>1
    <3>4. CASE t # {}
      <4> HIDE DEF t
      <4>1. PICK m \in t : \A x \in t : f[x] <= f[m]
        BY <1>3, <3>1, <3>4
      <4>2. m \in s /\ \A x \in s : x = a \/ x \in t
        BY DEF t, a
      <4>3. CASE f[a] <= f[m]
        BY <4>1, <4>2, <4>3
      <4>4. CASE f[m] < f[a]
        <5>1. ASSUME NEW x \in s PROVE f[x] <= f[a]
          <6>1. f[x] \in Nat /\ f[a] \in Nat /\ f[m] \in Nat
            BY <3>1, <3>2, <4>2
          <6>2. x = a \/ f[x] <= f[m]
            BY <4>1, <4>2
          <6> QED BY <4>4, <6>1, <6>2
        <5> QED BY <3>1, <5>1
      <4> QED BY <3>1, <3>2, <4>2, <4>3, <4>4
    <3> QED BY <3>3, <3>4
  <2> HIDE DEF Has
  <2> QED BY <1>1, <1>3, <2>1
<1> HIDE DEF A
<1>4. n \in A
  <2>1. \A i \in 0..n : i < n /\ i \in A => i + 1 \in A
    BY <1>3
  <2>2. \A i \in 0..n : i \in A
    BY <1>1, <1>2, <2>1, InductionUpTo
  <2> QED BY <1>1, <2>2
<1> QED BY <1>4 DEF A, n
================================================================================
