------------------------ MODULE WorkflowPlanner_proofs ------------------------
(***************************************************************************)
(* Proofs about the workflow planner, for every set of requests: for all   *)
(* task graphs, wordings and degrees of parallelism.                       *)
(*                                                                         *)
(* The task graph has no cycle because tasks are built in an order in      *)
(* which dependencies come first.  Hence a set of tasks that remain has    *)
(* one that is ready, the loop cannot break off early, and every round is  *)
(* a set of tasks whose dependencies are behind it.  The same order gives  *)
(* the recursive functions their values: the best path to a task is the    *)
(* slowest chain to it, because the dependency with the most points is     *)
(* also the one with the most seconds.                                     *)
(***************************************************************************)
EXTENDS WorkflowPlanner, RecursionTheorems, FiniteSetTheorems, TLAPS

\* The result of a request.
PlanOf(q) ==
    LET path == CriticalPath[q.topics]
    IN  [path |-> path, seconds |-> RuntimeForPath(q.topics, path),
         brain |-> [t \in TasksOf(q.topics) |-> AssignedBrain(q, t)]]

PlannerInv ==
    /\ request \in Requests
    /\ completed \subseteq TasksOf(request.topics)
    /\ remaining = TasksOf(request.topics) \ completed
    /\ rounds \in Seq((SUBSET Task) \ {{}})
    /\ completed = UNION {rounds[i] : i \in 1..Len(rounds)}
    /\ RoundsRespectDependencies
    /\ pc \in {"grouping", "planned", "answered", "failed"}
    /\ pc # "grouping" => remaining = {}
    /\ plan # NoPlan => pc # "grouping" /\ plan = PlanOf(request)

-----------------------------------------------------------------------------
(* The orders of the tasks *)

LEMMA BuiltValues ==
    /\ Built["intent"] = 1 /\ Built["architecture"] = 2 /\ Built["research"] = 3
    /\ Built["implementation"] = 4 /\ Built["automation"] = 5 /\ Built["security"] = 6
    /\ Built["schema"] = 7 /\ Built["voice"] = 8 /\ Built["memory"] = 9
    /\ Built["synthesis"] = 10 /\ Built["verification"] = 11 /\ Built["memory_write"] = 12
BY DEF Built, BuiltAt, Task, Specialist

LEMMA NamedValues ==
    /\ Named["architecture"] = 1 /\ Named["automation"] = 2 /\ Named["implementation"] = 3
    /\ Named["intent"] = 4 /\ Named["memory"] = 5 /\ Named["memory_write"] = 6
    /\ Named["research"] = 7 /\ Named["schema"] = 8 /\ Named["security"] = 9
    /\ Named["synthesis"] = 10 /\ Named["verification"] = 11 /\ Named["voice"] = 12
BY DEF Named, NamedAt, Task, Specialist

LEMMA NamedIsAnOrder ==
    /\ \A t \in Task : Named[t] \in 1..12
    /\ \A t, u \in Task : Named[t] = Named[u] => t = u
BY NamedValues DEF Task, Specialist

LEMMA BuiltIsRank == \A t \in Task : Built[t] \in 1..12
BY BuiltValues DEF Task, Specialist

LEMMA LeastOfTwelve ==
    ASSUME NEW S, S \subseteq 1..12, S # {}
    PROVE  \E m \in S : \A k \in S : m <= k
<1>1. S \subseteq Nat
  OBVIOUS
<1> QED BY <1>1, LeastNatural

LEMMA GreatestOfTwelve ==
    ASSUME NEW S, S \subseteq 1..12, S # {}
    PROVE  \E m \in S : \A k \in S : k <= m
<1> DEFINE mirror == {13 - k : k \in S}
<1>1. mirror \subseteq 1..12 /\ mirror # {}
  <2>1. \A k \in S : k \in 1..12 /\ 13 - k \in 1..12
    OBVIOUS
  <2> QED BY <2>1
<1>2. PICK l \in mirror : \A k \in mirror : l <= k
  BY <1>1, LeastOfTwelve
<1>3. PICK m \in S : l = 13 - m
  BY <1>2
<1>4. \A k \in S : l <= 13 - k
  BY <1>2
<1>5. \A k \in S : k <= m
  BY <1>3, <1>4
<1> QED BY <1>5

LEMMA TasksAreTasks ==
    ASSUME NEW topics, topics \subseteq Specialist
    PROVE  TasksOf(topics) \subseteq Task
BY DEF TasksOf, Task

\* Dependencies are tasks of the same plan, and are built before.
LEMMA DependenciesAreBuiltBefore ==
    ASSUME NEW topics, topics \subseteq Specialist,
           NEW t \in TasksOf(topics), NEW d \in DependsOn(topics, t)
    PROVE  /\ d \in TasksOf(topics)
           /\ Built[d] < Built[t]
BY BuiltValues DEF DependsOn, TasksOf, Specialist

\* Every set of tasks has one that depends on none of them.
LEMMA GraphHasNoCycle ==
    ASSUME NEW topics, topics \subseteq Specialist, NEW S, S \subseteq TasksOf(topics), S # {}
    PROVE  \E t \in S : DependsOn(topics, t) \cap S = {}
<1> DEFINE ranks == {Built[t] : t \in S}
<1>1. ranks \subseteq 1..12 /\ ranks # {}
  BY TasksAreTasks, BuiltIsRank
<1>2. PICK m \in ranks : \A k \in ranks : m <= k
  BY <1>1, LeastOfTwelve
<1>3. PICK t \in S : Built[t] = m
  BY <1>2
<1>4. \A d \in DependsOn(topics, t) : d \notin S
  <2> SUFFICES ASSUME NEW d \in DependsOn(topics, t), d \in S PROVE FALSE
    OBVIOUS
  <2>1. Built[d] < Built[t]
    BY DependenciesAreBuiltBefore
  <2>2. m <= Built[d]
    BY <1>2
  <2>3. Built[d] \in 1..12 /\ Built[t] \in 1..12
    BY TasksAreTasks, BuiltIsRank
  <2> QED BY <1>3, <2>1, <2>2, <2>3
<1> QED BY <1>4

-----------------------------------------------------------------------------
(* A round *)

\* The tasks that come before t in Python's order.
Lower(ready, t) == {u \in ready : Named[u] < Named[t]}

LEMMA TaskSetsAreFinite == \A S \in SUBSET Task : IsFiniteSet(S)
<1>1. IsFiniteSet(Task)
  <2> DEFINE f == BuiltAt
  <2>1. IsFiniteSet(1..12)
    <3>1. \A S \in SUBSET Nat : (\A i \in S : i <= 12) => IsFiniteSet(S)
      BY FS_BoundedSetOfNaturals
    <3>2. 1..12 \in SUBSET Nat /\ \A i \in 1..12 : i <= 12
      OBVIOUS
    <3> QED BY <3>1, <3>2, Zenon
  <2>2. f \in [1..12 -> Task]
    BY DEF BuiltAt, Task, Specialist
  <2>3. \A t \in Task : f[Built[t]] = t /\ Built[t] \in 1..12
    BY BuiltValues DEF BuiltAt, Task, Specialist
  <2> HIDE DEF f
  <2>4. f \in Surjection(1..12, Task)
    BY <2>2, <2>3 DEF Surjection
  <2> QED BY <2>1, <2>4, FS_Surjection
<1> QED BY <1>1, FS_Subset

LEMMA GroupIsSomeReady ==
    ASSUME NEW ready, ready \subseteq Task, ready # {}, request.parallel \in 1..MaxParallelism
    PROVE  Group(ready) # {}
<1> DEFINE names == {Named[t] : t \in ready}
<1>1. names \subseteq 1..12 /\ names # {}
  BY NamedIsAnOrder
<1>2. PICK m \in names : \A k \in names : m <= k
  BY <1>1, LeastOfTwelve
<1>3. PICK t \in ready : Named[t] = m
  BY <1>2
<1>4. \A u \in ready : ~(Named[u] < Named[t])
  <2> TAKE u \in ready
  <2>1. Named[u] \in 1..12 /\ Named[t] \in 1..12 /\ m <= Named[u]
    BY NamedIsAnOrder, <1>2
  <2> QED BY <2>1, <1>3
<1>5. {u \in ready : Named[u] < Named[t]} = {}
  BY <1>4
<1>6. Cardinality({u \in ready : Named[u] < Named[t]}) = 0
  BY <1>5, FS_EmptySet
<1>7. 0 < request.parallel
  BY DEF MaxParallelism
<1> QED BY <1>6, <1>7 DEF Group

LEMMA GroupFits ==
    ASSUME NEW ready, ready \subseteq Task, request.parallel \in 1..MaxParallelism
    PROVE  Cardinality(Group(ready)) <= request.parallel
<1> DEFINE group == Group(ready)
           names == {Named[t] : t \in group}
<1>1. group \subseteq ready
  BY DEF Group
<1>2. CASE group = {}
  BY <1>2, FS_EmptySet DEF MaxParallelism
<1>3. CASE group # {}
  <2>1. names \subseteq 1..12 /\ names # {}
    BY <1>1, <1>3, NamedIsAnOrder
  <2>2. PICK m \in names : \A k \in names : k <= m
    BY <2>1, GreatestOfTwelve
  <2>3. PICK t \in group : Named[t] = m
    BY <2>2
  <2> DEFINE lower == {u \in ready : Named[u] < Named[t]}
  <2>4. group \subseteq lower \cup {t}
    <3> SUFFICES ASSUME NEW u \in group, u # t PROVE u \in lower
      OBVIOUS
    <3>1. Named[u] \in 1..12 /\ Named[t] \in 1..12 /\ Named[u] # Named[t] /\ Named[u] <= m
      BY <1>1, <2>2, NamedIsAnOrder
    <3> QED BY <1>1, <2>3, <3>1
  <2>5. IsFiniteSet(lower) /\ IsFiniteSet(lower \cup {t}) /\ t \notin lower
    <3>1. lower \in SUBSET Task /\ lower \cup {t} \in SUBSET Task
      BY <1>1
    <3>2. t \notin lower
      BY <1>1, NamedIsAnOrder
    <3> QED BY <3>1, <3>2, TaskSetsAreFinite
  <2>6. Cardinality(lower \cup {t}) = Cardinality(lower) + 1
    BY <2>5, FS_AddElement
  <2>7. Cardinality(group) <= Cardinality(lower \cup {t})
    BY <2>4, <2>5, FS_Subset
  <2>8. Cardinality(lower) < request.parallel
    BY DEF Group
  <2>9. Cardinality(group) \in Nat /\ Cardinality(lower) \in Nat /\ request.parallel \in Nat
    <3>1. group \in SUBSET Task
      BY <1>1
    <3> QED BY <3>1, <2>5, TaskSetsAreFinite, FS_CardinalityType DEF MaxParallelism
  <2>10. \A x, y, z, p \in Nat : x <= y /\ y = z + 1 /\ z < p => x <= p
    OBVIOUS
  <2>11. Cardinality(lower \cup {t}) \in Nat
    BY <2>5, FS_CardinalityType
  <2> HIDE DEF lower, group
  <2>12. Cardinality(group) <= request.parallel
    BY <2>6, <2>7, <2>8, <2>9, <2>10, <2>11
  <2> QED BY <2>12 DEF group
<1> QED BY <1>2, <1>3

-----------------------------------------------------------------------------
(* The time of a path *)

LEMMA WeightsAreNumbers ==
    ASSUME NEW topics, NEW t
    PROVE  /\ Points[Complexity(topics, t)] \in Nat
           /\ Seconds[Complexity(topics, t)] \in Nat
BY DEF Points, Seconds, Complexity

\* The steps of RuntimeForPath.
RuntimeTurns(topics, path) ==
    [i \in 1..Len(path) |-> [x \in Nat |-> x + Seconds[Complexity(topics, path[i])]]]

LEMMA RuntimeIterates ==
    ASSUME NEW topics, NEW path \in Seq(Task)
    PROVE  \E g : /\ Iterates(g, Len(path), Nat, 0, RuntimeTurns(topics, path))
                  /\ RuntimeForPath(topics, path) = g[Len(path)]
<1> DEFINE n == Len(path)
           Turn(x, i) == x + Seconds[Complexity(topics, path[i])]
           sum == CHOOSE f : f = [i \in 0..n |->
                    IF i = 0 THEN 0 ELSE f[i - 1] + Seconds[Complexity(topics, path[i])]]
           h == RuntimeTurns(topics, path)
<1>1. n \in Nat
  OBVIOUS
<1>2. \A i \in 1..n, x \in Nat : h[i][x] = Turn(x, i)
  BY DEF RuntimeTurns
<1>3. h \in [1..n -> [Nat -> Nat]]
  <2>1. \A i \in 1..n, x \in Nat : x + Seconds[Complexity(topics, path[i])] \in Nat
    BY WeightsAreNumbers
  <2> QED BY <2>1 DEF RuntimeTurns
<1>4. RuntimeForPath(topics, path) = sum[n]
  BY DEF RuntimeForPath
<1>5. sum = CHOOSE f : f = [i \in 0..n |-> IF i = 0 THEN 0 ELSE Turn(f[i - 1], i)]
  OBVIOUS
<1> HIDE DEF h, Turn, n, sum
<1>6. PICK g : Iterates(g, n, Nat, 0, h)
  BY <1>1, <1>3, RecursionUpTo
<1>7. g = [i \in 0..n |-> IF i = 0 THEN 0 ELSE Turn(g[i - 1], i)]
  BY <1>1, <1>2, <1>6 DEF Iterates
<1>8. sum = [i \in 0..n |-> IF i = 0 THEN 0 ELSE Turn(sum[i - 1], i)]
  BY <1>5, <1>7
<1>9. sum[0] = 0 /\ \A i \in 1..n : sum[i] = Turn(sum[i - 1], i)
  BY <1>1, <1>8
<1>10. \A i \in 1..n : sum[i - 1] \in Nat => sum[i] = h[i][sum[i - 1]]
  BY <1>2, <1>9
<1>11. \A i \in 0..n : sum[i] = g[i]
  BY <1>1, <1>6, <1>9, <1>10, RecursionUnique
<1>12. sum[n] = g[n]
  BY <1>1, <1>11
<1> QED BY <1>4, <1>6, <1>12 DEF h, n

LEMMA RuntimeAppend ==
    ASSUME NEW topics, NEW path \in Seq(Task), NEW t \in Task
    PROVE  /\ RuntimeForPath(topics, path) \in Nat
           /\ RuntimeForPath(topics, Append(path, t))
                 = RuntimeForPath(topics, path) + Seconds[Complexity(topics, t)]
<1> DEFINE n == Len(path)
           longer == Append(path, t)
<1>1. /\ n \in Nat /\ longer \in Seq(Task) /\ Len(longer) = n + 1 /\ longer[n + 1] = t
      /\ \A i \in 1..n : longer[i] = path[i]
  OBVIOUS
<1> HIDE DEF longer, n
<1>2. PICK g : /\ Iterates(g, n, Nat, 0, RuntimeTurns(topics, path))
               /\ RuntimeForPath(topics, path) = g[n]
  BY RuntimeIterates DEF n
<1>3. PICK k : /\ Iterates(k, n + 1, Nat, 0, RuntimeTurns(topics, longer))
               /\ RuntimeForPath(topics, longer) = k[n + 1]
  BY <1>1, RuntimeIterates
<1>4. ASSUME NEW i \in 1..n
      PROVE  RuntimeTurns(topics, longer)[i] = RuntimeTurns(topics, path)[i]
  <2>1. i \in 1..Len(longer) /\ i \in 1..Len(path) /\ longer[i] = path[i]
    BY <1>1 DEF n
  <2> QED BY <2>1, Zenon DEF RuntimeTurns
<1>5. k[n + 1] = RuntimeTurns(topics, longer)[n + 1][g[n]] /\ g[n] \in Nat
  BY <1>1, <1>2, <1>3, <1>4, RecursionStep
<1>6. RuntimeTurns(topics, longer)[n + 1][g[n]] = g[n] + Seconds[Complexity(topics, t)]
  BY <1>1, <1>5 DEF RuntimeTurns
<1> QED BY <1>2, <1>3, <1>5, <1>6 DEF longer

LEMMA RuntimeOfOne ==
    ASSUME NEW topics, NEW t \in Task
    PROVE  RuntimeForPath(topics, <<t>>) = Seconds[Complexity(topics, t)]
<1>1. << >> \in Seq(Task) /\ Len(<< >>) = 0 /\ Append(<< >>, t) = <<t>>
  OBVIOUS
<1>2. PICK g : /\ Iterates(g, 0, Nat, 0, RuntimeTurns(topics, << >>))
               /\ RuntimeForPath(topics, << >>) = g[0]
  BY <1>1, RuntimeIterates
<1>3. RuntimeForPath(topics, << >>) = 0
  BY <1>2 DEF Iterates
<1>4. RuntimeForPath(topics, Append(<< >>, t)) = 0 + Seconds[Complexity(topics, t)]
  BY <1>1, <1>3, RuntimeAppend
<1> QED BY <1>1, <1>4, WeightsAreNumbers

-----------------------------------------------------------------------------
(* The critical path *)

\* A path and its score.
Trail == {p \in [score : Nat, path : Seq(Task)] : p.path # << >>}

LEMMA FirstBestIsBest ==
    ASSUME NEW D, D \subseteq Task, D # {}, NEW G \in [D -> Trail]
    PROVE  LET paths == {G[d] : d \in D} IN
           /\ FirstBest(paths) \in paths
           /\ \A y \in paths : y.score <= FirstBest(paths).score
<1> DEFINE paths == {G[d] : d \in D}
           f == [d \in D |-> G[d].score]
           best == {x \in paths : \A y \in paths : y.score <= x.score}
           ranks == {Built[Last(x.path)] : x \in best}
<1>1. IsFiniteSet(D)
  BY TaskSetsAreFinite
<1>2. f \in [D -> Nat]
  BY DEF Trail
<1>3. PICK m \in D : \A d \in D : f[d] <= f[m]
  BY <1>1, <1>2, GreatestValue
<1>4. G[m] \in best
  BY <1>3
<1>5. \A x \in paths : x.score \in Nat /\ Built[Last(x.path)] \in 1..12
  <2> SUFFICES ASSUME NEW x \in paths PROVE x.score \in Nat /\ Last(x.path) \in Task
    BY BuiltIsRank
  <2>1. x \in Trail
    OBVIOUS
  <2>2. x.score \in Nat /\ x.path \in Seq(Task) /\ x.path # << >>
    BY <2>1 DEF Trail
  <2> QED BY <2>2 DEF Last
<1>6. ranks \subseteq 1..12 /\ ranks # {}
  BY <1>4, <1>5
<1>7. PICK r \in ranks : \A k \in ranks : r <= k
  BY <1>6, LeastOfTwelve
<1>8. PICK x \in best : Built[Last(x.path)] = r
  BY <1>7
<1>9. x \in paths /\ \A y \in paths :
         \/ y.score < x.score
         \/ y.score = x.score /\ Built[Last(x.path)] <= Built[Last(y.path)]
  <2> SUFFICES ASSUME NEW y \in paths, ~ (y.score < x.score)
               PROVE  y.score = x.score /\ Built[Last(x.path)] <= Built[Last(y.path)]
    BY <1>8
  <2>1. y.score \in Nat /\ x.score \in Nat /\ y.score <= x.score
    BY <1>5, <1>8
  <2>2. y.score = x.score
    BY <2>1
  <2>3. y \in best
    BY <1>8, <2>2
  <2> QED BY <1>7, <1>8, <2>2, <2>3
<1> HIDE DEF paths
<1>10. FirstBest(paths) \in paths /\ \A y \in paths :
         \/ y.score < FirstBest(paths).score
         \/ y.score = FirstBest(paths).score
            /\ Built[Last(FirstBest(paths).path)] <= Built[Last(y.path)]
  BY <1>9 DEF FirstBest
<1>11. \A y \in paths : y.score <= FirstBest(paths).score
  BY <1>5, <1>10
<1> QED BY <1>10, <1>11 DEF paths

\* How best is computed from what it is at the dependencies.
Better(topics, G, t) ==
    Extend({G[d] : d \in DependsOn(topics, t) \cap TasksOf(topics)}, t, Points[Complexity(topics, t)])

LEMMA ExtendIsTrail ==
    ASSUME NEW D, D \subseteq Task, NEW G \in [D -> Trail], NEW t \in Task, NEW points \in Nat
    PROVE  Extend({G[d] : d \in D}, t, points) \in Trail
<1> DEFINE paths == {G[d] : d \in D}
<1>1. CASE D = {}
  <2>1. <<t>> \in Seq(Task) /\ <<t>> # << >>
    OBVIOUS
  <2> QED BY <1>1, <2>1 DEF Extend, Trail
<1>2. CASE D # {}
  <2>1. FirstBest(paths) \in paths
    BY <1>2, FirstBestIsBest
  <2> DEFINE x == FirstBest(paths)
  <2>2. x \in Trail
    BY <2>1
  <2> HIDE DEF x
  <2>3. /\ x.score + points \in Nat
        /\ Append(x.path, t) \in Seq(Task) /\ Append(x.path, t) # << >>
    BY <2>2 DEF Trail
  <2> HIDE DEF paths
  <2>4. Extend(paths, t, points) = [score |-> x.score + points, path |-> Append(x.path, t)]
    <3>1. paths # {}
      BY <1>2 DEF paths
    <3> QED BY <3>1 DEF Extend, x
  <2>5. Extend(paths, t, points) \in Trail
    BY <2>3, <2>4 DEF Trail
  <2> QED BY <2>5 DEF paths
<1> QED BY <1>1, <1>2

\* The recursive function of _critical_path has a value, since dependencies are
\* built before.
LEMMA BestPathsExist ==
    ASSUME NEW topics, topics \subseteq Specialist
    PROVE  \E best \in [TasksOf(topics) -> Trail] :
              /\ \A t \in TasksOf(topics) : best[t] = Better(topics, best, t)
              /\ CriticalPath[topics] = FirstBest({best[t] : t \in TasksOf(topics)}).path
<1> DEFINE S == TasksOf(topics)
           X == [S -> Trail]
           rank == [t \in S |-> Built[t]]
           n == 12
           z == [score |-> 0, path |-> <<"intent">>]
           H == [G \in X |-> [t \in S |-> Better(topics, G, t)]]
           best == CHOOSE f : f = [t \in S |->
                      Extend({f[d] : d \in DependsOn(topics, t) \cap TasksOf(topics)}, t,
                             Points[Complexity(topics, t)])]
<1>1. S \subseteq Task
  BY TasksAreTasks
<1>2. rank \in [S -> 0..n] /\ n \in Nat
  <2>1. \A t \in S : Built[t] \in 0..12
    BY <1>1, BuiltIsRank
  <2> QED BY <2>1
<1>3. z \in Trail
  <2>1. <<"intent">> \in Seq(Task) /\ <<"intent">> # << >>
    BY DEF Task
  <2> QED BY <2>1 DEF Trail
<1>4. ASSUME NEW G \in X, NEW t \in S PROVE Better(topics, G, t) \in Trail
  <2> DEFINE D == DependsOn(topics, t) \cap S
             F == [d \in D |-> G[d]]
  <2>1. D \subseteq Task /\ F \in [D -> Trail] /\ t \in Task
    BY <1>1
  <2>2. {G[d] : d \in D} = {F[d] : d \in D}
    OBVIOUS
  <2> HIDE DEF D, F
  <2>3. Extend({F[d] : d \in D}, t, Points[Complexity(topics, t)]) \in Trail
    BY <2>1, ExtendIsTrail, WeightsAreNumbers
  <2> QED BY <2>2, <2>3 DEF Better, D
<1>5. H \in [X -> X]
  BY <1>4
<1>6. ASSUME NEW F \in X, NEW G \in X, NEW t \in S,
             \A r \in S : rank[r] < rank[t] => F[r] = G[r]
      PROVE  H[F][t] = H[G][t]
  <2>1. \A d \in DependsOn(topics, t) \cap S : F[d] = G[d]
    BY <1>6, DependenciesAreBuiltBefore
  <2>2. {F[d] : d \in DependsOn(topics, t) \cap S} = {G[d] : d \in DependsOn(topics, t) \cap S}
    BY <2>1
  <2>3. Better(topics, F, t) = Better(topics, G, t)
    BY <2>2 DEF Better
  <2> QED BY <2>3
<1>7. CriticalPath[topics] = FirstBest({best[t] : t \in S}).path
  BY DEF CriticalPath
<1>8. best = CHOOSE f : f = [t \in S |-> Better(topics, f, t)]
  BY DEF Better
<1>9. \A G \in X : H[G] = [t \in S |-> Better(topics, G, t)]
  OBVIOUS
<1> HIDE DEF S, X, n, rank, z, H, best
<1>10. PICK G \in X : G = H[G]
  <2>1. \A F, E \in X : \A t \in S :
           (\A r \in S : rank[r] < rank[t] => F[r] = E[r]) => H[F][t] = H[E][t]
    BY <1>6
  <2>2. Determines(H, S, Trail, n, rank)
    BY <1>2, <1>3, <1>5, <2>1 DEF Determines, X
  <2> QED BY <1>2, <2>2, RankedRecursion DEF X
<1>11. G = [t \in S |-> Better(topics, G, t)]
  BY <1>9, <1>10
<1>12. best = [t \in S |-> Better(topics, best, t)]
  BY <1>8, <1>11
<1>13. \A t \in S : best[t] = Better(topics, best, t)
  BY <1>12
<1>14. best \in X
  <2> DEFINE P == {t \in S : best[t] \in Trail}
  <2>1. ASSUME NEW t \in S, \A r \in S : rank[r] < rank[t] => r \in P PROVE t \in P
    <3> DEFINE F == [r \in S |-> IF r \in P THEN best[r] ELSE G[r]]
    <3>1. F \in X
      BY DEF X
    <3>2. \A d \in DependsOn(topics, t) \cap S : F[d] = best[d]
      <4>1. \A d \in DependsOn(topics, t) \cap S : d \in P
        BY <2>1, DependenciesAreBuiltBefore DEF S, rank
      <4> QED BY <4>1
    <3>3. Better(topics, F, t) = Better(topics, best, t)
      <4>1. {F[d] : d \in DependsOn(topics, t) \cap S} = {best[d] : d \in DependsOn(topics, t) \cap S}
        BY <3>2
      <4> QED BY <4>1 DEF Better, S
    <3>4. Better(topics, F, t) \in Trail
      BY <1>4, <3>1
    <3> QED BY <1>13, <3>3, <3>4
  <2> HIDE DEF P
  <2>2. S \subseteq P
    <3>1. \A t \in S : (\A r \in S : rank[r] < rank[t] => r \in P) => t \in P
      BY <2>1
    <3> QED BY <1>2, <3>1, RankedInduction
  <2>3. \A t \in S : best[t] \in Trail
    BY <2>2 DEF P
  <2>4. best = [t \in S |-> best[t]]
    BY <1>12
  <2> QED BY <2>3, <2>4 DEF X
<1> QED BY <1>7, <1>13, <1>14 DEF S, X

\* How the chains to a task are computed from those to its dependencies.
Longer(topics, G, t) ==
    IF DependsOn(topics, t) = {} THEN {<<t>>}
    ELSE {Append(chain, t) : chain \in UNION {G[d] : d \in DependsOn(topics, t)}}

LEMMA ChainsExist ==
    ASSUME NEW topics, topics \subseteq Specialist
    PROVE  \E to \in [TasksOf(topics) -> SUBSET Seq(Task)] :
              /\ \A t \in TasksOf(topics) : to[t] = Longer(topics, to, t)
              /\ Chains[topics] = UNION {to[t] : t \in TasksOf(topics)}
<1> DEFINE S == TasksOf(topics)
           T == SUBSET Seq(Task)
           X == [S -> T]
           rank == [t \in S |-> Built[t]]
           n == 12
           H == [G \in X |-> [t \in S |-> Longer(topics, G, t)]]
           to == CHOOSE f : f = [t \in S |->
                    IF DependsOn(topics, t) = {} THEN {<<t>>}
                    ELSE {Append(chain, t) : chain \in UNION {f[d] : d \in DependsOn(topics, t)}}]
<1>1. S \subseteq Task /\ {} \in T
  BY TasksAreTasks
<1>2. rank \in [S -> 0..n] /\ n \in Nat
  <2>1. \A t \in S : Built[t] \in 0..12
    BY <1>1, BuiltIsRank
  <2> QED BY <2>1
<1>3. ASSUME NEW t \in S, NEW G, \A d \in DependsOn(topics, t) : G[d] \in T
      PROVE  Longer(topics, G, t) \in T
  <2>1. t \in Task /\ <<t>> \in Seq(Task)
    BY <1>1
  <2>2. \A chain \in UNION {G[d] : d \in DependsOn(topics, t)} : Append(chain, t) \in Seq(Task)
    BY <1>3, <2>1
  <2> QED BY <2>1, <2>2 DEF Longer
<1>4. \A t \in S : \A d \in DependsOn(topics, t) : d \in S /\ rank[d] < rank[t]
  BY DependenciesAreBuiltBefore
<1> HIDE DEF T
<1>5. H \in [X -> X]
  BY <1>3, <1>4
<1>6. ASSUME NEW F \in X, NEW G \in X, NEW t \in S,
             \A r \in S : rank[r] < rank[t] => F[r] = G[r]
      PROVE  H[F][t] = H[G][t]
  <2>1. \A d \in DependsOn(topics, t) : F[d] = G[d]
    BY <1>4, <1>6
  <2>2. {F[d] : d \in DependsOn(topics, t)} = {G[d] : d \in DependsOn(topics, t)}
    BY <2>1
  <2>3. Longer(topics, F, t) = Longer(topics, G, t)
    BY <2>2 DEF Longer
  <2> QED BY <2>3
<1>7. Chains[topics] = UNION {to[t] : t \in S}
  BY DEF Chains
<1>8. to = CHOOSE f : f = [t \in S |-> Longer(topics, f, t)]
  BY DEF Longer
<1>9. \A G \in X : H[G] = [t \in S |-> Longer(topics, G, t)]
  OBVIOUS
<1> HIDE DEF S, X, n, rank, H, to
<1>10. PICK G \in X : G = H[G]
  <2>1. \A F, E \in X : \A t \in S :
           (\A r \in S : rank[r] < rank[t] => F[r] = E[r]) => H[F][t] = H[E][t]
    BY <1>6
  <2>2. Determines(H, S, T, n, rank)
    BY <1>1, <1>2, <1>5, <2>1 DEF Determines, X
  <2> QED BY <1>2, <2>2, RankedRecursion DEF X
<1>11. G = [t \in S |-> Longer(topics, G, t)]
  BY <1>9, <1>10
<1>12. to = [t \in S |-> Longer(topics, to, t)]
  BY <1>8, <1>11
<1>13. \A t \in S : to[t] = Longer(topics, to, t)
  BY <1>12
<1>14. to \in X
  <2> DEFINE P == {t \in S : to[t] \in T}
  <2>1. ASSUME NEW t \in S, \A r \in S : rank[r] < rank[t] => r \in P PROVE t \in P
    <3>1. \A d \in DependsOn(topics, t) : to[d] \in T
      BY <1>4, <2>1
    <3>2. Longer(topics, to, t) \in T
      BY <1>3, <3>1
    <3> QED BY <1>13, <3>2
  <2> HIDE DEF P
  <2>2. S \subseteq P
    <3>1. \A t \in S : (\A r \in S : rank[r] < rank[t] => r \in P) => t \in P
      BY <2>1
    <3> QED BY <1>2, <3>1, RankedInduction
  <2>3. \A t \in S : to[t] \in T
    BY <2>2 DEF P
  <2>4. to = [t \in S |-> to[t]]
    BY <1>12
  <2> QED BY <2>3, <2>4 DEF X
<1> QED BY <1>7, <1>13, <1>14 DEF S, T, X

-----------------------------------------------------------------------------
(* The slowest chain: the points and the seconds of the best chain to a task. *)

Designs == {"automation", "security", "schema", "memory"}

\* The best chain to the synthesis, before the synthesis.
EntryPoints(topics) ==
    IF "implementation" \in topics THEN 9 ELSE IF topics \cap Designs # {} THEN 7 ELSE 4

EntrySeconds(topics) ==
    IF "implementation" \in topics THEN 1200 ELSE IF topics \cap Designs # {} THEN 840 ELSE 480

ChainPoints(topics, t) ==
    CASE t = "intent" -> 1
      [] t \in {"architecture", "research", "voice"} -> 4
      [] t = "implementation" -> 9
      [] t \in Designs -> 7
      [] t = "synthesis" -> EntryPoints(topics) + Points[Complexity(topics, t)]
      [] t = "verification" -> EntryPoints(topics) + Points[Complexity(topics, "synthesis")] + 3
      [] t = "memory_write" -> EntryPoints(topics) + Points[Complexity(topics, "synthesis")] + 4

ChainSeconds(topics, t) ==
    CASE t = "intent" -> 120
      [] t \in {"architecture", "research", "voice"} -> 480
      [] t = "implementation" -> 1200
      [] t \in Designs -> 840
      [] t = "synthesis" -> EntrySeconds(topics) + Seconds[Complexity(topics, t)]
      [] t = "verification" -> EntrySeconds(topics) + Seconds[Complexity(topics, "synthesis")] + 360
      [] t = "memory_write" -> EntrySeconds(topics) + Seconds[Complexity(topics, "synthesis")] + 480

LEMMA ChainsAreNumbers ==
    ASSUME NEW topics, NEW t \in Task
    PROVE  ChainPoints(topics, t) \in Nat /\ ChainSeconds(topics, t) \in Nat
<1>1. Points[Complexity(topics, "synthesis")] \in Nat /\ Seconds[Complexity(topics, "synthesis")] \in Nat
  BY WeightsAreNumbers
<1>2. EntryPoints(topics) \in Nat /\ EntrySeconds(topics) \in Nat
  BY DEF EntryPoints, EntrySeconds
<1> QED BY <1>1, <1>2 DEF ChainPoints, ChainSeconds, Task, Specialist, Designs

\* From the dependency with the most points: it also has the most seconds.
LEMMA ChainsGrow ==
    ASSUME NEW topics, topics \subseteq Specialist, NEW t \in TasksOf(topics),
           NEW d \in DependsOn(topics, t),
           \A e \in DependsOn(topics, t) : ChainPoints(topics, e) <= ChainPoints(topics, d)
    PROVE  /\ ChainPoints(topics, t) = ChainPoints(topics, d) + Points[Complexity(topics, t)]
           /\ ChainSeconds(topics, t) = ChainSeconds(topics, d) + Seconds[Complexity(topics, t)]
           /\ \A e \in DependsOn(topics, t) : ChainSeconds(topics, e) <= ChainSeconds(topics, d)
<1> DEFINE p(e) == ChainPoints(topics, e)
           q(e) == ChainSeconds(topics, e)
           w == Points[Complexity(topics, "synthesis")]
           v == Seconds[Complexity(topics, "synthesis")]
<1>1. t \in Task
  BY TasksAreTasks
<1>2. /\ p("intent") = 1 /\ q("intent") = 120
      /\ \A e \in {"architecture", "research", "voice"} : p(e) = 4 /\ q(e) = 480
      /\ p("implementation") = 9 /\ q("implementation") = 1200
      /\ \A e \in Designs : p(e) = 7 /\ q(e) = 840
  BY DEF ChainPoints, ChainSeconds, Designs
<1>3. /\ p("synthesis") = EntryPoints(topics) + w /\ q("synthesis") = EntrySeconds(topics) + v
      /\ p("verification") = EntryPoints(topics) + w + 3
      /\ q("verification") = EntrySeconds(topics) + v + 360
      /\ p("memory_write") = EntryPoints(topics) + w + 4
      /\ q("memory_write") = EntrySeconds(topics) + v + 480
  BY DEF ChainPoints, ChainSeconds, Designs
<1>4. w \in Nat /\ v \in Nat /\ EntryPoints(topics) \in Nat /\ EntrySeconds(topics) \in Nat
  BY WeightsAreNumbers DEF EntryPoints, EntrySeconds
<1> HIDE DEF w, v
<1>5. CASE t = "intent"
  BY <1>5 DEF DependsOn
<1>6. CASE t \in {"architecture", "research", "voice"} \cup Designs
  <2>1. /\ DependsOn(topics, t) = IF t \in Designs THEN {"architecture"} ELSE {"intent"}
        /\ Points[Complexity(topics, t)] = 3 /\ Seconds[Complexity(topics, t)] = 360
    BY <1>6 DEF DependsOn, Designs, Complexity, Points, Seconds
  <2> HIDE DEF p, q
  <2>2. p(t) = p(d) + 3 /\ q(t) = q(d) + 360
    BY <1>2, <1>6, <2>1 DEF Designs
  <2>3. \A e \in DependsOn(topics, t) : e = d
    BY <2>1
  <2>4. q(d) <= q(d)
    BY <1>2, <2>1
  <2> QED BY <2>1, <2>2, <2>3, <2>4 DEF p, q
<1>7. CASE t = "implementation"
  <2>1. /\ DependsOn(topics, t) \subseteq {"architecture", "research"}
        /\ Points[Complexity(topics, t)] = 5 /\ Seconds[Complexity(topics, t)] = 720
    BY <1>7 DEF DependsOn, Complexity, Points, Seconds
  <2> HIDE DEF p, q
  <2>2. p(t) = p(d) + 5 /\ q(t) = q(d) + 720 /\ \A e \in DependsOn(topics, t) : q(e) <= q(d)
    BY <1>2, <1>7, <2>1
  <2> QED BY <2>1, <2>2 DEF p, q
<1>8. CASE t = "synthesis"
  <2>1. DependsOn(topics, t) = IF topics = {} THEN {"architecture"} ELSE topics
    BY <1>8 DEF DependsOn
  <2>3. \A e \in DependsOn(topics, t) : p(e) <= p(d)
    OBVIOUS
  <2> HIDE DEF p, q
  <2>2. ASSUME NEW e \in DependsOn(topics, t)
        PROVE  \/ e \in {"architecture", "research", "voice"} /\ p(e) = 4 /\ q(e) = 480
               \/ e \in Designs /\ p(e) = 7 /\ q(e) = 840
               \/ e = "implementation" /\ p(e) = 9 /\ q(e) = 1200
    <3>1. e = "architecture" \/ e \in Specialist
      BY <2>1
    <3>2. e \in {"architecture", "research", "voice"} \/ e \in Designs \/ e = "implementation"
      BY <3>1 DEF Specialist, Designs
    <3> QED BY <1>2, <3>2
  <2>4. p(d) = EntryPoints(topics) /\ q(d) = EntrySeconds(topics)
        /\ \A e \in DependsOn(topics, t) : q(e) <= q(d)
    <3>1. CASE "implementation" \in topics
      <4>1. p(d) = 9 /\ q(d) = 1200
        <5>1. "implementation" \in DependsOn(topics, t)
          BY <2>1, <3>1
        <5>2. 9 <= p(d)
          BY <1>2, <2>3, <5>1
        <5> QED BY <2>2, <5>2
      <4> QED BY <2>2, <3>1, <4>1 DEF EntryPoints, EntrySeconds
    <3>2. CASE "implementation" \notin topics /\ topics \cap Designs # {}
      <4>1. PICK e \in topics : e \in Designs
        BY <3>2
      <4>2. 7 <= p(d)
        BY <1>2, <2>1, <2>3, <4>1
      <4>3. \A x \in DependsOn(topics, t) : x # "implementation"
        BY <2>1, <3>2
      <4>4. p(d) = 7 /\ q(d) = 840
        BY <2>2, <4>2, <4>3
      <4> QED BY <2>2, <3>2, <4>3, <4>4 DEF EntryPoints, EntrySeconds
    <3>3. CASE "implementation" \notin topics /\ topics \cap Designs = {}
      <4>1. \A x \in DependsOn(topics, t) : x # "implementation" /\ x \notin Designs
        BY <2>1, <3>3 DEF Designs
      <4>2. \A x \in DependsOn(topics, t) : p(x) = 4 /\ q(x) = 480
        BY <2>2, <4>1
      <4> QED BY <3>3, <4>2 DEF EntryPoints, EntrySeconds
    <3> QED BY <3>1, <3>2, <3>3
  <2> QED BY <1>3, <1>8, <2>4 DEF p, q, w, v
<1>9. CASE t \in {"verification", "memory_write"}
  <2>1. /\ DependsOn(topics, t) = IF t = "verification" THEN {"synthesis"} ELSE {"verification"}
        /\ Points[Complexity(topics, t)] = IF t = "verification" THEN 3 ELSE 1
        /\ Seconds[Complexity(topics, t)] = IF t = "verification" THEN 360 ELSE 120
    BY <1>9 DEF DependsOn, Complexity, Points, Seconds
  <2> HIDE DEF p, q
  <2>2. p(t) = p(d) + Points[Complexity(topics, t)] /\ q(t) = q(d) + Seconds[Complexity(topics, t)]
    BY <1>3, <1>4, <1>9, <2>1
  <2>3. \A e \in DependsOn(topics, t) : e = d
    BY <2>1
  <2>4. q(d) <= q(d)
    BY <1>3, <1>4, <2>1
  <2> QED BY <2>2, <2>3, <2>4 DEF p, q
<1> QED BY <1>1, <1>5, <1>6, <1>7, <1>8, <1>9 DEF Task, Specialist, Designs

LEMMA ChainsStart ==
    ASSUME NEW topics, topics \subseteq Specialist, NEW t \in TasksOf(topics)
    PROVE  IF t = "intent"
           THEN /\ DependsOn(topics, t) = {}
                /\ ChainPoints(topics, t) = Points[Complexity(topics, t)]
                /\ ChainSeconds(topics, t) = Seconds[Complexity(topics, t)]
           ELSE DependsOn(topics, t) # {}
<1>1. t \in Task
  BY TasksAreTasks
<1>2. ASSUME t = "intent"
      PROVE  /\ DependsOn(topics, t) = {}
             /\ ChainPoints(topics, t) = Points[Complexity(topics, t)]
             /\ ChainSeconds(topics, t) = Seconds[Complexity(topics, t)]
  <2>1. DependsOn(topics, t) = {}
    BY <1>2 DEF DependsOn
  <2>2. Complexity(topics, t) = "low"
    BY <1>2 DEF Complexity
  <2>3. Points["low"] = 1 /\ Seconds["low"] = 120
    BY DEF Points, Seconds
  <2>4. ChainPoints(topics, t) = 1 /\ ChainSeconds(topics, t) = 120
    BY <1>2 DEF ChainPoints, ChainSeconds, Designs
  <2> QED BY <2>1, <2>2, <2>3, <2>4
<1>3. t # "intent" => DependsOn(topics, t) # {}
  BY <1>1 DEF DependsOn, Task, Specialist
<1> QED BY <1>2, <1>3

\* The last task has more points than any other, and as many seconds.
LEMMA LastIsLongest ==
    ASSUME NEW topics, topics \subseteq Specialist, NEW t \in TasksOf(topics)
    PROVE  /\ ChainSeconds(topics, t) <= ChainSeconds(topics, "memory_write")
           /\ t # "memory_write" => ChainPoints(topics, t) < ChainPoints(topics, "memory_write")
<1> DEFINE w == Points[Complexity(topics, "synthesis")]
           v == Seconds[Complexity(topics, "synthesis")]
<1>1. t \in Task /\ (t \in Specialist => t \in topics)
  BY DEF TasksOf, Task, Specialist
<1>2. w \in Nat /\ v \in Nat
  BY WeightsAreNumbers
<1> HIDE DEF w, v
<1>3. /\ EntryPoints(topics) \in {4, 7, 9} /\ EntrySeconds(topics) \in {480, 840, 1200}
      /\ t = "implementation" => EntryPoints(topics) = 9 /\ EntrySeconds(topics) = 1200
      /\ t \in Designs => EntryPoints(topics) \in {7, 9} /\ EntrySeconds(topics) \in {840, 1200}
  BY <1>1 DEF EntryPoints, EntrySeconds, Designs, Specialist
<1>4. /\ ChainPoints(topics, "memory_write") = EntryPoints(topics) + w + 4
      /\ ChainSeconds(topics, "memory_write") = EntrySeconds(topics) + v + 480
  BY DEF ChainPoints, ChainSeconds, Designs, w, v
<1>5. \/ t = "intent" /\ ChainPoints(topics, t) = 1 /\ ChainSeconds(topics, t) = 120
      \/ /\ t \in {"architecture", "research", "voice"}
         /\ ChainPoints(topics, t) = 4 /\ ChainSeconds(topics, t) = 480
      \/ t = "implementation" /\ ChainPoints(topics, t) = 9 /\ ChainSeconds(topics, t) = 1200
      \/ t \in Designs /\ ChainPoints(topics, t) = 7 /\ ChainSeconds(topics, t) = 840
      \/ /\ t = "synthesis" /\ ChainPoints(topics, t) = EntryPoints(topics) + w
         /\ ChainSeconds(topics, t) = EntrySeconds(topics) + v
      \/ /\ t = "verification" /\ ChainPoints(topics, t) = EntryPoints(topics) + w + 3
         /\ ChainSeconds(topics, t) = EntrySeconds(topics) + v + 360
      \/ t = "memory_write"
  BY <1>1 DEF ChainPoints, ChainSeconds, Designs, Task, Specialist, w, v
<1> QED BY <1>2, <1>3, <1>4, <1>5

LEMMA SomeDependencyIsBest ==
    ASSUME NEW topics, topics \subseteq Specialist, NEW t \in TasksOf(topics), t # "intent"
    PROVE  \E d \in DependsOn(topics, t) :
              \A e \in DependsOn(topics, t) : ChainPoints(topics, e) <= ChainPoints(topics, d)
<1> DEFINE D == DependsOn(topics, t)
           f == [d \in D |-> ChainPoints(topics, d)]
<1>1. D \subseteq Task /\ D # {}
  BY DependenciesAreBuiltBefore, TasksAreTasks, ChainsStart
<1>2. IsFiniteSet(D)
  BY <1>1, TaskSetsAreFinite
<1>3. f \in [D -> Nat]
  BY <1>1, ChainsAreNumbers
<1>4. PICK d \in D : \A e \in D : f[e] <= f[d]
  BY <1>1, <1>2, <1>3, GreatestValue
<1> QED BY <1>4

\* What a chain to t has to do with the best one: no chain takes more time.
LEMMA ChainsAreNoSlower ==
    ASSUME NEW topics, topics \subseteq Specialist,
           NEW to \in [TasksOf(topics) -> SUBSET Seq(Task)],
           \A t \in TasksOf(topics) : to[t] = Longer(topics, to, t)
    PROVE  \A t \in TasksOf(topics) : \A chain \in to[t] :
              RuntimeForPath(topics, chain) <= ChainSeconds(topics, t)
<1> DEFINE S == TasksOf(topics)
           rank == [t \in S |-> Built[t]]
           n == 12
           P == {t \in S : \A chain \in to[t] : RuntimeForPath(topics, chain) <= ChainSeconds(topics, t)}
<1>1. S \subseteq Task
  BY TasksAreTasks
<1>2. rank \in [S -> 0..n] /\ n \in Nat
  <2>1. \A t \in S : Built[t] \in 0..12
    BY <1>1, BuiltIsRank
  <2> QED BY <2>1
<1>3. ASSUME NEW t \in S, \A r \in S : rank[r] < rank[t] => r \in P PROVE t \in P
  <2>1. \A d \in DependsOn(topics, t) : d \in P
    BY <1>3, DependenciesAreBuiltBefore
  <2>2. t \in Task
    BY <1>1
  <2> HIDE DEF S, rank, n, P
  <2>3. CASE t = "intent"
    <3>1. to[t] = {<<t>>} /\ ChainSeconds(topics, t) = Seconds[Complexity(topics, t)]
      BY <1>3, <2>3, ChainsStart DEF Longer, S
    <3>2. RuntimeForPath(topics, <<t>>) = Seconds[Complexity(topics, t)]
      BY <2>2, RuntimeOfOne
    <3>3. Seconds[Complexity(topics, t)] \in Nat
      BY WeightsAreNumbers
    <3> QED BY <1>3, <3>1, <3>2, <3>3 DEF P
  <2>4. CASE t # "intent"
    <3>1. PICK d \in DependsOn(topics, t) :
             \A e \in DependsOn(topics, t) : ChainPoints(topics, e) <= ChainPoints(topics, d)
      BY <1>3, <2>4, SomeDependencyIsBest DEF S
    <3>2. /\ ChainSeconds(topics, t) = ChainSeconds(topics, d) + Seconds[Complexity(topics, t)]
          /\ \A e \in DependsOn(topics, t) : ChainSeconds(topics, e) <= ChainSeconds(topics, d)
      BY <1>3, <3>1, ChainsGrow DEF S
    <3>3. DependsOn(topics, t) # {}
      BY <3>1
    <3>4. to[t] = {Append(chain, t) : chain \in UNION {to[e] : e \in DependsOn(topics, t)}}
      BY <1>3, <3>3 DEF Longer, S
    <3>5. ASSUME NEW e \in DependsOn(topics, t), NEW chain \in to[e]
          PROVE  RuntimeForPath(topics, Append(chain, t)) <= ChainSeconds(topics, t)
      <4>1. e \in S /\ RuntimeForPath(topics, chain) <= ChainSeconds(topics, e)
        BY <2>1 DEF P
      <4>2. e \in Task /\ d \in Task /\ chain \in Seq(Task)
        BY <1>1, <2>1, <4>1 DEF S, P
      <4>3. /\ RuntimeForPath(topics, chain) \in Nat
            /\ RuntimeForPath(topics, Append(chain, t))
                 = RuntimeForPath(topics, chain) + Seconds[Complexity(topics, t)]
        BY <2>2, <4>2, RuntimeAppend
      <4>4. ChainSeconds(topics, e) \in Nat /\ ChainSeconds(topics, d) \in Nat
            /\ Seconds[Complexity(topics, t)] \in Nat
        BY <4>2, ChainsAreNumbers, WeightsAreNumbers
      <4>5. ChainSeconds(topics, e) <= ChainSeconds(topics, d)
        BY <3>2
      <4> QED BY <3>2, <4>1, <4>3, <4>4, <4>5
    <3>6. \A chain \in to[t] : RuntimeForPath(topics, chain) <= ChainSeconds(topics, t)
      BY <3>4, <3>5
    <3> QED BY <1>3, <3>6 DEF P
  <2> QED BY <2>3, <2>4
<1> HIDE DEF S, rank, n, P
<1>4. \A t \in S : (\A r \in S : rank[r] < rank[t] => r \in P) => t \in P
  BY <1>3
<1>5. S \subseteq P
  BY <1>2, <1>4, RankedInduction
<1> QED BY <1>5 DEF S, P

\* The best path to a task is a chain to it, with these points and seconds.
LEMMA BestPathsAreChains ==
    ASSUME NEW topics, topics \subseteq Specialist,
           NEW to \in [TasksOf(topics) -> SUBSET Seq(Task)],
           \A t \in TasksOf(topics) : to[t] = Longer(topics, to, t),
           NEW best \in [TasksOf(topics) -> Trail],
           \A t \in TasksOf(topics) : best[t] = Better(topics, best, t)
    PROVE  \A t \in TasksOf(topics) :
              /\ best[t].score = ChainPoints(topics, t)
              /\ best[t].path \in to[t]
              /\ RuntimeForPath(topics, best[t].path) = ChainSeconds(topics, t)
<1> DEFINE S == TasksOf(topics)
           rank == [t \in S |-> Built[t]]
           n == 12
           Right(t) == /\ best[t].score = ChainPoints(topics, t)
                       /\ best[t].path \in to[t]
                       /\ RuntimeForPath(topics, best[t].path) = ChainSeconds(topics, t)
           P == {t \in S : Right(t)}
<1>1. S \subseteq Task
  BY TasksAreTasks
<1>2. rank \in [S -> 0..n] /\ n \in Nat
  <2>1. \A t \in S : Built[t] \in 0..12
    BY <1>1, BuiltIsRank
  <2> QED BY <2>1
<1>3. ASSUME NEW t \in S, \A r \in S : rank[r] < rank[t] => r \in P PROVE t \in P
  <2> DEFINE D == DependsOn(topics, t) \cap S
             points == Points[Complexity(topics, t)]
  <2>1. \A d \in DependsOn(topics, t) : d \in P /\ d \in S /\ d \in Task
    BY <1>1, <1>3, DependenciesAreBuiltBefore
  <2>2. t \in Task
    BY <1>1
  <2>3. best[t] = Extend({best[d] : d \in D}, t, points)
    BY <1>3 DEF Better
  <2>4. D = DependsOn(topics, t)
    BY <2>1
  <2>a. \A d \in S : best[d] \in Trail
    OBVIOUS
  <2> HIDE DEF S, rank, n, P, D, points
  <2>5. CASE t = "intent"
    <3>1. D = {} /\ to[t] = {<<t>>} /\ ChainPoints(topics, t) = points
          /\ ChainSeconds(topics, t) = Seconds[Complexity(topics, t)]
      BY <1>3, <2>4, <2>5, ChainsStart DEF Longer, S, points
    <3>2. best[t] = [score |-> points, path |-> <<t>>]
      BY <2>3, <3>1 DEF Extend
    <3>3. RuntimeForPath(topics, <<t>>) = Seconds[Complexity(topics, t)]
      BY <2>2, RuntimeOfOne
    <3> QED BY <1>3, <3>1, <3>2, <3>3 DEF P
  <2>6. CASE t # "intent"
    <3> DEFINE paths == {best[d] : d \in D}
    <3>1. D # {} /\ D \subseteq Task
      BY <1>3, <2>1, <2>4, <2>6, ChainsStart DEF S
    <3>2. FirstBest(paths) \in paths /\ \A y \in paths : y.score <= FirstBest(paths).score
      <4> DEFINE G == [d \in D |-> best[d]]
      <4>1. G \in [D -> Trail]
        BY <2>1, <2>4, <2>a
      <4>2. paths = {G[d] : d \in D}
        OBVIOUS
      <4> HIDE DEF G, paths
      <4> QED BY <3>1, <4>1, <4>2, FirstBestIsBest
    <3>3. PICK d \in D : FirstBest(paths) = best[d]
      BY <3>2
    <3>4. \A e \in D : Right(e)
      BY <2>1, <2>4 DEF P
    <3>5. \A e \in DependsOn(topics, t) : ChainPoints(topics, e) <= ChainPoints(topics, d)
      <4>1. \A e \in D : best[e].score <= best[d].score
        BY <3>2, <3>3
      <4> QED BY <2>4, <3>4, <4>1
    <3>6. /\ ChainPoints(topics, t) = ChainPoints(topics, d) + points
          /\ ChainSeconds(topics, t) = ChainSeconds(topics, d) + Seconds[Complexity(topics, t)]
      BY <1>3, <2>4, <3>5, ChainsGrow DEF S, points
    <3>7. best[t] = [score |-> best[d].score + points, path |-> Append(best[d].path, t)]
      <4>1. paths # {}
        BY <3>1
      <4>2. best[t] = Extend(paths, t, points)
        BY <2>3
      <4> HIDE DEF paths
      <4> QED BY <3>3, <4>1, <4>2 DEF Extend
    <3>8. best[d].path \in Seq(Task)
      BY <2>1, <2>4, <2>a DEF Trail
    <3>9. best[t].path \in to[t]
      <4>1. to[t] = {Append(chain, t) : chain \in UNION {to[e] : e \in DependsOn(topics, t)}}
        BY <1>3, <2>4, <3>1 DEF Longer, S
      <4>2. best[d].path \in to[d] /\ best[t].path = Append(best[d].path, t)
        BY <3>4, <3>7
      <4> QED BY <2>4, <4>1, <4>2
    <3>10. RuntimeForPath(topics, best[t].path) = ChainSeconds(topics, t)
      <4>1. RuntimeForPath(topics, Append(best[d].path, t))
              = RuntimeForPath(topics, best[d].path) + Seconds[Complexity(topics, t)]
        BY <2>2, <3>8, RuntimeAppend
      <4> QED BY <3>4, <3>6, <3>7, <4>1
    <3>11. best[t].score = ChainPoints(topics, t)
      BY <3>4, <3>6, <3>7
    <3> QED BY <1>3, <3>9, <3>10, <3>11 DEF P
  <2> QED BY <2>5, <2>6
<1> HIDE DEF S, rank, n, P
<1>4. \A t \in S : (\A r \in S : rank[r] < rank[t] => r \in P) => t \in P
  BY <1>3
<1>5. S \subseteq P
  BY <1>2, <1>4, RankedInduction
<1> QED BY <1>5 DEF S, P

\* The critical path is a chain that no chain is slower than.
LEMMA CriticalPathIsSlowest ==
    ASSUME NEW topics, topics \subseteq Specialist
    PROVE  /\ CriticalPath[topics] \in Seq(Task)
           /\ CriticalPath[topics] \in Chains[topics]
           /\ RuntimeForPath(topics, CriticalPath[topics]) = ChainSeconds(topics, "memory_write")
           /\ \A chain \in Chains[topics] :
                 RuntimeForPath(topics, chain) <= ChainSeconds(topics, "memory_write")
<1> DEFINE S == TasksOf(topics)
<1>1. PICK to \in [S -> SUBSET Seq(Task)] :
         /\ \A t \in S : to[t] = Longer(topics, to, t)
         /\ Chains[topics] = UNION {to[t] : t \in S}
  BY ChainsExist
<1>2. PICK best \in [S -> Trail] :
         /\ \A t \in S : best[t] = Better(topics, best, t)
         /\ CriticalPath[topics] = FirstBest({best[t] : t \in S}).path
  BY BestPathsExist
<1>3. \A t \in S : /\ best[t].score = ChainPoints(topics, t)
                   /\ best[t].path \in to[t]
                   /\ RuntimeForPath(topics, best[t].path) = ChainSeconds(topics, t)
  BY <1>1, <1>2, BestPathsAreChains
<1>4. S \subseteq Task /\ "memory_write" \in S
  BY TasksAreTasks DEF TasksOf
<1>5. PICK u \in S : FirstBest({best[t] : t \in S}) = best[u]
                     /\ \A t \in S : best[t].score <= best[u].score
  <2> DEFINE paths == {best[t] : t \in S}
  <2>1. FirstBest(paths) \in paths /\ \A y \in paths : y.score <= FirstBest(paths).score
    <3>1. S # {}
      BY <1>4
    <3> HIDE DEF S
    <3> QED BY <1>4, <3>1, FirstBestIsBest
  <2> QED BY <2>1
<1>6. u = "memory_write"
  <2>1. ChainPoints(topics, "memory_write") <= ChainPoints(topics, u)
    BY <1>3, <1>4, <1>5
  <2>2. ChainPoints(topics, "memory_write") \in Nat /\ ChainPoints(topics, u) \in Nat
    BY <1>4, ChainsAreNumbers
  <2>3. u # "memory_write" => ChainPoints(topics, u) < ChainPoints(topics, "memory_write")
    BY LastIsLongest
  <2> QED BY <2>1, <2>2, <2>3
<1>7. CriticalPath[topics] = best[u].path
  BY <1>2, <1>5
<1>8. ASSUME NEW chain \in Chains[topics]
      PROVE  RuntimeForPath(topics, chain) <= ChainSeconds(topics, "memory_write")
  <2>1. PICK t \in S : chain \in to[t]
    BY <1>1
  <2>2. RuntimeForPath(topics, chain) <= ChainSeconds(topics, t)
    BY <1>1, <2>1, ChainsAreNoSlower
  <2>3. ChainSeconds(topics, t) <= ChainSeconds(topics, "memory_write")
    BY LastIsLongest
  <2>4. chain \in Seq(Task)
    BY <2>1
  <2>5. RuntimeForPath(topics, chain) \in Nat
    BY <1>4, <2>4, RuntimeAppend
  <2>6. ChainSeconds(topics, t) \in Nat /\ ChainSeconds(topics, "memory_write") \in Nat
    BY <1>4, ChainsAreNumbers
  <2> QED BY <2>2, <2>3, <2>5, <2>6
<1> QED BY <1>1, <1>3, <1>6, <1>7, <1>8

-----------------------------------------------------------------------------
(* The loop *)

LEMMA SomethingIsReady ==
    ASSUME PlannerInv, remaining # {}
    PROVE  Ready # {}
<1>1. request.topics \subseteq Specialist
  BY PlannerAssumption DEF PlannerInv, Request
<1>2. PICK t \in remaining : DependsOn(request.topics, t) \cap remaining = {}
  BY <1>1, GraphHasNoCycle DEF PlannerInv
<1>3. DependsOn(request.topics, t) \subseteq TasksOf(request.topics)
  BY <1>1, DependenciesAreBuiltBefore DEF PlannerInv
<1>4. DependsOn(request.topics, t) \subseteq completed
  BY <1>2, <1>3 DEF PlannerInv
<1> QED BY <1>2, <1>4 DEF Ready

LEMMA RoundKeepsInv ==
    ASSUME PlannerInv, FormRound
    PROVE  PlannerInv'
<1> DEFINE group == Group(Ready)
           n == Len(rounds)
<1>1. /\ rounds' = Append(rounds, group) /\ completed' = completed \cup group
      /\ remaining' = remaining \ group
      /\ UNCHANGED <<request, plan, pc>> /\ pc = "grouping"
  BY DEF FormRound
<1>2. request.topics \subseteq Specialist /\ request.parallel \in 1..MaxParallelism
  BY PlannerAssumption DEF PlannerInv, Request
<1>3. /\ group \subseteq remaining
      /\ \A t \in group : DependsOn(request.topics, t) \subseteq completed
  BY DEF Group, Ready
<1>4. remaining \subseteq Task
  BY <1>2, TasksAreTasks DEF PlannerInv
<1>5. Cardinality(group) <= request.parallel
  <2>1. Ready \subseteq Task
    BY <1>4 DEF Ready
  <2> QED BY <2>1, <1>2, GroupFits
<1>5a. group # {}
  <2>1. Ready \subseteq Task /\ Ready # {}
    BY <1>4 DEF Ready, FormRound
  <2> QED BY <1>2, <2>1, GroupIsSomeReady
<1> HIDE DEF group
<1>6. /\ rounds' \in Seq((SUBSET Task) \ {{}}) /\ n \in Nat /\ Len(rounds') = n + 1
      /\ rounds'[n + 1] = group
      /\ \A i \in 1..n : rounds'[i] = rounds[i]
  BY <1>1, <1>3, <1>4, <1>5a DEF PlannerInv
<1>7. completed' = UNION {rounds'[i] : i \in 1..Len(rounds')}
  <2>1. {rounds'[i] : i \in 1..Len(rounds')} = {rounds[i] : i \in 1..n} \cup {group}
    <3>1. 1..(n + 1) = 1..n \cup {n + 1}
      BY <1>6
    <3> QED BY <1>6, <3>1
  <2> QED BY <1>1, <2>1 DEF PlannerInv
<1>8. RoundsRespectDependencies'
  <2> SUFFICES ASSUME NEW i \in 1..(n + 1)
               PROVE  /\ Cardinality(rounds'[i]) <= request.parallel
                      /\ \A j \in 1..(n + 1) : i # j => rounds'[i] \cap rounds'[j] = {}
                      /\ \A t \in rounds'[i] :
                            DependsOn(request.topics, t) \subseteq UNION {rounds'[j] : j \in 1..i-1}
    <3>1. DOMAIN rounds' = 1..(n + 1) /\ request' = request
      BY <1>1, <1>6
    <3> QED BY <3>1 DEF RoundsRespectDependencies
  <2>1. DOMAIN rounds = 1..n
    BY DEF PlannerInv
  <2>2. \A j \in 1..n : rounds[j] \cap group = {}
    BY <1>3 DEF PlannerInv
  <2>3. CASE i \in 1..n
    <3>1. /\ Cardinality(rounds[i]) <= request.parallel
          /\ \A j \in 1..n : i # j => rounds[i] \cap rounds[j] = {}
          /\ \A t \in rounds[i] :
                DependsOn(request.topics, t) \subseteq UNION {rounds[j] : j \in 1..i-1}
      BY <2>1, <2>3 DEF PlannerInv, RoundsRespectDependencies
    <3>2. \A j \in 1..(n + 1) : i # j => rounds'[i] \cap rounds'[j] = {}
      <4> SUFFICES ASSUME NEW j \in 1..(n + 1), i # j PROVE rounds'[i] \cap rounds'[j] = {}
        OBVIOUS
      <4>1. CASE j \in 1..n
        BY <1>6, <2>3, <3>1, <4>1
      <4>2. CASE j = n + 1
        BY <1>6, <2>2, <2>3, <4>2
      <4> QED BY <1>6, <4>1, <4>2
    <3>3. {rounds'[j] : j \in 1..i-1} = {rounds[j] : j \in 1..i-1}
      <4>1. \A j \in 1..i-1 : j \in 1..n
        BY <1>6, <2>3
      <4> QED BY <1>6, <4>1
    <3> QED BY <1>6, <2>3, <3>1, <3>2, <3>3
  <2>4. CASE i = n + 1
    <3>1. \A j \in 1..(n + 1) : i # j => rounds'[i] \cap rounds'[j] = {}
      <4> SUFFICES ASSUME NEW j \in 1..(n + 1), i # j PROVE rounds'[i] \cap rounds'[j] = {}
        OBVIOUS
      <4>1. j \in 1..n
        BY <1>6, <2>4
      <4> QED BY <1>6, <2>2, <2>4, <4>1
    <3>2. {rounds'[j] : j \in 1..i-1} = {rounds[j] : j \in 1..n}
      <4>1. 1..i-1 = 1..n
        BY <1>6, <2>4
      <4> QED BY <1>6, <4>1
    <3>3. \A t \in group : DependsOn(request.topics, t) \subseteq UNION {rounds'[j] : j \in 1..i-1}
      BY <1>3, <3>2 DEF PlannerInv
    <3> QED BY <1>5, <1>6, <2>4, <3>1, <3>3
  <2> QED BY <1>6, <2>3, <2>4
<1> QED
  <2>1. completed' \subseteq TasksOf(request.topics) /\ remaining' = TasksOf(request.topics) \ completed'
    BY <1>1, <1>3 DEF PlannerInv
  <2>2. plan' = NoPlan /\ pc' = "grouping"
    BY <1>1 DEF PlannerInv
  <2> QED BY <1>1, <1>6, <1>7, <1>8, <2>1, <2>2 DEF PlannerInv

LEMMA PlannerStep == PlannerInv /\ [Next]_plannerVars => PlannerInv'
<1> SUFFICES ASSUME PlannerInv, [Next]_plannerVars PROVE PlannerInv'
  OBVIOUS
<1>1. CASE FormRound
  BY <1>1, RoundKeepsInv
<1>2. CASE Assemble
  <2>1. UNCHANGED <<request, remaining, completed, rounds>> /\ Ready = {}
    BY <1>2 DEF Assemble
  <2>2. remaining = {}
    BY <2>1, SomethingIsReady
  <2>3. plan' = PlanOf(request') /\ pc' = "planned"
    <3>1. plan' = PlanOf(request) /\ pc' = "planned"
      BY <1>2 DEF Assemble, PlanOf
    <3> QED BY <2>1, <3>1
  <2>4. RoundsRespectDependencies'
    BY <2>1 DEF PlannerInv, RoundsRespectDependencies
  <2> QED BY <2>1, <2>2, <2>3, <2>4 DEF PlannerInv
<1>3. CASE Answer
  BY <1>3 DEF Answer, PlannerInv, RoundsRespectDependencies
<1>4. CASE UNCHANGED plannerVars
  BY <1>4 DEF plannerVars, PlannerInv, RoundsRespectDependencies
<1> QED BY <1>1, <1>2, <1>3, <1>4 DEF Next

LEMMA PlannerStart == Init => PlannerInv
<1> SUFFICES ASSUME Init PROVE PlannerInv
  OBVIOUS
<1>1. rounds = <<>> /\ completed = {} /\ plan = NoPlan /\ pc = "grouping"
  BY DEF Init
<1>2. rounds \in Seq(SUBSET Task) /\ Len(rounds) = 0 /\ DOMAIN rounds = {}
  BY <1>1
<1>3. completed = UNION {rounds[i] : i \in 1..Len(rounds)}
  BY <1>1, <1>2
<1> QED BY <1>1, <1>2, <1>3, PlannerAssumption DEF Init, PlannerInv, RoundsRespectDependencies

-----------------------------------------------------------------------------
(* The estimate *)

LEMMA RoundTakesItsSlowest ==
    ASSUME PlannerInv, NEW i \in DOMAIN rounds
    PROVE  /\ RoundSeconds(i) \in Nat
           /\ \A t \in rounds[i] : Seconds[Complexity(request.topics, t)] <= RoundSeconds(i)
<1> DEFINE D == rounds[i]
           f == [t \in D |-> Seconds[Complexity(request.topics, t)]]
           times == {Seconds[Complexity(request.topics, t)] : t \in D}
<1>1. D \subseteq Task /\ D # {}
  <2>1. rounds \in Seq((SUBSET Task) \ {{}})
    BY DEF PlannerInv
  <2>2. rounds[i] \in (SUBSET Task) \ {{}}
    BY <2>1
  <2> QED BY <2>2
<1>2. IsFiniteSet(D)
  BY <1>1, TaskSetsAreFinite
<1> HIDE DEF D
<1>3. f \in [D -> Nat]
  BY WeightsAreNumbers
<1>4. PICK m \in D : \A t \in D : f[t] <= f[m]
  BY <1>1, <1>2, <1>3, GreatestValue
<1>5. \A x \in times : x \in Nat
  BY WeightsAreNumbers
<1>6. f[m] \in times /\ \A x \in times : f[m] >= x
  BY <1>3, <1>4, <1>5
<1>7. Max(times) \in times /\ \A x \in times : Max(times) >= x
  BY <1>6 DEF Max
<1>8. RoundSeconds(i) = Max(times)
  BY DEF RoundSeconds, D
<1> HIDE DEF times
<1>9. RoundSeconds(i) \in Nat /\ \A x \in times : x <= RoundSeconds(i)
  BY <1>5, <1>7, <1>8
<1> QED BY <1>9 DEF times, D

\* After each round, its tasks have had the time of the slowest chain to them.
LEMMA RoundsTakeTheirTime ==
    ASSUME PlannerInv, NEW g, NEW f \in [1..Len(rounds) -> Nat],
           \A i \in 1..Len(rounds) : f[i] = RoundSeconds(i),
           IsSum(g, f, 1..Len(rounds))
    PROVE  \A i \in 1..Len(rounds) : \A t \in rounds[i] :
              ChainSeconds(request.topics, t) <= g[1..Len(rounds)]
<1> DEFINE n == Len(rounds)
           topics == request.topics
           A == {k \in 0..n : /\ g[1..k] \in Nat
                              /\ \A i \in 1..k : \A t \in rounds[i] : ChainSeconds(topics, t) <= g[1..k]}
<1>1. n \in Nat /\ DOMAIN rounds = 1..n /\ topics \subseteq Specialist
  BY PlannerAssumption DEF PlannerInv, Request
<1>2. \A i \in 1..n : \A t \in rounds[i] : t \in Task /\ t \in TasksOf(topics)
  <2>1. \A i \in 1..n : rounds[i] \subseteq TasksOf(topics)
    BY DEF PlannerInv
  <2> QED BY <1>1, <2>1, TasksAreTasks
<1>3. /\ g[{}] = 0
      /\ \A s \in SUBSET (1..n) : \A x \in s : g[s] = f[x] + g[s \ {x}]
  <2>1. IsFiniteSet(1..n)
    <3>1. \A S \in SUBSET Nat : (\A i \in S : i <= n) => IsFiniteSet(S)
      BY <1>1, FS_BoundedSetOfNaturals
    <3>2. 1..n \in SUBSET Nat /\ \A i \in 1..n : i <= n
      BY <1>1
    <3> QED BY <3>1, <3>2, Zenon
  <2> DEFINE S == 1..n
  <2>2. f \in [S -> Int] /\ IsSum(g, f, S) /\ IsFiniteSet(S)
    BY <2>1
  <2> HIDE DEF S
  <2>3. ASSUME NEW s \in SUBSET S PROVE \A x \in s : TakesOff(g, f, s, x)
    BY <2>2, SumTakesAny
  <2>4. g[{}] = 0
    <3>1. {} \in SUBSET S
      OBVIOUS
    <3> QED BY <2>2, <3>1, SumTakesAny
  <2> QED BY <2>3, <2>4 DEF S, TakesOff
<1>4. \A i \in 1..n : \A t \in rounds[i] : Seconds[Complexity(topics, t)] <= f[i]
  BY <1>1, RoundTakesItsSlowest
<1>5. \A i \in 1..n : \A t \in rounds[i] : DependsOn(topics, t) \subseteq UNION {rounds[j] : j \in 1..i-1}
  BY <1>1 DEF PlannerInv, RoundsRespectDependencies
<1>a. \A i \in 1..n : f[i] \in Nat
  OBVIOUS
<1> HIDE DEF n, topics
<1>6. 0 \in A
  <2>1. 1..0 = {}
    OBVIOUS
  <2> QED BY <1>1, <1>3, <2>1
<1>7. ASSUME NEW k \in 0..n, k < n, k \in A PROVE k + 1 \in A
  <2>1. /\ k \in Nat /\ k + 1 \in 0..n /\ k + 1 \in 1..n /\ 1..(k + 1) \in SUBSET (1..n)
        /\ k + 1 \in 1..(k + 1) /\ (1..(k + 1)) \ {k + 1} = 1..k /\ (k + 1) - 1 = k
    BY <1>1, <1>7
  <2>2. g[1..(k + 1)] = f[k + 1] + g[1..k]
    <3>1. g[1..(k + 1)] = f[k + 1] + g[(1..(k + 1)) \ {k + 1}]
      BY <1>3, <2>1, Zenon
    <3> QED BY <2>1, <3>1, Zenon
  <2>3. g[1..k] \in Nat /\ \A i \in 1..k : \A t \in rounds[i] : ChainSeconds(topics, t) <= g[1..k]
    BY <1>7
  <2>4. f[k + 1] \in Nat
    BY <1>a, <2>1
  <2>5. ASSUME NEW t \in rounds[k + 1] PROVE ChainSeconds(topics, t) <= g[1..(k + 1)]
    <3>1. t \in Task /\ t \in TasksOf(topics) /\ Seconds[Complexity(topics, t)] <= f[k + 1]
      BY <1>2, <1>4, <2>1
    <3>2. Seconds[Complexity(topics, t)] \in Nat
      BY WeightsAreNumbers
    <3>3. CASE t = "intent"
      <4>1. ChainSeconds(topics, t) = Seconds[Complexity(topics, t)]
        BY <1>1, <3>1, <3>3, ChainsStart
      <4> HIDE DEF A
      <4> QED BY <2>2, <2>3, <2>4, <3>1, <3>2, <4>1
    <3>4. CASE t # "intent"
      <4>1. PICK d \in DependsOn(topics, t) :
               \A e \in DependsOn(topics, t) : ChainPoints(topics, e) <= ChainPoints(topics, d)
        BY <1>1, <3>1, <3>4, SomeDependencyIsBest
      <4>2. ChainSeconds(topics, t) = ChainSeconds(topics, d) + Seconds[Complexity(topics, t)]
        BY <1>1, <3>1, <4>1, ChainsGrow
      <4>3. PICK j \in 1..k : d \in rounds[j]
        <5>1. DependsOn(topics, t) \subseteq UNION {rounds[j] : j \in 1..k}
          BY <1>5, <2>1
        <5> QED BY <5>1
      <4>4. ChainSeconds(topics, d) <= g[1..k]
        BY <2>3, <4>3
      <4>5. ChainSeconds(topics, d) \in Nat
        <5>1. j \in 1..n
          BY <2>1, <1>1
        <5> QED BY <1>2, <4>3, <5>1, ChainsAreNumbers
      <4> HIDE DEF A
      <4> QED BY <2>2, <2>3, <2>4, <3>1, <3>2, <4>2, <4>4, <4>5
    <3> QED BY <3>3, <3>4
  <2>6. ASSUME NEW i \in 1..k, NEW t \in rounds[i] PROVE ChainSeconds(topics, t) <= g[1..(k + 1)]
    <3>1. ChainSeconds(topics, t) <= g[1..k]
      BY <2>3
    <3>2. ChainSeconds(topics, t) \in Nat
      <4>1. i \in 1..n
        BY <1>1, <2>1
      <4> QED BY <1>2, <4>1, ChainsAreNumbers
    <3> HIDE DEF A
    <3> QED BY <2>2, <2>3, <2>4, <3>1, <3>2
  <2>7. \A i \in 1..(k + 1) : \A t \in rounds[i] : ChainSeconds(topics, t) <= g[1..(k + 1)]
    <3>1. \A i \in 1..(k + 1) : i = k + 1 \/ i \in 1..k
      BY <2>1
    <3> QED BY <2>5, <2>6, <3>1
  <2>8. g[1..(k + 1)] \in Nat
    BY <2>2, <2>3, <2>4
  <2> QED BY <2>1, <2>7, <2>8
<1> HIDE DEF A
<1>8. n \in A
  <2>1. \A i \in 0..n : i < n /\ i \in A => i + 1 \in A
    BY <1>7
  <2>2. \A i \in 0..n : i \in A
    BY <1>1, <1>6, <2>1, InductionUpTo
  <2> QED BY <1>1, <2>2
<1> QED BY <1>8 DEF A, n, topics

LEMMA EstimateFitsTheRounds ==
    ASSUME PlannerInv, remaining = {}
    PROVE  ChainSeconds(request.topics, "memory_write") <= MapThenSumSet(RoundSeconds, DOMAIN rounds)
<1> DEFINE S == 1..Len(rounds)
           f == [i \in S |-> RoundSeconds(i)]
           g == CHOOSE g : IsSum(g, f, S)
<1>1. Len(rounds) \in Nat /\ DOMAIN rounds = S
  BY DEF PlannerInv
<1>2. IsFiniteSet(S)
  <2>1. \A T \in SUBSET Nat : (\A i \in T : i <= Len(rounds)) => IsFiniteSet(T)
    BY <1>1, FS_BoundedSetOfNaturals
  <2>2. S \in SUBSET Nat /\ \A i \in S : i <= Len(rounds)
    BY <1>1
  <2> QED BY <2>1, <2>2, Zenon
<1>3. f \in [S -> Nat]
  BY <1>1, RoundTakesItsSlowest
<1>4. MapThenSumSet(RoundSeconds, S) = g[S]
  <2> DEFINE iter == CHOOSE h : h = [s \in SUBSET S |->
                IF s = {} THEN 0 ELSE RoundSeconds(First(s)) + h[s \ {First(s)}]]
  <2>1. MapThenSumSet(RoundSeconds, S) = iter[S]
    BY DEF MapThenSumSet, MapThenFoldSet, First
  <2>2. \A h : ([s \in SUBSET S |-> IF s = {} THEN 0 ELSE RoundSeconds(First(s)) + h[s \ {First(s)}]]
                = [s \in SUBSET S |-> IF s = {} THEN 0 ELSE f[First(s)] + h[s \ {First(s)}]])
    <3>1. \A s \in SUBSET S : s # {} => f[First(s)] = RoundSeconds(First(s))
      BY <1>2, FirstOfPart
    <3> QED BY <3>1
  <2>3. iter = g
    BY <2>2 DEF IsSum
  <2> QED BY <2>1, <2>3
<1> HIDE DEF f, g, S
<1>5. IsSum(g, f, S)
  <2>1. f \in [S -> Int]
    BY <1>3
  <2> QED BY <1>2, <2>1, SumExists DEF g
<1>6. \A i \in S : \A t \in rounds[i] : ChainSeconds(request.topics, t) <= g[S]
  <2>1. \A i \in S : f[i] = RoundSeconds(i)
    BY DEF f
  <2> QED BY <1>3, <1>5, <2>1, RoundsTakeTheirTime DEF S
<1>7. PICK i \in S : "memory_write" \in rounds[i]
  <2>1. "memory_write" \in completed
    BY DEF PlannerInv, TasksOf
  <2> QED BY <2>1 DEF PlannerInv, S
<1> QED BY <1>1, <1>4, <1>6, <1>7

-----------------------------------------------------------------------------
(* The theorems *)

\* The state of the loop: what remains is what no round holds, and the loop
\* ends only when nothing remains.
THEOREM PlannerInvariant == Spec => []PlannerInv
BY PlannerStart, PlannerStep, PTL DEF Spec

\* Rounds are a schedule, for every task graph and parallelism.
THEOREM PlannerSchedules == Spec => []RoundsRespectDependencies
<1>1. PlannerInv => RoundsRespectDependencies
  BY DEF PlannerInv
<1> QED BY <1>1, PlannerInvariant, PTL

\* The loop of _parallel_groups never breaks off with tasks left.
THEOREM PlannerPlansAll == Spec => []NoTaskIsLeftOut
<1>1. PlannerInv => NoTaskIsLeftOut
  BY DEF PlannerInv, NoTaskIsLeftOut
<1> QED BY <1>1, PlannerInvariant, PTL

\* Of a private plan, exactly the tasks that words of voice reach, through the
\* goal, the speed, the format or the task itself, are given to a cloud brain.
THEOREM PlannerKeepsPrivate == Spec => []PrivatePlansStayLocal
<1>1. ASSUME PlannerInv PROVE PrivatePlansStayLocal
  <2> SUFFICES ASSUME plan # NoPlan, "private" \in request.words,
                      NEW t \in TasksOf(request.topics)
               PROVE  LeavesMachine(t) <=>
                         \/ t = "voice"
                         \/ "voice" \in request.words
                         \/ t = "implementation" /\ "voice" \in request.speed
                         \/ t \notin HasOwnFormat /\ "voice" \in request.format
    BY DEF PrivatePlansStayLocal
  <2>1. plan.brain[t] = AssignedBrain(request, t)
    BY <1>1 DEF PlannerInv, PlanOf
  <2>2. "voice" \in OwnWords(request, t) <=>
           \/ t = "voice"
           \/ t = "implementation" /\ "voice" \in request.speed
           \/ t \notin HasOwnFormat /\ "voice" \in request.format
    BY DEF OwnWords, HasOwnFormat
  <2>3. /\ PreferredBrain["Groq"] = "groq"
        /\ PreferredBrain["Gemma via Ollama"] = "ollama_gemma"
        /\ PreferredBrain["MiniMax/Coding via Ollama"] = "ollama_coding"
    BY DEF PreferredBrain
  <2>4. "groq" \notin LocalProvider /\ {"ollama_gemma", "ollama_coding"} \subseteq LocalProvider
    BY DEF LocalProvider, Provider, Capabilities
  <2>5. AssignedBrain(request, t) =
           IF "voice" \in TaskWords(request, t) THEN "Groq"
           ELSE IF RouterCoding(TaskWords(request, t))
                THEN "MiniMax/Coding via Ollama" ELSE "Gemma via Ollama"
    BY DEF AssignedBrain, RouteTask, TaskWords
  <2>6. "voice" \in TaskWords(request, t) <=>
           "voice" \in request.words \/ "voice" \in OwnWords(request, t)
    BY DEF TaskWords
  <2>7. LeavesMachine(t) <=> "voice" \in TaskWords(request, t)
    BY <2>1, <2>3, <2>4, <2>5 DEF LeavesMachine
  <2> QED BY <2>2, <2>6, <2>7
<1> QED BY <1>1, PlannerInvariant, PTL

\* The types, with the shape of the rounds and of the result.
THEOREM PlannerTypes == Spec => []TypeOK
<1>1. ASSUME PlannerInv PROVE TypeOK
  <2>1. request.topics \subseteq Specialist
    BY <1>1, PlannerAssumption DEF PlannerInv, Request
  <2>2. remaining \subseteq Task /\ completed \subseteq Task
    BY <1>1, <2>1, TasksAreTasks DEF PlannerInv
  <2>3. ASSUME plan # NoPlan
        PROVE  /\ plan.path \in Seq(Task) /\ plan.seconds \in Nat
               /\ DOMAIN plan.brain = TasksOf(request.topics)
    <3>1. CriticalPath[request.topics] \in Seq(Task)
      BY <2>1, CriticalPathIsSlowest
    <3>2. RuntimeForPath(request.topics, CriticalPath[request.topics]) \in Nat
      <4>1. "intent" \in Task
        BY DEF Task
      <4> QED BY <3>1, <4>1, RuntimeAppend
    <3>3. plan = PlanOf(request)
      BY <1>1, <2>3 DEF PlannerInv
    <3> QED BY <3>1, <3>2, <3>3 DEF PlanOf
  <2> QED BY <1>1, <2>2, <2>3 DEF PlannerInv, TypeOK
<1> QED BY <1>1, PlannerInvariant, PTL

\* The path chosen by points is the slowest chain in seconds, and the rounds
\* need at least its time, for every task graph and parallelism.
THEOREM PlannerEstimates == Spec => []EstimateIsTheSlowestChain
<1>1. ASSUME PlannerInv PROVE EstimateIsTheSlowestChain
  <2> SUFFICES ASSUME plan # NoPlan
               PROVE  /\ plan.path \in Chains[request.topics]
                      /\ \A chain \in Chains[request.topics] :
                            RuntimeForPath(request.topics, chain) <= plan.seconds
                      /\ plan.seconds <= MapThenSumSet(RoundSeconds, DOMAIN rounds)
    BY DEF EstimateIsTheSlowestChain
  <2>1. request.topics \subseteq Specialist
    BY <1>1, PlannerAssumption DEF PlannerInv, Request
  <2>2. plan = PlanOf(request) /\ remaining = {}
    BY <1>1 DEF PlannerInv
  <2>3. /\ plan.path = CriticalPath[request.topics]
        /\ plan.seconds = RuntimeForPath(request.topics, CriticalPath[request.topics])
    BY <2>2 DEF PlanOf
  <2>4. /\ CriticalPath[request.topics] \in Chains[request.topics]
        /\ plan.seconds = ChainSeconds(request.topics, "memory_write")
        /\ \A chain \in Chains[request.topics] :
              RuntimeForPath(request.topics, chain) <= ChainSeconds(request.topics, "memory_write")
    BY <2>1, <2>3, CriticalPathIsSlowest
  <2>5. ChainSeconds(request.topics, "memory_write") <= MapThenSumSet(RoundSeconds, DOMAIN rounds)
    BY <1>1, <2>2, EstimateFitsTheRounds
  <2> QED BY <2>3, <2>4, <2>5
<1> QED BY <1>1, PlannerInvariant, PTL

================================================================================
