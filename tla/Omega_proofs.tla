------------------------------ MODULE Omega_proofs ------------------------------
(***************************************************************************)
(* Proofs about Omega runs, the agent constructor and the consensus        *)
(* engine, for every set of runs, requests, deployments and answers.       *)
(***************************************************************************)
EXTENDS Omega, RecursionTheorems

-----------------------------------------------------------------------------
(* The constructor: required expertise *)

LEMMA ExpertiseType ==
    /\ \A i \in 1..12 : ExpertiseAt[i] \in Expertise
    /\ NewExpertise \subseteq Expertise
    /\ {"research", "memory", "verification"} \subseteq Expertise
<1>1. \A i \in 1..12 : ExpertiseAt[i] \in Expertise
  BY DEF Expertise
<1>2. /\ ExpertiseAt[1] = "research" /\ ExpertiseAt[3] = "security"
      /\ ExpertiseAt[6] = "memory" /\ ExpertiseAt[7] = "verification"
      /\ ExpertiseAt[8] = "data_analysis" /\ ExpertiseAt[9] = "compliance"
      /\ ExpertiseAt[10] = "edge_deployment"
  BY DEF ExpertiseAt
<1>3. {"research", "security", "memory", "verification", "data_analysis", "compliance",
       "edge_deployment"} \subseteq Expertise
  BY <1>1, <1>2
<1> QED BY <1>1, <1>3 DEF NewExpertise

\* The list of keyword sets met is a list of expertise.
LEMMA MetType == ASSUME NEW topics PROVE Met(topics) \in Seq(Expertise)
<1> DEFINE T == Seq(Expertise)
           Turn(x, i) == IF ExpertiseAt[i] \in topics THEN Append(x, ExpertiseAt[i]) ELSE x
           met == CHOOSE f : f = [i \in 0..12 |-> IF i = 0 THEN <<>> ELSE Turn(f[i - 1], i)]
           h == [i \in 1..12 |-> [x \in T |-> Turn(x, i)]]
<1>1. Met(topics) = met[12]
  BY DEF Met
<1>2. h \in [1..12 -> [T -> T]] /\ <<>> \in T
  BY ExpertiseType
<1>3. \A x \in T, i \in 1..12 : h[i][x] = Turn(x, i)
  OBVIOUS
<1> HIDE DEF h, T, Turn
<1>4. PICK g : Iterates(g, 12, T, <<>>, h)
  BY <1>2, RecursionUpTo
<1>5. g = [i \in 0..12 |-> IF i = 0 THEN <<>> ELSE Turn(g[i - 1], i)]
  BY <1>3, <1>4 DEF Iterates
<1>6. met = [i \in 0..12 |-> IF i = 0 THEN <<>> ELSE Turn(met[i - 1], i)]
  BY <1>5
<1> HIDE DEF met
<1>7. \A i \in 0..12 : met[i] \in T
  <2>1. met[0] = <<>>
    BY <1>6
  <2>2. \A i \in 1..12 : met[i] = Turn(met[i - 1], i)
    BY <1>6
  <2>3. \A i \in 1..12 : met[i - 1] \in T => met[i] = h[i][met[i - 1]]
    BY <1>3, <2>2
  <2> QED BY <1>2, <2>1, <2>3, RecursionType
<1> QED BY <1>1, <1>7 DEF T

LEMMA OnceType ==
    ASSUME NEW S, NEW seq \in Seq(S) PROVE Once(seq) \in Seq(S)
<1> DEFINE n == Len(seq)
           T == Seq(S)
           Turn(x, i) == IF seq[i] \in ToSet(x) THEN x ELSE Append(x, seq[i])
           once == CHOOSE f : f = [i \in 0..n |-> IF i = 0 THEN <<>>
                                                  ELSE IF seq[i] \in ToSet(f[i - 1]) THEN f[i - 1]
                                                  ELSE Append(f[i - 1], seq[i])]
           h == [i \in 1..n |-> [x \in T |-> Turn(x, i)]]
<1>1. Once(seq) = once[n]
  BY DEF Once
<1>2. h \in [1..n -> [T -> T]] /\ <<>> \in T /\ n \in Nat
  OBVIOUS
<1>3. \A x \in T, i \in 1..n : h[i][x] = Turn(x, i)
  OBVIOUS
<1>4. once = CHOOSE f : f = [i \in 0..n |-> IF i = 0 THEN <<>> ELSE Turn(f[i - 1], i)]
  OBVIOUS
<1> HIDE DEF h, T, Turn, n, once
<1>5. PICK g : Iterates(g, n, T, <<>>, h)
  BY <1>2, RecursionUpTo
<1>6. g = [i \in 0..n |-> IF i = 0 THEN <<>> ELSE Turn(g[i - 1], i)]
  BY <1>2, <1>3, <1>5 DEF Iterates
<1>7. once = [i \in 0..n |-> IF i = 0 THEN <<>> ELSE Turn(once[i - 1], i)]
  BY <1>4, <1>6
<1>8. \A i \in 0..n : once[i] \in T
  <2>1. once[0] = <<>> /\ \A i \in 1..n : once[i] = Turn(once[i - 1], i)
    BY <1>2, <1>7
  <2>2. \A i \in 1..n : once[i - 1] \in T => once[i] = h[i][once[i - 1]]
    BY <1>3, <2>1
  <2>3. once[0] \in T
    BY <1>2, <2>1
  <2> QED BY <1>2, <2>2, <2>3, RecursionType
<1> QED BY <1>1, <1>2, <1>8 DEF T

LEMMA RequiredExpertiseType ==
    ASSUME NEW q \in ConstructionRequest PROVE RequiredExpertise(q) \in Seq(Expertise)
<1> DEFINE S       == Seq(Expertise)
           met     == Met(q.topics)
           typed   == IF q.taskType = "none" THEN met ELSE Append(met, q.taskType)
           secured == IF q.secured /\ "security" \notin ToSet(typed) THEN Append(typed, "security")
                      ELSE typed
           kept    == IF q.memoryNeeds /\ "memory" \notin ToSet(secured) THEN Append(secured, "memory")
                      ELSE secured
           checked == IF NeedsVerifier(kept, q) THEN Append(kept, "verification") ELSE kept
<1>1. /\ \A s \in S, e \in Expertise : Append(s, e) \in S
      /\ <<"research">> \in S
      /\ {"security", "memory", "verification"} \subseteq Expertise
  BY ExpertiseType DEF NewExpertise
<1>2. met \in S
  BY MetType
<1>3. RequiredExpertise(q) = IF checked = <<>> THEN <<"research">> ELSE Once(checked)
  BY DEF RequiredExpertise
<1>4. q.taskType \in Expertise \cup {"none"}
  BY DEF ConstructionRequest
<1> HIDE DEF S, met
<1>5. typed \in S
  BY <1>1, <1>2, <1>4
<1> HIDE DEF typed
<1>6. secured \in S
  BY <1>1, <1>5
<1> HIDE DEF secured
<1>7. kept \in S
  BY <1>1, <1>6
<1> HIDE DEF kept
<1>8. checked \in S
  BY <1>1, <1>7
<1> HIDE DEF checked
<1>9. Once(checked) \in Seq(Expertise)
  BY <1>8, OnceType DEF S
<1> QED BY <1>1, <1>3, <1>9 DEF S

-----------------------------------------------------------------------------
(* The constructor: saved agents *)

Distinct(s) ==
    \A i, j \in DOMAIN s : s[i].defines /\ s[j].defines /\ s[i].name = s[j].name => i = j

\* One definition of each name, and few records that hold none.
Tidy == {s \in Seq(Saved) : Distinct(s) /\ Cardinality(Hidden(s)) <= MaxHidden}

LEMMA FourNewAgents == IsFiniteSet(NewExpertise) /\ Cardinality(NewExpertise) = 4
<1> DEFINE A == {"security"}
           B == A \cup {"data_analysis"}
           C == B \cup {"compliance"}
<1>1. IsFiniteSet(A) /\ Cardinality(A) = 1
  BY FS_Singleton
<1>2. IsFiniteSet(B) /\ Cardinality(B) = 2
  BY <1>1, FS_AddElement
<1>3. IsFiniteSet(C) /\ Cardinality(C) = 3
  BY <1>2, FS_AddElement
<1>4. NewExpertise = C \cup {"edge_deployment"} /\ "edge_deployment" \notin C
  BY DEF NewExpertise
<1> HIDE DEF C
<1> QED BY <1>3, <1>4, FS_AddElement

LEMMA LenFinite ==
    ASSUME NEW S, NEW s \in Seq(S)
    PROVE  /\ IsFiniteSet(1..Len(s)) /\ Cardinality(1..Len(s)) = Len(s)
           /\ IsFiniteSet(DOMAIN s) /\ Cardinality(DOMAIN s) = Len(s)
<1> DEFINE n == Len(s)
<1>1. n \in Nat /\ 1 \in Int /\ n \in Int /\ DOMAIN s = 1..n
  OBVIOUS
<1> HIDE DEF n
<1>2. IsFiniteSet(1..n) /\ Cardinality(1..n) = IF 1 > n THEN 0 ELSE n - 1 + 1
  BY <1>1, FS_Interval
<1>3. Cardinality(1..n) = n
  BY <1>1, <1>2
<1> QED BY <1>1, <1>2, <1>3 DEF n

\* With one definition of each name there are no more records than are looked at.
LEMMA FewRecords ==
    ASSUME NEW s \in Tidy PROVE Len(s) <= 10
<1> DEFINE seen == DOMAIN s \ Hidden(s)
           name == [i \in seen |-> s[i].name]
<1>1. IsFiniteSet(DOMAIN s) /\ Cardinality(DOMAIN s) = Len(s) /\ Len(s) \in Nat
  BY LenFinite DEF Tidy
<1>2. Hidden(s) \subseteq DOMAIN s
  BY DEF Hidden
<1>3. \A i \in seen : s[i].name \in NewExpertise /\ s[i].defines
  <2> SUFFICES ASSUME NEW i \in seen PROVE s[i].name \in NewExpertise /\ s[i].defines
    OBVIOUS
  <2>1. s[i] \in Saved
    BY DEF Tidy
  <2> QED BY <2>1 DEF Saved, Hidden
<1>4. Cardinality(Hidden(s)) <= 6
  BY OmegaAssumption, <1>1, <1>2, FS_Subset, FS_CardinalityType DEF Tidy, OmegaAssumption
<1>5. name \in Injection(seen, NewExpertise)
  BY <1>3 DEF Tidy, Distinct, Injection, IsInjective
<1> HIDE DEF name
<1>6. IsFiniteSet(seen) /\ Cardinality(seen) <= 4
  BY <1>5, FourNewAgents, FS_Injection
<1>7. IsFiniteSet(Hidden(s)) /\ Hidden(s) \cap seen = {} /\ Hidden(s) \cup seen = DOMAIN s
  BY <1>1, <1>2, FS_Subset
<1> HIDE DEF seen
<1>8. Cardinality(DOMAIN s) = Cardinality(Hidden(s)) + Cardinality(seen) - 0
  BY <1>6, <1>7, FS_Union, FS_EmptySet
<1>9. Cardinality(Hidden(s)) \in Nat /\ Cardinality(seen) \in Nat
  BY <1>6, <1>7, FS_CardinalityType
<1> QED BY <1>1, <1>4, <1>6, <1>8, <1>9

\* So a definition that exists is found.
LEMMA LookupFinds ==
    ASSUME NEW s \in Tidy, NEW e, ~ IsSaved(s, e), NEW i \in DOMAIN s, s[i].defines
    PROVE  s[i].name # e
<1> SUFFICES ASSUME s[i].name = e PROVE FALSE
  OBVIOUS
<1> DEFINE later == {j \in Hits(s, e) : j > i}
<1>1. IsFiniteSet(DOMAIN s) /\ Cardinality(DOMAIN s) = Len(s) /\ Len(s) <= 10 /\ Len(s) \in Nat
  BY FewRecords, LenFinite DEF Tidy
<1>2. later \subseteq DOMAIN s \ {i}
  <2>1. i \in Nat
    BY <1>1 DEF Tidy
  <2> QED BY <2>1 DEF Hits
<1>3. IsFiniteSet(DOMAIN s \ {i}) /\ Cardinality(DOMAIN s \ {i}) = Len(s) - 1
  BY <1>1, FS_RemoveElement
<1>4. Cardinality(later) <= Len(s) - 1 /\ Cardinality(later) \in Nat
  BY <1>2, <1>3, FS_Subset, FS_CardinalityType
<1>5. i \in Hits(s, e)
  BY DEF Hits
<1> HIDE DEF later
<1>6. Cardinality(later) < LookupLimit
  BY <1>1, <1>4 DEF LookupLimit
<1> QED BY <1>5, <1>6 DEF IsSaved, later

LEMMA CreateIsTidy ==
    ASSUME NEW s \in Tidy, NEW x \in Saved, x.defines, ~ IsSaved(s, x.name)
    PROVE  Append(s, x) \in Tidy
<1> DEFINE t == Append(s, x)
<1>0. s \in Seq(Saved)
  BY DEF Tidy
<1>1. /\ t \in Seq(Saved) /\ DOMAIN t = 1..(Len(s) + 1) /\ DOMAIN s = 1..Len(s) /\ Len(s) \in Nat
      /\ t[Len(s) + 1] = x /\ \A i \in 1..Len(s) : t[i] = s[i]
  BY <1>0
<1>2. \A i \in 1..Len(s) : s[i].defines => s[i].name # x.name
  BY <1>1, LookupFinds
<1> HIDE DEF t
<1>3. ASSUME NEW i \in DOMAIN t, NEW j \in DOMAIN t, t[i].defines, t[j].defines,
             t[i].name = t[j].name
      PROVE  i = j
  BY <1>1, <1>2, <1>3 DEF Tidy, Distinct
<1>4. Hidden(t) = Hidden(s)
  BY <1>1 DEF Hidden
<1> QED BY <1>1, <1>3, <1>4 DEF Tidy, Distinct, t

\* What the constructor holds between two turns.
Progress ==
    [saved : Tidy, reused : SUBSET Expertise, created : SUBSET NewExpertise, raised : BOOLEAN]

LEMMA ProvideType ==
    ASSUME NEW q \in ConstructionRequest, NEW acc \in Progress, NEW e \in Expertise,
           NEW good, NEW torn
    PROVE  Provide(acc, e, q, good, torn) \in Progress
<1>1. CASE Provide(acc, e, q, good, torn) = acc
  BY <1>1
<1>2. CASE Provide(acc, e, q, good, torn) = Reuse(acc, e)
  BY <1>2 DEF Reuse, Progress
<1>3. CASE e \in NewExpertise /\ ~ IsSaved(acc.saved, e)
  <2> DEFINE x == [name |-> e, defines |-> TRUE, mentions |-> q.mentions]
  <2>1. x \in Saved /\ x.name = e /\ x.defines
    BY <1>3 DEF ConstructionRequest, Saved
  <2>2. acc.saved \in Tidy
    BY DEF Progress
  <2>3. Append(acc.saved, x) \in Tidy
    BY <1>3, <2>1, <2>2, CreateIsTidy
  <2> HIDE DEF x
  <2> DEFINE stored == IF Cardinality(acc.created) = good /\ ~ torn THEN acc.saved
                       ELSE Append(acc.saved, x)
             raises == Cardinality(acc.created) = good
  <2>4. /\ Create(acc, e, q, good, torn) =
             [acc EXCEPT !.raised = raises, !.created = acc.created \cup {e}, !.saved = stored]
        /\ stored \in Tidy /\ raises \in BOOLEAN
    BY <2>2, <2>3 DEF Create, x
  <2> HIDE DEF stored, raises
  <2>5. Create(acc, e, q, good, torn) \in Progress
    BY <1>3, <2>4 DEF Progress
  <2>6. Provide(acc, e, q, good, torn) \in {acc, Create(acc, e, q, good, torn)}
    BY <1>3 DEF Provide
  <2> QED BY <2>5, <2>6
<1> QED BY <1>1, <1>2, <1>3 DEF Provide

LEMMA ConstructKeeps ==
    ASSUME NEW s \in Tidy, NEW q \in ConstructionRequest, NEW good, NEW torn
    PROVE  Construct(s, q, good, torn).saved \in Tidy
<1> DEFINE needed == RequiredExpertise(q)
           n == Len(needed)
           T == Progress
           Turn(x, i) == Provide(x, needed[i], q, good, torn)
           loop == CHOOSE f : f = [i \in 0..n |-> IF i = 0 THEN Start(s)
                                                  ELSE Provide(f[i - 1], needed[i], q, good, torn)]
           h == [i \in 1..n |-> [x \in T |-> Turn(x, i)]]
<1>1. Construct(s, q, good, torn) = LET made == loop[n] IN
          IF made.reused \cup made.created = {} THEN Reuse(made, "research") ELSE made
  BY DEF Construct
<1>2. n \in Nat /\ \A i \in 1..n : needed[i] \in Expertise
  <2>1. needed \in Seq(Expertise)
    BY RequiredExpertiseType
  <2> HIDE DEF needed
  <2> QED BY <2>1
<1>3. Start(s) \in T
  BY DEF Start, Progress
<1>4. loop = CHOOSE f : f = [i \in 0..n |-> IF i = 0 THEN Start(s) ELSE Turn(f[i - 1], i)]
  OBVIOUS
<1> HIDE DEF n, needed, loop
<1>5. \A x \in T, i \in 1..n : Turn(x, i) \in T
  BY <1>2, ProvideType
<1> HIDE DEF T, Turn
<1>6. h \in [1..n -> [T -> T]] /\ \A x \in T, i \in 1..n : h[i][x] = Turn(x, i)
  BY <1>5
<1> HIDE DEF h
<1>7. PICK g : Iterates(g, n, T, Start(s), h)
  BY <1>2, <1>3, <1>6, RecursionUpTo
<1>8. g = [i \in 0..n |-> IF i = 0 THEN Start(s) ELSE Turn(g[i - 1], i)]
  BY <1>2, <1>6, <1>7 DEF Iterates
<1>9. loop = [i \in 0..n |-> IF i = 0 THEN Start(s) ELSE Turn(loop[i - 1], i)]
  BY <1>4, <1>8
<1>10. \A i \in 0..n : loop[i] \in T
  <2>1. loop[0] = Start(s) /\ \A i \in 1..n : loop[i] = Turn(loop[i - 1], i)
    BY <1>2, <1>9
  <2>2. \A i \in 1..n : loop[i - 1] \in T => loop[i] = h[i][loop[i - 1]]
    BY <1>6, <2>1
  <2>3. loop[0] \in T
    BY <1>3, <2>1
  <2> QED BY <1>2, <1>6, <2>2, <2>3, RecursionType
<1>11. loop[n] \in Progress
  BY <1>2, <1>10 DEF T
<1>12. Construct(s, q, good, torn).saved = loop[n].saved
  BY <1>1, <1>11 DEF Reuse, Progress
<1> QED BY <1>11, <1>12 DEF Progress

\* What is left of the records when one is deleted.
LEMMA RemovedIs ==
    ASSUME NEW s \in Seq(Saved), NEW i \in DOMAIN s
    PROVE  /\ RemoveAt(s, i) \in Seq(Saved) /\ Len(RemoveAt(s, i)) = Len(s) - 1
           /\ \A k \in 1..(Len(s) - 1) : RemoveAt(s, i)[k] = s[IF k < i THEN k ELSE k + 1]
<1> DEFINE t == RemoveAt(s, i)
           from(k) == IF k < i THEN k ELSE k + 1
<1>1. t \in Seq(Saved) /\ Len(t) = Len(s) - 1
      /\ \A k \in 1..(Len(s) - 1) : t[k] = s[from(k)]
  <2> DEFINE a == SubSeq(s, 1, i - 1)
             b == SubSeq(s, i + 1, Len(s))
  <2>1. i \in 1..Len(s) /\ Len(s) \in Nat
    OBVIOUS
  <2>2. /\ a \in Seq(Saved) /\ Len(a) = i - 1
        /\ \A k \in 1..(i - 1) : a[k] = s[k]
    BY <2>1
  <2>3. /\ b \in Seq(Saved) /\ Len(b) = Len(s) - i
        /\ \A k \in 1..(Len(s) - i) : b[k] = s[i + k]
    BY <2>1
  <2>4. t = a \o b
    BY DEF RemoveAt
  <2> HIDE DEF a, b, t
  <2>5. /\ a \o b \in Seq(Saved) /\ Len(a \o b) = Len(a) + Len(b)
        /\ \A k \in 1..(Len(a) + Len(b)) : (a \o b)[k] = IF k <= Len(a) THEN a[k] ELSE b[k - Len(a)]
    BY <2>2, <2>3
  <2>6. t \in Seq(Saved) /\ Len(t) = Len(s) - 1
    BY <2>1, <2>2, <2>3, <2>4, <2>5
  <2>7. ASSUME NEW k \in 1..(Len(s) - 1) PROVE t[k] = s[from(k)]
    <3>1. k \in 1..(Len(a) + Len(b))
      BY <2>1, <2>2, <2>3
    <3>2. CASE k < i
      <4>1. k <= Len(a) /\ k \in 1..(i - 1)
        BY <2>1, <2>2, <3>2
      <4> QED BY <2>2, <2>4, <2>5, <3>1, <3>2, <4>1
    <3>3. CASE ~ (k < i)
      <4>1. /\ ~ (k <= Len(a)) /\ k - Len(a) \in 1..(Len(s) - i)
            /\ i + (k - Len(a)) = k + 1
        BY <2>1, <2>2, <3>3
      <4> QED BY <2>3, <2>4, <2>5, <3>1, <3>3, <4>1
    <3> QED BY <3>2, <3>3
  <2> QED BY <2>6, <2>7
<1> QED BY <1>1

\* Records that come from different ones, and define what those define, stay tidy
\* as long as few are hidden.
LEMMA Rearranged ==
    ASSUME NEW s \in Tidy, NEW t \in Seq(Saved), NEW from \in Injection(DOMAIN t, DOMAIN s),
           \A k \in DOMAIN t : /\ t[k].name = s[from[k]].name
                               /\ t[k].defines => s[from[k]].defines,
           NEW H, IsFiniteSet(H), Cardinality(H) <= MaxHidden,
           \A k \in Hidden(t) : from[k] \in H
    PROVE  t \in Tidy
<1>1. Distinct(t)
  <2> SUFFICES ASSUME NEW k \in DOMAIN t, NEW l \in DOMAIN t, t[k].defines, t[l].defines,
                      t[k].name = t[l].name
               PROVE  k = l
    BY DEF Distinct
  <2>1. from[k] \in DOMAIN s /\ from[l] \in DOMAIN s
    BY DEF Injection
  <2>2. s[from[k]].defines /\ s[from[l]].defines /\ s[from[k]].name = s[from[l]].name
    OBVIOUS
  <2>3. from[k] = from[l]
    BY <2>1, <2>2, Zenon DEF Tidy, Distinct
  <2> QED BY <2>3 DEF Injection, IsInjective
<1>2. Cardinality(Hidden(t)) <= Cardinality(H) /\ IsFiniteSet(Hidden(t))
  <2> DEFINE f == [k \in Hidden(t) |-> from[k]]
  <2>1. f \in Injection(Hidden(t), H)
    BY DEF Injection, IsInjective, Hidden
  <2> HIDE DEF f
  <2> QED BY <2>1, FS_Injection
<1>3. Cardinality(Hidden(t)) <= MaxHidden
  BY <1>2, OmegaAssumption, FS_CardinalityType DEF OmegaAssumption
<1> QED BY <1>1, <1>3 DEF Tidy

LEMMA HiddenAreFinite ==
    ASSUME NEW s \in Tidy
    PROVE  IsFiniteSet(Hidden(s)) /\ Cardinality(Hidden(s)) \in Nat /\ Cardinality(Hidden(s)) <= MaxHidden
<1>1. IsFiniteSet(DOMAIN s)
  BY LenFinite DEF Tidy
<1>2. Hidden(s) \subseteq DOMAIN s
  BY DEF Hidden
<1> QED BY <1>1, <1>2, FS_Subset, FS_CardinalityType DEF Tidy

\* Deleting a record keeps the others apart.
LEMMA RemoveKeeps ==
    ASSUME NEW s \in Tidy, NEW i \in DOMAIN s PROVE RemoveAt(s, i) \in Tidy
<1> DEFINE t == RemoveAt(s, i)
           from == [k \in 1..(Len(s) - 1) |-> IF k < i THEN k ELSE k + 1]
<1>1. s \in Seq(Saved) /\ DOMAIN s = 1..Len(s) /\ Len(s) \in Nat /\ i \in 1..Len(s)
  BY DEF Tidy
<1>2. /\ t \in Seq(Saved) /\ DOMAIN t = 1..(Len(s) - 1)
      /\ \A k \in 1..(Len(s) - 1) : t[k] = s[from[k]]
  <2>1. \A k \in 1..(Len(s) - 1) : from[k] = IF k < i THEN k ELSE k + 1
    OBVIOUS
  <2>2. /\ t \in Seq(Saved) /\ Len(t) = Len(s) - 1
        /\ \A k \in 1..(Len(s) - 1) : t[k] = s[IF k < i THEN k ELSE k + 1]
    BY <1>1, RemovedIs
  <2> HIDE DEF t, from
  <2> QED BY <2>1, <2>2
<1>3. from \in Injection(DOMAIN t, DOMAIN s)
  BY <1>1, <1>2 DEF Injection, IsInjective
<1> HIDE DEF t, from
<1>4. \A k \in Hidden(t) : from[k] \in Hidden(s)
  BY <1>2, <1>3 DEF Hidden, Injection
<1> QED BY <1>2, <1>3, <1>4, HiddenAreFinite, Rearranged DEF t

\* A patched record is the newest; it may lose its definition.
LEMMA PatchKeeps ==
    ASSUME NEW s \in Tidy, NEW i \in DOMAIN s, NEW keeps \in BOOLEAN,
           keeps \/ Cardinality(Hidden(s)) < MaxHidden
    PROVE  Append(RemoveAt(s, i), [s[i] EXCEPT !.defines = @ /\ keeps]) \in Tidy
<1> DEFINE n == Len(s)
           x == [s[i] EXCEPT !.defines = @ /\ keeps]
           u == RemoveAt(s, i)
           t == Append(u, x)
           from == [k \in 1..n |-> IF k = n THEN i ELSE IF k < i THEN k ELSE k + 1]
           H == IF keeps THEN Hidden(s) ELSE Hidden(s) \cup {i}
<1>1. s \in Seq(Saved) /\ DOMAIN s = 1..n /\ n \in Nat /\ i \in 1..n
  BY DEF Tidy
<1>2. s[i] \in Saved
  BY <1>1
<1>3. x \in Saved /\ x.name = s[i].name /\ x.defines = (s[i].defines /\ keeps)
  BY <1>2 DEF Saved
<1> HIDE DEF x, n
<1>4. /\ u \in Seq(Saved) /\ Len(u) = n - 1
      /\ \A k \in 1..(n - 1) : u[k] = s[from[k]]
  <2>1. \A k \in 1..(n - 1) : from[k] = IF k < i THEN k ELSE k + 1
    BY <1>1
  <2>2. /\ u \in Seq(Saved) /\ Len(u) = n - 1
        /\ \A k \in 1..(n - 1) : u[k] = s[IF k < i THEN k ELSE k + 1]
    BY <1>1, RemovedIs DEF n
  <2> HIDE DEF u, from
  <2> QED BY <2>1, <2>2
<1>5. from \in Injection(1..n, 1..n) /\ from[n] = i
  <2>1. from \in [1..n -> 1..n] /\ from[n] = i
    BY <1>1
  <2>2. ASSUME NEW k \in 1..n, NEW l \in 1..n, from[k] = from[l] PROVE k = l
    <3>1. /\ from[k] = IF k = n THEN i ELSE IF k < i THEN k ELSE k + 1
          /\ from[l] = IF l = n THEN i ELSE IF l < i THEN l ELSE l + 1
      OBVIOUS
    <3> HIDE DEF from
    <3>2. k \in Int /\ l \in Int /\ i \in Int /\ n \in Int
      BY <1>1
    <3>3. ASSUME k # n, l = n PROVE FALSE
      <4>1. (IF k < i THEN k ELSE k + 1) = i
        BY <2>2, <3>1, <3>3
      <4> QED BY <3>2, <4>1
    <3>4. ASSUME k = n, l # n PROVE FALSE
      <4>1. (IF l < i THEN l ELSE l + 1) = i
        BY <2>2, <3>1, <3>4
      <4> QED BY <3>2, <4>1
    <3>5. ASSUME k # n, l # n PROVE k = l
      <4>1. from[k] = (IF k < i THEN k ELSE k + 1) /\ from[k] = (IF l < i THEN l ELSE l + 1)
        BY <2>2, <3>1, <3>5
      <4>2. (IF k < i THEN k ELSE k + 1) = (IF l < i THEN l ELSE l + 1)
        BY <4>1
      <4> QED BY <3>2, <4>2
    <3> QED BY <3>3, <3>4, <3>5
  <2> HIDE DEF from
  <2> QED BY <2>1, <2>2 DEF Injection, IsInjective
<1> HIDE DEF u, from
<1>6. /\ t \in Seq(Saved) /\ DOMAIN t = 1..n /\ t[n] = x
      /\ \A k \in 1..(n - 1) : t[k] = s[from[k]]
  <2>1. t \in Seq(Saved) /\ Len(t) = Len(u) + 1 /\ t[Len(u) + 1] = x
        /\ \A k \in 1..Len(u) : t[k] = u[k]
    <3>1. x \in Saved /\ u \in Seq(Saved)
      BY <1>3, <1>4
    <3> QED BY <3>1
  <2> HIDE DEF t
  <2>2. Len(u) + 1 = n
    BY <1>1, <1>4
  <2> QED BY <1>1, <1>4, <2>1, <2>2
<1> HIDE DEF t
<1>7. \A k \in DOMAIN t : /\ t[k].name = s[from[k]].name
                          /\ t[k].defines => s[from[k]].defines
                          /\ k # n => t[k].defines = s[from[k]].defines
  <2> SUFFICES ASSUME NEW k \in 1..n
               PROVE  /\ t[k].name = s[from[k]].name
                      /\ t[k].defines => s[from[k]].defines
                      /\ k # n => t[k].defines = s[from[k]].defines
    BY <1>6
  <2>1. CASE k = n
    <3>1. t[k] = x /\ from[k] = i
      BY <1>5, <1>6, <2>1
    <3> QED BY <1>3, <2>1, <3>1
  <2>2. CASE k # n
    <3>1. k \in 1..(n - 1)
      BY <1>1, <2>2
    <3>2. t[k] = s[from[k]]
      BY <1>6, <3>1
    <3> QED BY <3>2
  <2> QED BY <2>1, <2>2
<1>8. \A k \in Hidden(t) : from[k] \in H
  <2> SUFFICES ASSUME NEW k \in Hidden(t) PROVE from[k] \in H
    OBVIOUS
  <2>1. k \in DOMAIN t /\ ~ t[k].defines /\ from[k] \in DOMAIN s
    BY <1>1, <1>5, <1>6 DEF Hidden, Injection
  <2>2. CASE k # n
    BY <1>7, <2>1, <2>2 DEF Hidden
  <2>3. CASE k = n
    BY <1>3, <1>5, <1>6, <2>1, <2>3 DEF Hidden
  <2> QED BY <2>2, <2>3
<1>9. IsFiniteSet(H) /\ Cardinality(H) <= MaxHidden
  <2>1. MaxHidden \in Nat
    BY OmegaAssumption DEF OmegaAssumption
  <2>2. CASE keeps
    BY <2>2, HiddenAreFinite
  <2>3. CASE ~ keeps
    <3>1. IsFiniteSet(Hidden(s)) /\ Cardinality(Hidden(s)) \in Nat
      BY HiddenAreFinite
    <3>2. IsFiniteSet(Hidden(s) \cup {i})
          /\ \/ Cardinality(Hidden(s) \cup {i}) = Cardinality(Hidden(s))
             \/ Cardinality(Hidden(s) \cup {i}) = Cardinality(Hidden(s)) + 1
      BY <3>1, FS_AddElement
    <3>3. Cardinality(Hidden(s)) < MaxHidden /\ H = Hidden(s) \cup {i}
      BY <2>3
    <3> QED BY <2>1, <3>1, <3>2, <3>3
  <2> QED BY <2>2, <2>3
<1> HIDE DEF H
<1>10. t \in Tidy
  <2>1. from \in Injection(DOMAIN t, DOMAIN s) /\ t \in Seq(Saved)
    BY <1>1, <1>5, <1>6
  <2>2. \A k \in DOMAIN t : /\ t[k].name = s[from[k]].name
                            /\ t[k].defines => s[from[k]].defines
    BY <1>7
  <2> QED BY <1>8, <1>9, <2>1, <2>2, Rearranged
<1> QED BY <1>10 DEF t, u, x

-----------------------------------------------------------------------------
(* The consensus engine: the brains asked *)

LEMMA TargetType == TargetBrains \in Seq(Provider) /\ Len(TargetBrains) = 5 /\ "mock" \in Provider
BY DEF TargetBrains, Provider, LocalProvider

LEMMA SelectProvidersType ==
    ASSUME NEW on, NEW includeLocal, NEW most \in Nat \ {0}
    PROVE  /\ SelectProviders(on, includeLocal, most) \in Seq(Provider)
           /\ Len(SelectProviders(on, includeLocal, most)) <= most
<1> DEFINE n == Len(TargetBrains)
           T == {x \in Seq(Provider) : Len(x) <= most}
           able(p) == p \in on /\ (includeLocal \/ p \notin LocalProvider)
           Turn(x, i) == IF able(TargetBrains[i]) /\ Len(x) < most THEN Append(x, TargetBrains[i])
                         ELSE x
           asked == CHOOSE f : f = [i \in 0..n |->
                        IF i = 0 THEN <<>>
                        ELSE IF able(TargetBrains[i]) /\ Len(f[i - 1]) < most
                             THEN Append(f[i - 1], TargetBrains[i])
                        ELSE f[i - 1]]
           h == [i \in 1..n |-> [x \in T |-> Turn(x, i)]]
<1>1. SelectProviders(on, includeLocal, most) =
          IF asked[n] # <<>> THEN asked[n] ELSE IF "mock" \in on THEN <<"mock">> ELSE <<>>
  BY DEF SelectProviders
<1>2. n \in Nat /\ <<>> \in T /\ \A i \in 1..n : TargetBrains[i] \in Provider
  <2>1. TargetBrains \in Seq(Provider)
    BY TargetType
  <2> QED BY <2>1
<1>3. \A x \in T, i \in 1..n : Turn(x, i) \in T
  BY <1>2
<1>4. asked = CHOOSE f : f = [i \in 0..n |-> IF i = 0 THEN <<>> ELSE Turn(f[i - 1], i)]
  OBVIOUS
<1> HIDE DEF n, T, Turn, asked
<1>5. h \in [1..n -> [T -> T]] /\ \A x \in T, i \in 1..n : h[i][x] = Turn(x, i)
  BY <1>3
<1> HIDE DEF h
<1>6. PICK g : Iterates(g, n, T, <<>>, h)
  BY <1>2, <1>5, RecursionUpTo
<1>7. g = [i \in 0..n |-> IF i = 0 THEN <<>> ELSE Turn(g[i - 1], i)]
  BY <1>2, <1>5, <1>6 DEF Iterates
<1>8. asked = [i \in 0..n |-> IF i = 0 THEN <<>> ELSE Turn(asked[i - 1], i)]
  BY <1>4, <1>7
<1>9. \A i \in 0..n : asked[i] \in T
  <2>1. asked[0] = <<>> /\ \A i \in 1..n : asked[i] = Turn(asked[i - 1], i)
    BY <1>2, <1>8
  <2>2. \A i \in 1..n : asked[i - 1] \in T => asked[i] = h[i][asked[i - 1]]
    BY <1>5, <2>1
  <2>3. asked[0] \in T
    BY <1>2, <2>1
  <2> QED BY <1>2, <1>5, <2>2, <2>3, RecursionType
<1>10. asked[n] \in Seq(Provider) /\ Len(asked[n]) <= most
  BY <1>2, <1>9 DEF T
<1>11. <<"mock">> \in Seq(Provider) /\ Len(<<"mock">>) <= most
  BY TargetType
<1> QED BY <1>1, <1>10, <1>11

-----------------------------------------------------------------------------
(* The invariant *)

Phase == {"idle", "asking", "executing", "answered", "raised"}

RunState ==
    [phase : Phase, req : AllRequests, asked : Seq(Provider),
     heard : Seq(Answers \cup {Failed, Pending})]

\* No brain that was asked is still to answer.
AllHeard(x) == x.asked # <<>> => Pending \notin ToSet(x.heard)

\* There is an answer, or room for one, for each brain asked, and a run goes on
\* when it has heard from all of them.
SoundRun ==
    {x \in RunState :
        /\ Len(x.heard) = Len(x.asked)
        /\ Len(x.asked) <= x.req.maxBrains
        /\ x.phase \in {"executing", "answered"} => AllHeard(x)}

OmegaInv ==
    /\ enabled \in Deployment
    /\ saved \in Tidy
    /\ run \in [Run -> SoundRun]
    /\ faults \in 0..MaxFaults

-----------------------------------------------------------------------------
(* One run *)

USE OmegaAssumption

LEMMA RequestType ==
    \A q \in AllRequests : /\ q.agents \in ConstructionRequest
                           /\ q.minBrains \in 1..5 /\ q.maxBrains \in 1..5
BY DEF OmegaAssumption, Request

\* A new run, before it asks a brain.
LEMMA FreshRun ==
    /\ Idle \in SoundRun
    /\ \A q \in AllRequests : LET x == [Idle EXCEPT !.req = q] IN
                                x \in SoundRun /\ AllHeard(x) /\ x.req = q
<1>1. Idle.req \in AllRequests /\ Idle.asked = <<>> /\ Idle.heard = <<>>
  BY DEF OmegaAssumption, Idle
<1>2. Idle \in RunState
  BY <1>1 DEF Idle, RunState, Phase
<1>3. \A q \in AllRequests : q.maxBrains \in 1..5
  BY RequestType
<1>4. Idle \in SoundRun
  BY <1>1, <1>2, <1>3 DEF SoundRun, AllHeard
<1>5. ASSUME NEW q \in AllRequests
      PROVE  LET x == [Idle EXCEPT !.req = q] IN x \in SoundRun /\ AllHeard(x) /\ x.req = q
  <2> DEFINE x == [Idle EXCEPT !.req = q]
  <2>1. x \in RunState /\ x.asked = <<>> /\ x.heard = <<>> /\ x.req = q
    BY <1>1, <1>2 DEF RunState
  <2> HIDE DEF x
  <2>2. x \in SoundRun /\ AllHeard(x)
    BY <1>3, <2>1 DEF SoundRun, AllHeard
  <2> QED BY <2>1, <2>2 DEF x
<1> QED BY <1>4, <1>5

LEMMA PhaseChange ==
    ASSUME NEW x \in SoundRun, AllHeard(x), NEW p \in Phase
    PROVE  [x EXCEPT !.phase = p] \in SoundRun
<1> DEFINE y == [x EXCEPT !.phase = p]
<1>1. x \in RunState /\ Len(x.heard) = Len(x.asked) /\ Len(x.asked) <= x.req.maxBrains
  BY DEF SoundRun
<1>2. y \in RunState /\ y.asked = x.asked /\ y.heard = x.heard /\ y.req = x.req
  BY <1>1 DEF RunState
<1> HIDE DEF y
<1>3. y \in SoundRun
  BY <1>1, <1>2 DEF SoundRun, AllHeard
<1> QED BY <1>3 DEF y

LEMMA AskAllIsSound ==
    ASSUME NEW x \in SoundRun PROVE AskAll(x) \in SoundRun
<1> DEFINE asked == SelectProviders(enabled, x.req.includeLocal, x.req.maxBrains)
           heard == [i \in DOMAIN asked |-> Pending]
           y == [x EXCEPT !.phase = "asking", !.asked = asked, !.heard = heard]
<1>1. x \in RunState /\ x.req \in AllRequests /\ x.req.maxBrains \in 1..5
  BY RequestType DEF SoundRun, RunState
<1>2. asked \in Seq(Provider) /\ Len(asked) <= x.req.maxBrains
  BY <1>1, SelectProvidersType
<1>3. AskAll(x) = y
  BY DEF AskAll
<1> HIDE DEF asked
<1>4. heard \in Seq(Answers \cup {Failed, Pending}) /\ Len(heard) = Len(asked)
  <2>1. Len(asked) \in Nat /\ DOMAIN asked = 1..Len(asked)
    BY <1>2
  <2> HIDE DEF heard
  <2>2. heard = [i \in 1..Len(asked) |-> Pending]
    BY <2>1 DEF heard
  <2> QED BY <2>1, <2>2
<1> HIDE DEF heard
<1>5. y \in RunState /\ y.asked = asked /\ y.heard = heard /\ y.req = x.req /\ y.phase = "asking"
  BY <1>1, <1>2, <1>4 DEF RunState, Phase
<1> HIDE DEF y
<1>6. y \in SoundRun
  BY <1>2, <1>4, <1>5 DEF SoundRun
<1> QED BY <1>3, <1>6

\* What a step does to the runs and the faults.
RunsAreSound == run \in [Run -> SoundRun] /\ faults \in 0..MaxFaults

LEMMA SetIsSound ==
    ASSUME RunsAreSound, NEW r \in Run, NEW x \in SoundRun, Set(r, x)
    PROVE  run' \in [Run -> SoundRun]
BY DEF RunsAreSound, Set

LEMMA RaisesIsBounded ==
    ASSUME RunsAreSound, Raises PROVE faults' \in 0..MaxFaults
BY DEF RunsAreSound, Raises, OmegaAssumption

LEMMA FinishIsSound ==
    ASSUME RunsAreSound, NEW r \in Run, NEW x \in SoundRun, AllHeard(x), Finish(r, x)
    PROVE  RunsAreSound'
<1>1. {"answered", "raised"} \subseteq Phase
  BY DEF Phase
<1>2. [x EXCEPT !.phase = "answered"] \in SoundRun /\ [x EXCEPT !.phase = "raised"] \in SoundRun
  BY <1>1, PhaseChange
<1>3. CASE Set(r, [x EXCEPT !.phase = "answered"]) /\ UNCHANGED faults
  BY <1>2, <1>3, SetIsSound DEF RunsAreSound
<1>4. CASE Set(r, [x EXCEPT !.phase = "raised"]) /\ Raises
  BY <1>2, <1>4, SetIsSound, RaisesIsBounded DEF RunsAreSound
<1> QED BY <1>3, <1>4 DEF Finish

LEMMA ProceedIsSound ==
    ASSUME RunsAreSound, NEW r \in Run, NEW x \in SoundRun, AllHeard(x), Proceed(r, x)
    PROVE  RunsAreSound'
<1>1. CASE x.req.execute
  <2>1. [x EXCEPT !.phase = "executing"] \in SoundRun
    BY PhaseChange DEF Phase
  <2>2. Set(r, [x EXCEPT !.phase = "executing"]) /\ UNCHANGED faults
    BY <1>1 DEF Proceed
  <2> QED BY <2>1, <2>2, SetIsSound DEF RunsAreSound
<1>2. CASE ~ x.req.execute
  BY <1>2, FinishIsSound DEF Proceed
<1> QED BY <1>1, <1>2

LEMMA OrchestrateIsSound ==
    ASSUME RunsAreSound, NEW r \in Run, NEW x \in SoundRun, AllHeard(x), Orchestrate(r, x)
    PROVE  RunsAreSound'
<1>1. CASE Set(r, AskAll(x)) /\ UNCHANGED faults
  BY <1>1, AskAllIsSound, SetIsSound DEF RunsAreSound
<1>2. CASE Proceed(r, x)
  BY <1>2, ProceedIsSound
<1>3. CASE Set(r, [x EXCEPT !.phase = "raised"]) /\ Raises
  <2>1. [x EXCEPT !.phase = "raised"] \in SoundRun
    BY PhaseChange DEF Phase
  <2> QED BY <1>3, <2>1, SetIsSound, RaisesIsBounded DEF RunsAreSound
<1> QED BY <1>1, <1>2, <1>3 DEF Orchestrate

-----------------------------------------------------------------------------
(* The steps *)

LEMMA OmegaInvParts ==
    OmegaInv <=> /\ enabled \in Deployment
                 /\ saved \in Tidy
                 /\ RunsAreSound
BY DEF OmegaInv, RunsAreSound

LEMMA AskConsensusStep ==
    ASSUME OmegaInv, NEW r \in Run, NEW q \in AllRequests, AskConsensus(r, q)
    PROVE  OmegaInv'
<1> DEFINE x == [Idle EXCEPT !.req = q]
<1>1. x \in SoundRun
  BY FreshRun
<1>2. Set(r, AskAll(x)) /\ UNCHANGED <<enabled, saved, faults>>
  BY DEF AskConsensus
<1> HIDE DEF x
<1>3. run' \in [Run -> SoundRun]
  BY <1>1, <1>2, AskAllIsSound, SetIsSound, OmegaInvParts
<1> QED BY <1>2, <1>3 DEF OmegaInv

LEMMA ConstructAgentsStep ==
    ASSUME OmegaInv, NEW r \in Run, NEW q \in AllRequests, ConstructAgents(r, q)
    PROVE  OmegaInv'
<1> DEFINE x == [Idle EXCEPT !.req = q]
<1>1. saved' \in Tidy
  <2>1. saved' = Construct(saved, q.agents, 12, FALSE).saved
    BY DEF ConstructAgents
  <2>2. saved \in Tidy /\ q.agents \in ConstructionRequest
    BY OmegaInvParts, RequestType
  <2> QED BY <2>1, <2>2, ConstructKeeps
<1>2. x \in SoundRun /\ AllHeard(x) /\ RunsAreSound
  BY FreshRun, OmegaInvParts
<1>3. \/ Set(r, [x EXCEPT !.phase = "answered"]) /\ UNCHANGED faults
      \/ Orchestrate(r, x)
  BY DEF ConstructAgents
<1> HIDE DEF x
<1>4. RunsAreSound'
  <2>1. CASE Set(r, [x EXCEPT !.phase = "answered"]) /\ UNCHANGED faults
    <3>1. [x EXCEPT !.phase = "answered"] \in SoundRun
      BY <1>2, PhaseChange DEF Phase
    <3> QED BY <1>2, <2>1, <3>1, SetIsSound DEF RunsAreSound
  <2>2. CASE Orchestrate(r, x)
    BY <1>2, <2>2, OrchestrateIsSound
  <2> QED BY <1>3, <2>1, <2>2
<1>5. enabled' = enabled
  BY DEF ConstructAgents
<1> QED BY <1>1, <1>4, <1>5 DEF OmegaInv, RunsAreSound

LEMMA ConstructRaisesStep ==
    ASSUME OmegaInv, NEW r \in Run, NEW q \in AllRequests, ConstructRaises(r, q)
    PROVE  OmegaInv'
<1>1. saved' \in Tidy
  <2>1. PICK good \in 0..3, torn \in BOOLEAN :
            saved' = Construct(saved, q.agents, good, torn).saved
    BY DEF ConstructRaises
  <2>2. saved \in Tidy /\ q.agents \in ConstructionRequest
    BY OmegaInvParts, RequestType
  <2> QED BY <2>1, <2>2, ConstructKeeps
<1>2. RunsAreSound'
  <2> DEFINE x == [Idle EXCEPT !.req = q]
             y == [Idle EXCEPT !.req = q, !.phase = "raised"]
  <2>1. x \in SoundRun /\ AllHeard(x) /\ RunsAreSound
    BY FreshRun, OmegaInvParts
  <2>2. y = [x EXCEPT !.phase = "raised"]
    OBVIOUS
  <2>3. Set(r, y) /\ Raises
    BY DEF ConstructRaises
  <2> HIDE DEF x, y
  <2>4. y \in SoundRun
    BY <2>1, <2>2, PhaseChange DEF Phase
  <2> QED BY <2>1, <2>3, <2>4, SetIsSound, RaisesIsBounded DEF RunsAreSound
<1>3. enabled' = enabled
  BY DEF ConstructRaises
<1> QED BY <1>1, <1>2, <1>3 DEF OmegaInv, RunsAreSound

LEMMA ReplaceElement ==
    ASSUME NEW S, NEW s \in Seq(S), NEW i \in DOMAIN s, NEW a \in S
    PROVE  [s EXCEPT ![i] = a] \in Seq(S) /\ Len([s EXCEPT ![i] = a]) = Len(s)
<1>1. Len(s) \in Nat /\ s \in [1..Len(s) -> S]
  OBVIOUS
<1>2. [s EXCEPT ![i] = a] \in [1..Len(s) -> S]
  BY <1>1
<1> QED BY <1>1, <1>2

LEMMA HearStep ==
    ASSUME OmegaInv, NEW r \in Run, HearAny(r) PROVE OmegaInv'
<1>1. PICK i \in DOMAIN run[r].heard, a \in Answers \cup {Failed} : Hear(r, i, a)
  BY DEF HearAny
<1> DEFINE x == run[r]
           y == [x EXCEPT !.heard[i] = a]
<1>2. x \in RunState /\ x \in SoundRun /\ i \in DOMAIN x.heard
  BY DEF OmegaInv, SoundRun
<1>3. x.phase = "asking" /\ Set(r, y) /\ UNCHANGED <<enabled, saved, faults>>
  BY <1>1 DEF Hear
<1> HIDE DEF x
<1>4. x.heard \in Seq(Answers \cup {Failed, Pending})
  BY <1>2 DEF RunState
<1>5. /\ [x.heard EXCEPT ![i] = a] \in Seq(Answers \cup {Failed, Pending})
      /\ Len([x.heard EXCEPT ![i] = a]) = Len(x.heard)
  <2>1. a \in Answers \cup {Failed, Pending}
    OBVIOUS
  <2> QED BY <1>2, <1>4, <2>1, ReplaceElement
<1>6. /\ y \in RunState /\ y.phase = "asking" /\ y.asked = x.asked /\ y.req = x.req
      /\ Len(y.heard) = Len(x.heard)
  BY <1>2, <1>3, <1>5 DEF RunState
<1> HIDE DEF y
<1>7. y \in SoundRun
  BY <1>2, <1>6 DEF SoundRun
<1>8. run' \in [Run -> SoundRun]
  BY <1>3, <1>7, SetIsSound, OmegaInvParts
<1> QED BY <1>3, <1>8 DEF OmegaInv

LEMMA ConcludeStep ==
    ASSUME OmegaInv, NEW r \in Run, Conclude(r) PROVE OmegaInv'
<1> DEFINE x == run[r]
<1>1. x \in SoundRun /\ RunsAreSound
  BY OmegaInvParts DEF RunsAreSound
<1>2. AllHeard(x) /\ UNCHANGED <<enabled, saved>>
  BY DEF Conclude, AllHeard
<1>3. \/ Set(r, [x EXCEPT !.phase = "answered"]) /\ UNCHANGED faults
      \/ Proceed(r, x)
  BY DEF Conclude
<1> HIDE DEF x
<1>4. CASE Set(r, [x EXCEPT !.phase = "answered"]) /\ UNCHANGED faults
  <2>1. [x EXCEPT !.phase = "answered"] \in SoundRun
    BY <1>1, <1>2, PhaseChange DEF Phase
  <2>2. RunsAreSound'
    BY <1>1, <1>4, <2>1, SetIsSound DEF RunsAreSound
  <2> QED BY <1>2, <2>2 DEF OmegaInv, RunsAreSound
<1>5. CASE Proceed(r, x)
  <2>1. RunsAreSound'
    BY <1>1, <1>2, <1>5, ProceedIsSound
  <2> QED BY <1>2, <2>1 DEF OmegaInv, RunsAreSound
<1> QED BY <1>3, <1>4, <1>5

LEMMA ExecutionStep ==
    ASSUME OmegaInv, NEW r \in Run, ExecutionEnds(r) PROVE OmegaInv'
<1> DEFINE x == run[r]
<1>1. x \in SoundRun /\ RunsAreSound
  BY OmegaInvParts DEF RunsAreSound
<1>2. x.phase = "executing" /\ UNCHANGED <<enabled, saved>>
  BY DEF ExecutionEnds
<1>3. Finish(r, x) \/ (Set(r, [x EXCEPT !.phase = "raised"]) /\ Raises)
  BY DEF ExecutionEnds
<1> HIDE DEF x
<1>4. AllHeard(x)
  BY <1>1, <1>2 DEF SoundRun
<1>5. RunsAreSound'
  <2>1. CASE Finish(r, x)
    BY <1>1, <1>4, <2>1, FinishIsSound
  <2>2. CASE Set(r, [x EXCEPT !.phase = "raised"]) /\ Raises
    <3>1. [x EXCEPT !.phase = "raised"] \in SoundRun
      BY <1>1, <1>4, PhaseChange DEF Phase
    <3> QED BY <1>1, <2>2, <3>1, SetIsSound, RaisesIsBounded DEF RunsAreSound
  <2> QED BY <1>3, <2>1, <2>2
<1> QED BY <1>2, <1>5 DEF OmegaInv, RunsAreSound

LEMMA DeleteStep ==
    ASSUME OmegaInv, DeleteAgent PROVE OmegaInv'
<1>1. PICK i \in DOMAIN saved : saved' = RemoveAt(saved, i)
  BY DEF DeleteAgent
<1>2. saved \in Tidy
  BY OmegaInvParts
<1>3. saved' \in Tidy
  BY <1>1, <1>2, RemoveKeeps
<1>4. UNCHANGED <<enabled, run, faults>>
  BY DEF DeleteAgent
<1> QED BY <1>3, <1>4 DEF OmegaInv

LEMMA PatchStep ==
    ASSUME OmegaInv, PatchAgent PROVE OmegaInv'
<1>1. PICK i \in DOMAIN saved, keeps \in BOOLEAN :
          /\ keeps \/ Cardinality(Hidden(saved)) < MaxHidden
          /\ saved' = Append(RemoveAt(saved, i), [saved[i] EXCEPT !.defines = @ /\ keeps])
  BY DEF PatchAgent
<1>2. saved' \in Tidy
  BY <1>1, PatchKeeps, OmegaInvParts
<1>3. UNCHANGED <<enabled, run, faults>>
  BY DEF PatchAgent
<1> QED BY <1>2, <1>3 DEF OmegaInv

LEMMA RestartStep ==
    ASSUME OmegaInv, Restart PROVE OmegaInv'
<1>1. run' = [r \in Run |-> Idle] /\ Raises /\ UNCHANGED <<enabled, saved>>
  BY DEF Restart
<1>2. run' \in [Run -> SoundRun]
  BY <1>1, FreshRun
<1>3. faults' \in 0..MaxFaults
  BY <1>1, RaisesIsBounded, OmegaInvParts
<1> QED BY <1>1, <1>2, <1>3 DEF OmegaInv

LEMMA InitOmegaInv == Init => OmegaInv
<1> SUFFICES ASSUME Init PROVE OmegaInv
  OBVIOUS
<1>1. saved \in Tidy
  <2>1. <<>> \in Seq(Saved) /\ Hidden(<<>>) = {} /\ Distinct(<<>>)
    BY DEF Hidden, Distinct
  <2>2. Cardinality(Hidden(<<>>)) <= MaxHidden
    <3>1. Cardinality(Hidden(<<>>)) = 0
      BY <2>1, FS_EmptySet, Zenon
    <3> QED BY <3>1 DEF OmegaAssumption
  <2>3. <<>> \in Tidy
    BY <2>1, <2>2 DEF Tidy
  <2> QED BY <2>3 DEF Init
<1>2. run \in [Run -> SoundRun]
  BY FreshRun DEF Init
<1>3. enabled \in Deployment /\ faults \in 0..MaxFaults
  BY DEF Init, OmegaAssumption
<1> QED BY <1>1, <1>2, <1>3 DEF OmegaInv

LEMMA NextOmegaInv == OmegaInv /\ [Next]_omegaVars => OmegaInv'
<1> SUFFICES ASSUME OmegaInv, [Next]_omegaVars PROVE OmegaInv'
  OBVIOUS
<1>1. CASE UNCHANGED omegaVars
  BY <1>1 DEF omegaVars, OmegaInv
<1>2. ASSUME NEW r \in Run, Receive(r) PROVE OmegaInv'
  <2>1. PICK q \in Requests[enabled] :
            AskConsensus(r, q) \/ ConstructAgents(r, q) \/ ConstructRaises(r, q)
    BY <1>2 DEF Receive
  <2>2. q \in AllRequests
    BY DEF OmegaInv, AllRequests
  <2> QED BY <2>1, <2>2, AskConsensusStep, ConstructAgentsStep, ConstructRaisesStep
<1>3. ASSUME NEW r \in Run, Continue(r) PROVE OmegaInv'
  BY <1>3, HearStep, ConcludeStep, ExecutionStep DEF Continue
<1> QED BY <1>1, <1>2, <1>3, DeleteStep, PatchStep, RestartStep DEF Next

LEMMA OmegaInvImplies == OmegaInv => TypeOK /\ OneAgentPerName
<1> SUFFICES ASSUME OmegaInv PROVE TypeOK
  BY DEF OmegaInv, Tidy, Distinct, OneAgentPerName
<1>1. \A i \in DOMAIN saved : saved[i] \in Saved
  BY DEF OmegaInv, Tidy
<1>2. ASSUME NEW r \in Run
      PROVE  /\ run[r].phase \in {"idle", "asking", "executing", "answered", "raised"}
             /\ run[r].req \in AllRequests
             /\ Len(run[r].asked) <= run[r].req.maxBrains
             /\ ToSet(run[r].heard) \subseteq Answers \cup {Failed, Pending}
  <2>1. run[r] \in RunState /\ Len(run[r].asked) <= run[r].req.maxBrains
    BY DEF OmegaInv, SoundRun
  <2>2. run[r].heard \in Seq(Answers \cup {Failed, Pending})
    BY <2>1 DEF RunState
  <2> QED BY <2>1, <2>2 DEF RunState, Phase, ToSet
<1> QED BY <1>1, <1>2 DEF OmegaInv, TypeOK

LEMMA OmegaInvariant == Spec => []OmegaInv
BY InitOmegaInv, NextOmegaInv, PTL DEF Spec

\* The types of the engines' state: what is saved are definitions of agents, no
\* more brains are asked than the request allows, and what is heard are answers.
THEOREM OmegaTypes == Spec => []TypeOK
BY OmegaInvariant, OmegaInvImplies, PTL

\* However runs overlap, whichever stores raise half-way, and whatever records are
\* deleted or patched, up to six that define no agent any more, the constructor
\* never stores a second definition of an agent it has.
THEOREM AgentsStayUnique == Spec => []OneAgentPerName
BY OmegaInvariant, OmegaInvImplies, PTL

-----------------------------------------------------------------------------
(* What a consensus reports *)

HIDE OmegaAssumption

Reply == Answers \cup {Failed, Pending}

LEMMA ImageIsFinite ==
    ASSUME NEW S, IsFiniteSet(S), NEW f PROVE IsFiniteSet({f[x] : x \in S})
<1> DEFINE T == {f[x] : x \in S}
           g == [x \in S |-> f[x]]
<1>1. g \in Surjection(S, T)
  <2>1. g \in [S -> T] /\ \A t \in T : \E s \in S : g[s] = t
    OBVIOUS
  <2> QED BY <2>1 DEF Surjection
<1> HIDE DEF T, g
<1>2. IsFiniteSet(T)
  BY <1>1, FS_Surjection
<1> QED BY <1>2 DEF T

LEMMA QuotientBound ==
    ASSUME NEW a \in Nat, NEW k \in Nat \ {0}, NEW B \in Nat, a <= B * k
    PROVE  a \div k \in 0..B
<1> DEFINE q == a \div k
<1>1. q \in Int /\ k * q <= a /\ a < k * q + k
  OBVIOUS
<1> HIDE DEF q
<1>2. q >= 0
  <2>1. ASSUME q <= -1 PROVE FALSE
    <3>1. k * q <= k * (-1)
      BY <1>1, <2>1
    <3> QED BY <1>1, <3>1
  <2> QED BY <1>1, <2>1
<1>3. q <= B
  <2>1. ASSUME q >= B + 1 PROVE FALSE
    <3>1. k * q >= k * (B + 1)
      BY <1>1, <2>1
    <3>2. k * (B + 1) = B * k + k
      OBVIOUS
    <3> QED BY <1>1, <3>1, <3>2
  <2> QED BY <1>1, <2>1
<1> QED BY <1>1, <1>2, <1>3 DEF q

LEMMA ReplyType ==
    \A a \in Reply : /\ IsFiniteSet(a.claims) /\ IsFiniteSet(a.about)
                     /\ a.ok => ResponseConfidence(a) \in 0..80
<1> SUFFICES ASSUME NEW a \in Reply
             PROVE  IsFiniteSet(a.claims) /\ IsFiniteSet(a.about) /\ ResponseConfidence(a) \in 0..80
  OBVIOUS
<1>1. IsFiniteSet(a.claims) /\ IsFiniteSet(a.about)
  <2>1. \A b \in {Failed, Pending} : b.claims = {} /\ b.about = {}
    BY DEF Failed, Pending
  <2> QED BY <2>1, OmegaAssumption, FS_EmptySet DEF Reply, OmegaAssumption
<1>2. ResponseConfidence(a) \in 0..80
  BY DEF ResponseConfidence
<1> QED BY <1>1, <1>2

LEMMA SuccessfulType ==
    ASSUME NEW answers \in Seq(Reply)
    PROVE  /\ Successful(answers) \subseteq Nat /\ IsFiniteSet(Successful(answers))
           /\ \A i \in Successful(answers) : answers[i] \in Reply /\ answers[i].ok
<1>1. IsFiniteSet(DOMAIN answers)
  BY LenFinite
<1>2. Successful(answers) \subseteq DOMAIN answers
  BY DEF Successful
<1> QED BY <1>1, <1>2, FS_Subset DEF Successful

\* The answer quoted is one that was given.
LEMMA StrongestType ==
    ASSUME NEW answers \in Seq(Reply), Successful(answers) # {}
    PROVE  Strongest(answers) \in Successful(answers)
<1> DEFINE succ == Successful(answers)
           score == [i \in succ |-> ScoreOf(answers[i])]
           short == {80 - score[i] : i \in succ}
<1>1. succ \subseteq Nat /\ \A i \in succ : score[i] \in 0..80
  BY SuccessfulType, ReplyType DEF ScoreOf
<1> HIDE DEF succ, score
<1>2. short \subseteq Nat /\ short # {}
  <2>1. short # {}
    BY DEF succ
  <2>2. ASSUME NEW i \in succ PROVE 80 - score[i] \in Nat
    <3>1. score[i] \in 0..80
      BY <1>1
    <3>2. \A v \in 0..80 : 80 - v \in Nat
      OBVIOUS
    <3> QED BY <3>1, <3>2, Zenon
  <2> QED BY <2>1, <2>2
<1>3. PICK w \in short : \A y \in short : w <= y
  <2> HIDE DEF short
  <2> QED BY <1>2, LeastNatural
<1> DEFINE best == {i \in succ : 80 - score[i] = w}
<1>4. best \subseteq Nat /\ best # {}
  BY <1>1, <1>3
<1> HIDE DEF best
<1>5. PICK i \in best : \A j \in best : i <= j
  BY <1>4, LeastNatural
<1>6. i \in succ /\ \A j \in succ : score[j] < score[i] \/ (score[j] = score[i] /\ i <= j)
  <2>1. i \in succ /\ 80 - score[i] = w
    BY <1>5 DEF best
  <2>2. ASSUME NEW j \in succ PROVE score[j] < score[i] \/ (score[j] = score[i] /\ i <= j)
    <3>1. w <= 80 - score[j]
      BY <1>3
    <3>2. score[i] \in Int /\ score[j] \in Int
      <4>1. score[i] \in 0..80 /\ score[j] \in 0..80
        BY <1>1, <2>1, Zenon
      <4>2. \A v \in 0..80 : v \in Int
        OBVIOUS
      <4> QED BY <4>1, <4>2, Zenon
    <3>3. CASE score[j] = score[i]
      <4>1. j \in best
        BY <2>1, <3>3 DEF best
      <4> QED BY <1>5, <3>3, <4>1
    <3>4. CASE score[j] # score[i]
      BY <2>1, <3>1, <3>2, <3>4
    <3> QED BY <3>3, <3>4
  <2> QED BY <2>1, <2>2
<1> QED BY <1>6 DEF Strongest, succ, score

LEMMA OverlapBound ==
    ASSUME NEW a \in Reply, NEW b \in Reply PROVE Overlap(a, b) \in 0..100
<1>1. ASSUME NEW c \in Reply PROVE IsFiniteSet(Topics(c))
  <2> DEFINE f == [x \in c.claims |-> x.subject]
  <2>1. Subjects(c) = {f[x] : x \in c.claims}
    BY DEF Subjects
  <2> HIDE DEF f
  <2>2. IsFiniteSet(Subjects(c))
    BY <2>1, ReplyType, ImageIsFinite
  <2> QED BY <2>2, ReplyType DEF Topics
<1> DEFINE A == Topics(a)
           B == Topics(b)
<1>2. IsFiniteSet(A) /\ IsFiniteSet(B)
  BY <1>1
<1>3. Overlap(a, b) = IF A = {} \/ B = {} THEN 0
                      ELSE (100 * Cardinality(A \cap B)) \div Cardinality(A \cup B)
  BY DEF Overlap
<1> HIDE DEF A, B
<1>4. CASE A # {} /\ B # {}
  <2>1. IsFiniteSet(A \cup B)
    BY <1>2, FS_Union
  <2>2. Cardinality(A \cap B) \in Nat /\ Cardinality(A \cap B) <= Cardinality(A \cup B)
    BY <2>1, FS_Subset, FS_CardinalityType
  <2>3. Cardinality(A \cup B) \in Nat \ {0}
    BY <1>4, <2>1, FS_CardinalityType, FS_EmptySet
  <2>4. 100 * Cardinality(A \cap B) \in Nat
        /\ 100 * Cardinality(A \cap B) <= 100 * Cardinality(A \cup B)
    BY <2>2, <2>3
  <2>5. 100 \in Nat
    OBVIOUS
  <2>6. (100 * Cardinality(A \cap B)) \div Cardinality(A \cup B) \in 0..100
    BY <2>3, <2>4, <2>5, QuotientBound
  <2> QED BY <1>3, <1>4, <2>6
<1>5. CASE A = {} \/ B = {}
  BY <1>3, <1>5
<1> QED BY <1>4, <1>5

\* The mean of numbers up to B, scaled.
LEMMA MeanBound ==
    ASSUME NEW S, IsFiniteSet(S), S # {}, NEW B \in Nat, NEW f \in [S -> 0..B], NEW m \in Nat
    PROVE  (m * SumFunctionOnSet(f, S)) \div Cardinality(S) \in 0..(m * B)
<1> DEFINE k == Cardinality(S)
           sum == SumFunctionOnSet(f, S)
<1>1. k \in Nat \ {0}
  BY FS_CardinalityType, FS_EmptySet
<1>2. sum \in 0..(B * k)
  BY SumBound
<1> HIDE DEF k, sum
<1>3. m * sum \in Nat /\ m * B \in Nat
  BY <1>1, <1>2
<1>4. m * sum <= (m * B) * k
  <2>1. sum \in Nat /\ B * k \in Nat /\ sum <= B * k
    BY <1>1, <1>2
  <2>2. m * sum <= m * (B * k)
    BY <2>1
  <2>3. m * (B * k) = (m * B) * k
    BY <1>1
  <2> QED BY <2>2, <2>3
<1>5. (m * sum) \div k \in 0..(m * B)
  BY <1>1, <1>3, <1>4, QuotientBound
<1> QED BY <1>5 DEF k, sum

LEMMA AgreementBound ==
    ASSUME NEW answers \in Seq(Reply)
    PROVE  /\ AgreementScore(answers) \in 0..100
           /\ Cardinality(Successful(answers)) = 1 => AgreementScore(answers) = 35
<1> DEFINE succ == Successful(answers)
           pairs == Pairs(succ)
           overlap == [p \in pairs |-> Overlap(answers[p[1]], answers[p[2]])]
<1>1. succ \subseteq Nat /\ IsFiniteSet(succ) /\ \A i \in succ : answers[i] \in Reply
  BY SuccessfulType
<1>2. AgreementScore(answers) =
          IF pairs = {} THEN 35 ELSE SumFunctionOnSet(overlap, pairs) \div Cardinality(pairs)
  BY DEF AgreementScore
<1> HIDE DEF succ
<1>3. IsFiniteSet(pairs) /\ \A p \in pairs : p[1] \in succ /\ p[2] \in succ
  <2>1. pairs \subseteq succ \X succ
    BY DEF Pairs
  <2>2. IsFiniteSet(succ \X succ)
    BY <1>1, FS_Product
  <2> QED BY <2>1, <2>2, FS_Subset
<1>4. overlap \in [pairs -> 0..100]
  BY <1>1, <1>3, OverlapBound
<1>5. CASE pairs # {}
  <2> HIDE DEF pairs, overlap
  <2>1. 100 \in Nat /\ 1 \in Nat
    OBVIOUS
  <2>2. (1 * SumFunctionOnSet(overlap, pairs)) \div Cardinality(pairs) \in 0..(1 * 100)
    BY <1>3, <1>4, <1>5, <2>1, MeanBound
  <2>3. SumFunctionOnSet(overlap, pairs) \in 0..(100 * Cardinality(pairs))
    BY <1>3, <1>4, <2>1, SumBound
  <2>4. 1 * SumFunctionOnSet(overlap, pairs) = SumFunctionOnSet(overlap, pairs)
    BY <2>3
  <2>5. AgreementScore(answers) \in 0..100
    BY <1>2, <1>5, <2>2, <2>4
  <2>6. Cardinality(succ) # 1
    <3>1. PICK p \in pairs : TRUE
      BY <1>5
    <3>2. p[1] \in succ /\ p[2] \in succ /\ p[1] < p[2]
      BY <1>3, <3>1 DEF pairs, Pairs
    <3>3. p[1] # p[2]
      <4>1. p[1] \in Nat /\ p[2] \in Nat
        BY <1>1, <3>2
      <4> QED BY <3>2, <4>1
    <3>4. ASSUME NEW x, succ = {x} PROVE FALSE
      BY <3>2, <3>3, <3>4
    <3> QED BY <1>1, <3>4, FS_Singleton
  <2> QED BY <2>5, <2>6 DEF succ
<1>6. CASE pairs = {}
  BY <1>2, <1>6
<1> QED BY <1>5, <1>6

LEMMA ContradictionsAreFinite ==
    ASSUME NEW answers \in Seq(Reply)
    PROVE  IsFiniteSet(Contradictions(answers))
<1> DEFINE succ == Successful(answers)
           claims == [i \in succ |-> answers[i].claims]
           C == UNION {claims[i] : i \in succ}
           X == Contradictions(answers)
           T == (succ \X C) \X (succ \X C)
           f == [x \in X |-> <<<<x[1], x[2]>>, <<x[3], x[4]>>>>]
<1>1. IsFiniteSet(succ) /\ \A i \in succ : IsFiniteSet(claims[i])
  BY SuccessfulType, ReplyType
<1>2. IsFiniteSet(C)
  <2>1. IsFiniteSet({claims[i] : i \in succ})
    <3> HIDE DEF succ, claims
    <3> QED BY <1>1, ImageIsFinite
  <2>2. \A D \in {claims[i] : i \in succ} : IsFiniteSet(D)
    BY <1>1
  <2> HIDE DEF claims, succ
  <2> QED BY <2>1, <2>2, FS_UNION
<1>3. \A x \in X : /\ x = <<x[1], x[2], x[3], x[4]>>
                   /\ x[1] \in succ /\ x[2] \in C /\ x[3] \in succ /\ x[4] \in C
  <2> SUFFICES ASSUME NEW x \in X
               PROVE  /\ x = <<x[1], x[2], x[3], x[4]>>
                      /\ x[1] \in succ /\ x[2] \in C /\ x[3] \in succ /\ x[4] \in C
    OBVIOUS
  <2>1. PICK p \in Pairs(succ) : \E c \in answers[p[1]].claims, d \in answers[p[2]].claims :
                                    x = <<p[1], c, p[2], d>>
    BY DEF Contradictions
  <2>2. PICK c \in answers[p[1]].claims, d \in answers[p[2]].claims : x = <<p[1], c, p[2], d>>
    BY <2>1
  <2>3. p[1] \in succ /\ p[2] \in succ
    BY DEF Pairs
  <2> HIDE DEF succ
  <2>4. c \in C /\ d \in C
    BY <2>2, <2>3
  <2> HIDE DEF C
  <2> QED BY <2>2, <2>3, <2>4
<1>4. IsFiniteSet(T)
  <2> HIDE DEF C, succ
  <2>1. IsFiniteSet(succ \X C)
    BY <1>1, <1>2, FS_Product
  <2> QED BY <2>1, FS_Product
<1> HIDE DEF X, C, succ
<1>5. f \in [X -> T]
  BY <1>3
<1>6. \A x, y \in X : f[x] = f[y] => x = y
  BY <1>3
<1> HIDE DEF T
<1>7. f \in Injection(X, T)
  BY <1>5, <1>6 DEF Injection, IsInjective
<1> HIDE DEF f
<1>8. IsFiniteSet(X)
  BY <1>4, <1>7, FS_Injection
<1> QED BY <1>8 DEF X

\* What the confidence takes, in hundredths of a percent.
LEMMA ConfidenceBounds ==
    ASSUME NEW answers \in Seq(Reply), NEW least \in Nat, Successful(answers) # {}
    PROVE  /\ OverallConfidence(answers, least) > 5700 => Cardinality(Successful(answers)) >= 2
           /\ OverallConfidence(answers, least) > 6300 => Cardinality(Successful(answers)) >= least
           /\ OverallConfidence(answers, least) > 8000 => Contradictions(answers) = {}
<1> DEFINE succ == Successful(answers)
           k == Cardinality(succ)
           score == [i \in succ |-> ResponseConfidence(answers[i])]
           mean == (65 * SumFunctionOnSet(score, succ)) \div k
           agreement == AgreementScore(answers)
           count == ConflictCount(answers)
           penalty == Min({3500, 800 * count})
           few == IF k < least THEN 2500 ELSE 0
           total == mean + 35 * agreement - penalty - few
<1>1. IsFiniteSet(succ) /\ k \in Nat \ {0}
  BY SuccessfulType, FS_CardinalityType, FS_EmptySet
<1>2. score \in [succ -> 0..80]
  BY SuccessfulType, ReplyType
<1>3. mean \in 0..5200
  <2> HIDE DEF score, succ
  <2>1. 80 \in Nat /\ 65 \in Nat
    OBVIOUS
  <2>2. (65 * SumFunctionOnSet(score, succ)) \div Cardinality(succ) \in 0..(65 * 80)
    BY <1>1, <1>2, <2>1, MeanBound DEF succ
  <2>3. mean \in 0..(65 * 80)
    BY <2>2, Zenon DEF k
  <2> HIDE DEF mean
  <2> QED BY <2>3
<1>4. agreement \in 0..100 /\ (k = 1 => agreement = 35)
  BY AgreementBound
<1>5. Cardinality(Contradictions(answers)) \in Nat
      /\ (Contradictions(answers) # {} => Cardinality(Contradictions(answers)) >= 1)
  BY ContradictionsAreFinite, FS_CardinalityType, FS_EmptySet
<1>6. count \in Nat /\ (k = 1 \/ Contradictions(answers) # {} => count >= 1)
  BY <1>1, <1>5 DEF ConflictCount
<1>7. OverallConfidence(answers, least) = Clamp(total)
  BY DEF OverallConfidence
<1> HIDE DEF k, mean, agreement, count, succ
<1>8. penalty \in 0..3500 /\ (count >= 1 => penalty >= 800)
  <2>1. penalty \in {3500, 800 * count} /\ \A y \in {3500, 800 * count} : penalty <= y
    <3>1. \E x \in {3500, 800 * count} : \A y \in {3500, 800 * count} : x <= y
      BY <1>6
    <3> QED BY <3>1 DEF Min
  <2> HIDE DEF penalty
  <2> QED BY <1>6, <2>1
<1> HIDE DEF penalty
<1>9. total \in Int
  BY <1>1, <1>3, <1>4, <1>8
<1>10. /\ k = 1 => total <= 5625
       /\ k < least => total <= 6200
       /\ Contradictions(answers) # {} => total <= 7900
  <2>1. few \in Int /\ (k < least => few = 2500) /\ few >= 0
    BY <1>1
  <2> HIDE DEF few
  <2>2. ASSUME k = 1 PROVE total <= 5625
    <3>1. agreement = 35 /\ penalty >= 800 /\ penalty \in 0..3500
      BY <1>4, <1>6, <1>8, <2>2
    <3> QED BY <1>3, <2>1, <3>1
  <2>3. ASSUME k < least PROVE total <= 6200
    BY <1>3, <1>4, <1>8, <2>1, <2>3
  <2>4. ASSUME Contradictions(answers) # {} PROVE total <= 7900
    <3>1. penalty >= 800 /\ penalty \in 0..3500
      BY <1>6, <1>8, <2>4
    <3> QED BY <1>3, <1>4, <2>1, <3>1
  <2> QED BY <2>2, <2>3, <2>4
<1> HIDE DEF total
<1>11. Clamp(total) \in 0..10000 /\ \A b \in Nat : total <= b => Clamp(total) <= b
  <2> DEFINE low == Min({10000, total})
             high == Max({0, low})
  <2>1. low \in {10000, total} /\ \A y \in {10000, total} : low <= y
    <3>1. \E x \in {10000, total} : \A y \in {10000, total} : x <= y
      BY <1>9
    <3> QED BY <3>1 DEF Min
  <2> HIDE DEF low
  <2>2. high \in {0, low} /\ \A y \in {0, low} : high >= y
    <3>1. \E x \in {0, low} : \A y \in {0, low} : x >= y
      BY <1>9, <2>1
    <3> QED BY <3>1 DEF Max
  <2>3. Clamp(total) = high
    BY DEF Clamp, low
  <2> HIDE DEF high
  <2>4. low \in Int /\ low <= total /\ low <= 10000
    BY <1>9, <2>1
  <2>5. high \in Int /\ high >= 0 /\ (high = 0 \/ high = low)
    BY <2>2, <2>4
  <2>6. high \in 0..10000 /\ \A b \in Nat : total <= b => high <= b
    BY <1>9, <2>4, <2>5
  <2> QED BY <2>3, <2>6
<1> DEFINE c == Clamp(total)
           conflicts == Contradictions(answers)
<1>12. /\ k \in Nat \ {0} /\ c \in 0..10000
       /\ k = 1 => c <= 5625
       /\ k < least => c <= 6200
       /\ conflicts # {} => c <= 7900
  BY <1>1, <1>10, <1>11
<1> HIDE DEF c, conflicts
<1>13. /\ c > 5700 => k >= 2
       /\ c > 6300 => k >= least
       /\ c > 8000 => conflicts = {}
  <2>1. k \in Nat \ {0} /\ c \in 0..10000 /\ least \in Nat
    BY <1>12
  <2>2. (k = 1 => c <= 5625) /\ (k < least => c <= 6200) /\ (conflicts # {} => c <= 7900)
    BY <1>12
  <2>3. ASSUME c > 5700 PROVE k >= 2
    BY <2>1, <2>2, <2>3
  <2>4. ASSUME c > 6300 PROVE k >= least
    BY <2>1, <2>2, <2>4
  <2>5. ASSUME c > 8000 PROVE conflicts = {}
    BY <2>1, <2>2, <2>5
  <2> QED BY <2>3, <2>4, <2>5
<1> QED BY <1>7, <1>13 DEF k, succ, c, conflicts

\* What the property says of one run.
Earned(x) ==
    LET c == Consensus(x)
        answered == Successful(x.heard)
    IN  /\ Pending \notin ToSet(x.heard)
        /\ c.quoted \in answered \/ (answered = {} /\ c.quoted = 0)
        /\ answered = {} => c.confidence = 0
        /\ c.confidence > 5700 => Cardinality(answered) >= 2
        /\ c.confidence > 6300 => Cardinality(answered) >= x.req.minBrains
        /\ c.confidence > 8000 => c.conflicts = {}

LEMMA OmegaInvEarns == OmegaInv => ConsensusIsEarned
<1>0. ConsensusIsEarned <=>
          \A r \in Run : run[r].phase \in {"executing", "answered"} /\ run[r].asked # <<>>
                            => Earned(run[r])
  BY DEF ConsensusIsEarned, Earned
<1> SUFFICES ASSUME OmegaInv, NEW r \in Run, run[r].phase \in {"executing", "answered"},
                    run[r].asked # <<>>
             PROVE  Earned(run[r])
  BY <1>0
<1> DEFINE answers == run[r].heard
           least == run[r].req.minBrains
           c == Consensus(run[r])
<1>1. run[r] \in RunState /\ AllHeard(run[r])
  BY DEF OmegaInv, SoundRun
<1>2. answers \in Seq(Reply) /\ least \in Nat /\ Pending \notin ToSet(answers)
  BY <1>1, RequestType DEF RunState, AllHeard, Reply
<1>3. /\ c.quoted = Strongest(answers)
      /\ c.confidence = OverallConfidence(answers, least)
      /\ c.conflicts = Contradictions(answers)
  BY DEF Consensus, ConsensusOf
<1> HIDE DEF answers, least, c
<1>4. CASE Successful(answers) = {}
  <2>1. Strongest(answers) = 0 /\ OverallConfidence(answers, least) = 0
    BY <1>4 DEF Strongest, OverallConfidence
  <2>2. c.quoted = 0 /\ c.confidence = 0
    BY <1>3, <2>1
  <2> QED BY <1>2, <1>4, <2>2 DEF Earned, answers, least, c
<1>5. CASE Successful(answers) # {}
  <2>1. Strongest(answers) \in Successful(answers)
    BY <1>2, <1>5, StrongestType
  <2>2. answers \in Seq(Reply) /\ least \in Nat
    BY <1>2
  <2>3. /\ OverallConfidence(answers, least) > 5700 => Cardinality(Successful(answers)) >= 2
        /\ OverallConfidence(answers, least) > 6300 => Cardinality(Successful(answers)) >= least
        /\ OverallConfidence(answers, least) > 8000 => Contradictions(answers) = {}
    BY <1>5, <2>2, ConfidenceBounds
  <2>4. /\ c.confidence > 5700 => Cardinality(Successful(answers)) >= 2
        /\ c.confidence > 6300 => Cardinality(Successful(answers)) >= least
        /\ c.confidence > 8000 => c.conflicts = {}
    BY <1>3, <2>3
  <2> QED BY <1>2, <1>3, <1>5, <2>1, <2>4 DEF Earned, answers, least, c
<1> QED BY <1>4, <1>5

\* A run, or a request for a consensus, reports on all the brains it asked; it
\* quotes one that answered, and claims no more confidence than a lone answer, too
\* few answers or a contradiction leave it.
THEOREM ConfidenceIsEarned == Spec => []ConsensusIsEarned
BY OmegaInvariant, OmegaInvEarns, PTL

================================================================================
