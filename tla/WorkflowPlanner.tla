---------------------------- MODULE WorkflowPlanner ----------------------------
(***************************************************************************)
(* The cognitive workflow planner                                          *)
(* (saturnix_harness/core/cognitive_workflow_planner.py).                  *)
(*                                                                         *)
(* plan() generates tasks and their dependencies from the words of a       *)
(* request, gives every task a brain, and reads three things off the       *)
(* graph: the rounds in which tasks may run side by side, the critical     *)
(* path, and the running time it promises.  The loop over the rounds is    *)
(* the one piece of the planner that could fail to end, or end early.      *)
(***************************************************************************)
EXTENDS BrainRouter, Sequences, FiniteSetsExt, SequencesExt

CONSTANTS
    Requests,   \* the plans asked for
    NoPlan      \* "no plan yet"

\* The specialist tasks, each called for by one keyword set of the planner.
Specialist == {"research", "implementation", "automation", "security", "schema",
               "voice", "memory"}

Task == Specialist \cup {"intent", "architecture", "synthesis", "verification", "memory_write"}

\* Bound of max_parallelism.
MaxParallelism == 12

(* What the planner reads from a request: the keyword sets its text meets; the
   words that the router knows, of its goal and privacy level, of its speed
   priority and of its output format, all three free texts ("realtime" is a word
   of speed and one of voice); whether the plan is kept in memory. *)
Request == [topics : SUBSET Specialist,
            words : SUBSET {"voice", "private", "code", "structured", "large"},
            speed : SUBSET {"voice", "private", "large", "fast"},
            format : SUBSET {"voice", "private", "structured", "large"},
            parallel : 1..MaxParallelism, persist : BOOLEAN]

ASSUME PlannerAssumption ==
    /\ Requests \subseteq Request
    /\ NoPlan \notin [path : Seq(Task), seconds : Nat, brain : [Task -> STRING]]

VARIABLES
    request,    \* the request; fixed
    remaining,  \* the tasks not yet in a round
    completed,  \* the tasks of the rounds so far
    rounds,     \* the rounds; those of one task are left out of the result
    plan,       \* the result, or NoPlan
    pc          \* "grouping", "planned", "answered" or "failed"

plannerVars == <<request, remaining, completed, rounds, plan, pc>>

-----------------------------------------------------------------------------
(* The task graph, _build_task_specs. *)

TasksOf(topics) == topics \cup {"intent", "architecture", "synthesis", "verification", "memory_write"}

\* Tasks are made in this order; so are the dependencies of each.
BuiltAt == <<"intent", "architecture", "research", "implementation", "automation", "security",
             "schema", "voice", "memory", "synthesis", "verification", "memory_write">>

Built == [t \in Task |-> CHOOSE i \in 1..12 : BuiltAt[i] = t]

\* Mutant: implementation waits for research whether or not there is any.
DependsOnAbsent(topics, t) ==
    CASE t = "intent" -> {}
      [] t \in {"architecture", "research", "voice"} -> {"intent"}
      [] t = "implementation" -> {"architecture", "research"}
      [] t \in {"automation", "security", "schema", "memory"} -> {"architecture"}
      [] t = "synthesis" -> IF topics = {} THEN {"architecture"} ELSE topics
      [] t = "verification" -> {"synthesis"}
      [] t = "memory_write" -> {"verification"}

DependsOn(topics, t) ==
    CASE t = "intent" -> {}
      [] t \in {"architecture", "research", "voice"} -> {"intent"}
      [] t = "implementation" -> {"architecture"} \cup (topics \cap {"research"})
      [] t \in {"automation", "security", "schema", "memory"} -> {"architecture"}
      [] t = "synthesis" -> IF topics = {} THEN {"architecture"} ELSE topics
      [] t = "verification" -> {"synthesis"}
      [] t = "memory_write" -> {"verification"}

Complexity(topics, t) ==
    IF t \in {"intent", "memory_write"} THEN "low"
    ELSE IF t = "implementation" \/ (t = "synthesis" /\ Cardinality(topics) > 3) THEN "high"
    ELSE "medium"

\* _complexity_points and _runtime_for_complexity.
Points == [low |-> 1, medium |-> 3, high |-> 5]
Seconds == [low |-> 120, medium |-> 360, high |-> 720]

-----------------------------------------------------------------------------
(* The brain of a task: the router reads the goal and the privacy level, the
   description and type of the task, and its speed and format.  The request's
   speed is given to the implementation alone, its format to the tasks that have
   none of their own. *)

HasOwnFormat == {"implementation", "automation", "schema"}

OwnWords(q, t) ==
    CASE t = "research"   -> {"large"} \cup q.format
      [] t = "automation" -> {"structured"}
      [] t = "schema"     -> {"structured", "large"}
      [] t = "voice"      -> {"voice"} \cup q.format
      [] t = "implementation" -> {"code"} \cup q.speed
      [] OTHER -> q.format

TaskWords(q, t) == q.words \cup OwnWords(q, t)

AssignedBrain(q, t) == RouteTask(TaskWords(q, t), "private" \in TaskWords(q, t))

-----------------------------------------------------------------------------
(* _critical_path. *)

\* max() keeps the first of equal scores: here, of paths to different tasks.
FirstBest(paths) ==
    CHOOSE x \in paths :
        \A y \in paths :
            \/ y.score < x.score
            \/ y.score = x.score /\ Built[Last(x.path)] <= Built[Last(y.path)]

\* Mutant: the first dependency stands for all of them.
ExtendFirst(paths, t, points) ==
    LET first == CHOOSE x \in paths :
                    \A y \in paths : Built[Last(x.path)] <= Built[Last(y.path)]
    IN  IF paths = {} THEN [score |-> points, path |-> <<t>>]
        ELSE [score |-> first.score + points, path |-> Append(first.path, t)]

\* The best path to t, from those to its dependencies.
Extend(paths, t, points) ==
    IF paths = {} THEN [score |-> points, path |-> <<t>>]
    ELSE LET first == FirstBest(paths)
         IN  [score |-> first.score + points, path |-> Append(first.path, t)]

CriticalPath ==
    [topics \in SUBSET Specialist |->
        LET best[t \in TasksOf(topics)] ==
                Extend({best[d] : d \in DependsOn(topics, t) \cap TasksOf(topics)}, t,
                       Points[Complexity(topics, t)])
        IN  FirstBest({best[t] : t \in TasksOf(topics)}).path]

\* _runtime_for_path.
RuntimeForPath(topics, path) ==
    LET sum[i \in 0..Len(path)] ==
            IF i = 0 THEN 0 ELSE sum[i - 1] + Seconds[Complexity(topics, path[i])]
    IN  sum[Len(path)]

-----------------------------------------------------------------------------
(* One turn of the loop of _parallel_groups. *)

\* Python's order of the identifiers.
NamedAt == <<"architecture", "automation", "implementation", "intent", "memory", "memory_write",
             "research", "schema", "security", "synthesis", "verification", "voice">>

Named == [t \in Task |-> CHOOSE i \in 1..12 : NamedAt[i] = t]

\* Mutant: a task is ready when one dependency is completed.
ReadyEarly ==
    {t \in remaining : \/ DependsOn(request.topics, t) = {}
                       \/ DependsOn(request.topics, t) \cap completed # {}}

Ready == {t \in remaining : DependsOn(request.topics, t) \subseteq completed}

\* Mutant: one place is lost.
GroupShort(ready) ==
    {t \in ready : Cardinality({u \in ready : Named[u] < Named[t]}) < request.parallel - 1}

\* ready[:max_parallelism] of the sorted list.
Group(ready) ==
    {t \in ready : Cardinality({u \in ready : Named[u] < Named[t]}) < request.parallel}

FormRound ==
    /\ pc = "grouping"
    /\ Ready # {}
    /\ LET group == Group(Ready) IN
         /\ rounds' = Append(rounds, group)
         /\ completed' = completed \cup group
         /\ remaining' = remaining \ group
    /\ UNCHANGED <<request, plan, pc>>

\* The loop ends, by its condition or by its break, and the result is built.
Assemble ==
    /\ pc = "grouping"
    /\ Ready = {}
    /\ plan' = LET path == CriticalPath[request.topics]
               IN  [path |-> path, seconds |-> RuntimeForPath(request.topics, path),
                    brain |-> [t \in TasksOf(request.topics) |-> AssignedBrain(request, t)]]
    /\ pc' = "planned"
    /\ UNCHANGED <<request, remaining, completed, rounds>>

\* save_memory may raise, before or after it has stored the plan.
Answer ==
    /\ pc = "planned"
    /\ pc' \in (IF request.persist THEN {"answered", "failed"} ELSE {"answered"})
    /\ UNCHANGED <<request, remaining, completed, rounds, plan>>

-----------------------------------------------------------------------------

Init ==
    /\ request \in Requests
    /\ remaining = TasksOf(request.topics)
    /\ completed = {}
    /\ rounds = <<>>
    /\ plan = NoPlan
    /\ pc = "grouping"

Next == FormRound \/ Assemble \/ Answer

Spec == Init /\ [][Next]_plannerVars

-----------------------------------------------------------------------------
(* Properties *)

\* Every round has a task, so that each turn of the loop makes progress.
TypeOK ==
    /\ request \in Requests
    /\ remaining \subseteq Task
    /\ completed \subseteq Task
    /\ rounds \in Seq((SUBSET Task) \ {{}})
    /\ plan # NoPlan => /\ plan.path \in Seq(Task)
                        /\ plan.seconds \in Nat
                        /\ DOMAIN plan.brain = TasksOf(request.topics)
    /\ pc \in {"grouping", "planned", "answered", "failed"}

\* The rounds are a schedule: a task appears in one round, after every round
\* its dependencies appear in, and a round fits in the parallelism asked for.
RoundsRespectDependencies ==
    \A i \in DOMAIN rounds :
        /\ Cardinality(rounds[i]) <= request.parallel
        /\ \A j \in DOMAIN rounds : i # j => rounds[i] \cap rounds[j] = {}
        /\ \A t \in rounds[i] : DependsOn(request.topics, t) \subseteq UNION {rounds[j] : j \in 1..i-1}

\* The loop never breaks off early: when the result is built every task has
\* been given a round.
NoTaskIsLeftOut == pc # "grouping" => remaining = {} /\ completed = TasksOf(request.topics)

\* All chains of dependencies that end in a task.
Chains ==
    [topics \in SUBSET Specialist |->
        LET to[t \in TasksOf(topics)] ==
                IF DependsOn(topics, t) = {} THEN {<<t>>}
                ELSE {Append(chain, t) : chain \in UNION {to[d] : d \in DependsOn(topics, t)}}
        IN  UNION {to[t] : t \in TasksOf(topics)}]

RoundSeconds(i) == Max({Seconds[Complexity(request.topics, t)] : t \in rounds[i]})

\* The critical path is chosen by points and reported in seconds, whose ratios
\* differ: it is still the slowest chain, and the rounds cannot be run in less
\* time than the estimate.
EstimateIsTheSlowestChain ==
    plan # NoPlan =>
        /\ plan.path \in Chains[request.topics]
        /\ \A chain \in Chains[request.topics] : RuntimeForPath(request.topics, chain) <= plan.seconds
        /\ plan.seconds <= MapThenSumSet(RoundSeconds, DOMAIN rounds)

LeavesMachine(t) == PreferredBrain[plan.brain[t]] \notin LocalProvider

\* Privacy decides before every other word but those of voice: a private plan
\* leaves the machine exactly with its voice task, with the implementation when
\* its speed speaks of voice ("realtime"), with the tasks that take over a format
\* of voice, and as a whole when its goal speaks of voice.
PrivatePlansStayLocal ==
    plan # NoPlan /\ "private" \in request.words =>
        \A t \in TasksOf(request.topics) :
            LeavesMachine(t) <=> \/ t = "voice"
                                 \/ "voice" \in request.words
                                 \/ t = "implementation" /\ "voice" \in request.speed
                                 \/ t \notin HasOwnFormat /\ "voice" \in request.format
================================================================================
