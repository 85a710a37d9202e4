--------------------------- MODULE MCWorkflowPlanner ---------------------------
(* Instances of WorkflowPlanner for TLC. *)
EXTENDS WorkflowPlanner

Plain == [topics |-> {}, words |-> {}, speed |-> {}, format |-> {}, parallel |-> 3,
          persist |-> FALSE]

\* Every task graph, under every parallelism.
Graphs == {[Plain EXCEPT !.topics = ts, !.parallel = n] :
              ts \in SUBSET Specialist, n \in 1..MaxParallelism}

\* Every wording of the goal, the speed and the format, for the largest graph.
Wordings == {[topics |-> Specialist, words |-> w, speed |-> s, format |-> f, parallel |-> 12,
              persist |-> TRUE] :
                w \in SUBSET {"voice", "private", "code", "structured", "large"},
                s \in SUBSET {"voice", "private", "large", "fast"},
                f \in SUBSET {"voice", "private", "structured", "large"}}

MCRequests == Graphs \cup Wordings
================================================================================
