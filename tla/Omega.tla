--------------------------------- MODULE Omega ---------------------------------
(***************************************************************************)
(* Omega runs (saturnix_harness/core/omega_engine.py), and the two         *)
(* endpoints that reach the same engines alone: constructing agents and    *)
(* asking for a consensus.                                                 *)
(*                                                                         *)
(* A run constructs its agents and plans its workflow without giving up    *)
(* the event loop; then it waits for its consensus brains, all asked at    *)
(* once, and for the execution; then it stores what was learned, again in  *)
(* one piece.  Runs overlap where they wait.  Every store may raise, before *)
(* or after its row is committed, and ends the run with an error.          *)
(***************************************************************************)
EXTENDS Consensus, AgentConstructor

CONSTANTS
    Run,            \* the runs a client keeps open
    Deployment,     \* the sets of enabled providers considered
    Requests,       \* what clients ask for, by enabled providers
    Answers,        \* what a brain may answer
    MaxFaults,      \* bound: stores that raise, and crashes
    MaxHidden       \* bound: agent records at once that define no agent any more

(* A request: its endpoint; what the constructor reads; whether brains are to be
   consulted, how many at least and at most, and local ones among them; whether
   the goal is executed and kept in memory. *)
Request ==
    [kind : {"omega", "construct", "consensus"}, agents : ConstructionRequest,
     consult : BOOLEAN, minBrains : 1..5, maxBrains : 1..5, includeLocal : BOOLEAN,
     execute : BOOLEAN, persist : BOOLEAN]

\* What an Omega run asks of the engines is fixed (_maybe_consensus, and its
\* construction of agents).
OmegaAsks(q) ==
    /\ q.minBrains = 1 /\ q.maxBrains = 3 /\ q.includeLocal
    /\ q.agents.memoryNeeds /\ q.agents.allowNew

AllRequests == UNION {Requests[d] : d \in Deployment}

ASSUME OmegaAssumption ==
    /\ Deployment \subseteq SUBSET Provider
    /\ AllRequests \subseteq Request /\ AllRequests # {}
    /\ \A q \in AllRequests : q.kind = "omega" => OmegaAsks(q)
    /\ Answers \subseteq AnswersAbout(UNION {a.about \cup Subjects(a) : a \in Answers})
    /\ \A a \in Answers : IsFiniteSet(a.claims) /\ IsFiniteSet(a.about)
    /\ MaxFaults \in Nat
    /\ MaxHidden \in 0..6

VARIABLES
    enabled,    \* the enabled providers; fixed
    saved,      \* the generated agents in memory, the newest last
    run,        \* the runs
    faults      \* faults so far

omegaVars == <<enabled, saved, run, faults>>

Pending == [ok |-> FALSE, marks |-> {"pending"}, claims |-> {}, about |-> {}]

Idle == [phase |-> "idle", req |-> CHOOSE q \in AllRequests : TRUE, asked |-> <<>>,
         heard |-> <<>>]

-----------------------------------------------------------------------------
(* Going on and ending *)

Set(r, x) == run' = [run EXCEPT ![r] = x]

Raises == faults < MaxFaults /\ faults' = faults + 1

AskAll(x) ==
    LET asked == SelectProviders(enabled, x.req.includeLocal, x.req.maxBrains)
    IN  [x EXCEPT !.phase = "asking", !.asked = asked, !.heard = [i \in DOMAIN asked |-> Pending]]

\* The improvement strategies, and the run's own memory if it is kept.
Finish(r, x) ==
    \/ Set(r, [x EXCEPT !.phase = "answered"]) /\ UNCHANGED faults
    \/ Set(r, [x EXCEPT !.phase = "raised"]) /\ Raises

\* _maybe_execute: without execution the result is made up on the spot.
Proceed(r, x) ==
    IF x.req.execute THEN Set(r, [x EXCEPT !.phase = "executing"]) /\ UNCHANGED faults
    ELSE Finish(r, x)

\* After the agents: plan() may raise when it stores the plan.
Orchestrate(r, x) ==
    \/ IF x.req.consult THEN Set(r, AskAll(x)) /\ UNCHANGED faults ELSE Proceed(r, x)
    \/ x.req.persist /\ Set(r, [x EXCEPT !.phase = "raised"]) /\ Raises

-----------------------------------------------------------------------------
(* Actions *)

AskConsensus(r, q) ==
    /\ q.kind = "consensus"
    /\ Set(r, AskAll([Idle EXCEPT !.req = q]))
    /\ UNCHANGED <<enabled, saved, faults>>

\* No store raises while the agents are constructed.
ConstructAgents(r, q) ==
    /\ q.kind # "consensus"
    /\ saved' = Construct(saved, q.agents, 12, FALSE).saved
    /\ LET x == [Idle EXCEPT !.req = q] IN
         IF q.kind = "construct" THEN Set(r, [x EXCEPT !.phase = "answered"]) /\ UNCHANGED faults
         ELSE Orchestrate(r, x)
    /\ UNCHANGED enabled

\* One of the stores raises; earlier agents of the request stay saved.
ConstructRaises(r, q) ==
    /\ q.kind # "consensus"
    /\ \E good \in 0..3, torn \in BOOLEAN :
         LET made == Construct(saved, q.agents, good, torn)
         IN  made.raised /\ saved' = made.saved
    /\ Set(r, [Idle EXCEPT !.req = q, !.phase = "raised"])
    /\ Raises
    /\ UNCHANGED enabled

Receive(r) ==
    /\ run[r].phase \in {"idle", "answered", "raised"}
    /\ \E q \in Requests[enabled] : AskConsensus(r, q) \/ ConstructAgents(r, q) \/ ConstructRaises(r, q)

\* A brain answers, or its call raises or times out.
Hear(r, i, a) ==
    /\ run[r].phase = "asking"
    /\ run[r].heard[i] = Pending
    /\ Set(r, [run[r] EXCEPT !.heard[i] = a])
    /\ UNCHANGED <<enabled, saved, faults>>

HearAny(r) == \E i \in DOMAIN run[r].heard, a \in Answers \cup {Failed} : Hear(r, i, a)

\* What a run reports of the brains it asked.
Consensus(x) == ConsensusOf(x.heard, x.req.minBrains)

\* Mutant: the run waits for a brain that answers.
ConcludeWhenAnswered(r) ==
    /\ run[r].phase = "asking"
    /\ Pending \notin ToSet(run[r].heard)
    /\ Successful(run[r].heard) # {}
    /\ IF run[r].req.kind = "consensus"
       THEN Set(r, [run[r] EXCEPT !.phase = "answered"]) /\ UNCHANGED faults
       ELSE Proceed(r, run[r])
    /\ UNCHANGED <<enabled, saved>>

\* gather() is over when every call is.
Conclude(r) ==
    /\ run[r].phase = "asking"
    /\ Pending \notin ToSet(run[r].heard)
    /\ IF run[r].req.kind = "consensus"
       THEN Set(r, [run[r] EXCEPT !.phase = "answered"]) /\ UNCHANGED faults
       ELSE Proceed(r, run[r])
    /\ UNCHANGED <<enabled, saved>>

\* execute_goal answers, with a failure result if need be, or raises.
ExecutionEnds(r) ==
    /\ run[r].phase = "executing"
    /\ \/ Finish(r, run[r])
       \/ Set(r, [run[r] EXCEPT !.phase = "raised"]) /\ Raises
    /\ UNCHANGED <<enabled, saved>>

\* DELETE of a generated agent through the memory endpoints, or a PATCH of its
\* namespace, tags or texts after which no look-up sees it.
DeleteAgent ==
    /\ \E i \in DOMAIN saved : saved' = RemoveAt(saved, i)
    /\ UNCHANGED <<enabled, run, faults>>

\* A PATCH that leaves it to be seen: it is now the newest, and new metadata hold
\* no definition.  (Clients write no definitions themselves.)
PatchAgent ==
    /\ \E i \in DOMAIN saved, keeps \in BOOLEAN :
         /\ keeps \/ Cardinality(Hidden(saved)) < MaxHidden
         /\ saved' = Append(RemoveAt(saved, i), [saved[i] EXCEPT !.defines = @ /\ keeps])
    /\ UNCHANGED <<enabled, run, faults>>

\* The process dies between two steps; what is in SQLite stays.
Restart ==
    /\ \E r \in Run : run[r].phase # "idle"
    /\ Raises
    /\ run' = [r \in Run |-> Idle]
    /\ UNCHANGED <<enabled, saved>>

-----------------------------------------------------------------------------

Init ==
    /\ enabled \in Deployment
    /\ saved = <<>>
    /\ run = [r \in Run |-> Idle]
    /\ faults = 0

Continue(r) == HearAny(r) \/ Conclude(r) \/ ExecutionEnds(r)

Next ==
    \/ \E r \in Run : Receive(r) \/ Continue(r)
    \/ DeleteAgent
    \/ PatchAgent
    \/ Restart

Spec == Init /\ [][Next]_omegaVars

\* Provider calls time out, and the event loop resumes every run.
FairSpec == Spec /\ \A r \in Run : WF_omegaVars(Continue(r))

-----------------------------------------------------------------------------
(* Properties *)

TypeOK ==
    /\ enabled \in Deployment
    /\ \A i \in DOMAIN saved : saved[i] \in Saved
    /\ \A r \in Run :
         /\ run[r].phase \in {"idle", "asking", "executing", "answered", "raised"}
         /\ run[r].req \in AllRequests
         /\ Len(run[r].asked) <= run[r].req.maxBrains
         /\ ToSet(run[r].heard) \subseteq Answers \cup {Failed, Pending}
    /\ faults \in 0..MaxFaults

\* However runs overlap, whichever stores raise half-way and are tried again, and
\* whatever records are deleted, touched or stripped of their definition, memory
\* holds one definition of each generated agent: a look-up that reads ten records
\* finds it among those that only name it.
OneAgentPerName ==
    \A i, j \in DOMAIN saved :
        saved[i].defines /\ saved[j].defines /\ saved[i].name = saved[j].name => i = j

\* What a consensus reports of its answers, some of which may be failures: it
\* quotes a brain that did answer, and is confident only when it may be.  A lone
\* answer stays below 57 percent, fewer answers than asked for stay below 63, and
\* a contradiction costs the rest.
ConsensusIsEarned ==
    \A r \in Run : run[r].phase \in {"executing", "answered"} /\ run[r].asked # <<>> =>
        LET c == Consensus(run[r])
            answered == Successful(run[r].heard)
        IN  /\ Pending \notin ToSet(run[r].heard)
            /\ c.quoted \in answered \/ (answered = {} /\ c.quoted = 0)
            /\ answered = {} => c.confidence = 0
            /\ c.confidence > 5700 => Cardinality(answered) >= 2
            /\ c.confidence > 6300 => Cardinality(answered) >= run[r].req.minBrains
            /\ c.confidence > 8000 => c.conflicts = {}

\* Every run ends, with an answer or an error, unless the process dies.
OmegaIsAnswered ==
    \A r \in Run : run[r].phase \in {"asking", "executing"}
                      ~> run[r].phase \notin {"asking", "executing"}
================================================================================
