------------------------------- MODULE AgentsSdk -------------------------------
(***************************************************************************)
(* The agents SDK manager (saturnix_harness/agents_sdk): runs of one agent *)
(* and the five-step handoff workflow, behind the guardrails, on the       *)
(* OpenAI Agents SDK or on the local fallback.                             *)
(*                                                                         *)
(* The runs are coroutines of one event loop, and loop says which of them  *)
(* has it: a run gives it away only while the SDK's Runner or Ollama       *)
(* works, or when it ends.  The Runner is external: it calls the tools of  *)
(* the agent, hands off to another one, returns, or raises.                *)
(***************************************************************************)
EXTENDS SecuritySentinel, Sequences

CONSTANTS
    Run,        \* the requests that can be in progress at once
    NoRun,
    Deployment, \* the settings considered
    Requests,   \* the requests considered in each kind of workload
    Outputs,    \* what a model's answer can say: sets of markers
    ToolCalls,  \* the calls considered: a tool and the markers in its argument
    MaxEvents   \* MonitoringLayer.max_events

Tool == {"web_search", "memory_search", "file_access", "code_execution", "workflow",
         "security_scan", "voice_transcription", "edge_node"}

ASSUME SdkAssumption ==
    /\ NoRun \notin Run
    /\ \A d \in Deployment :
         /\ d.runs \subseteq Run /\ d.shared \in BOOLEAN
         /\ \A q \in Requests[d.load] : q.text \subseteq Marker /\ q.context \subseteq Marker
    /\ Outputs \subseteq SUBSET Marker
    /\ MaxEvents \in Nat \ {0}
    /\ ToolCalls \subseteq Tool \X SUBSET Marker

VARIABLES
    cfg,        \* the settings, the workload and the runs of this behaviour
    loop,       \* the run that has the event loop, or NoRun
    run,        \* the runs: where they are and what they hold
    trace,      \* self._trace_events
    recent,     \* those of them that the monitoring layer still holds
    rows        \* the results persisted for each run

sdkVars == <<cfg, loop, run, trace, recent, rows>>

-----------------------------------------------------------------------------
(* The registry: whether an agent has any of the permissions that
   _has_risky_permission names, its risk level, tools and handoffs. *)

Entry(risky, risk, tools, handoffs) ==
    [risky |-> risky, risk |-> risk, tools |-> tools \cup {"security_scan"}, handoffs |-> handoffs]

Registry ==
    [assistant     |-> Entry(TRUE, "LOW", {"memory_search", "workflow"}, {"memory", "workflow"}),
     coding        |-> Entry(TRUE, "MEDIUM", {"memory_search", "code_execution"},
                             {"security", "verification", "memory"}),
     research      |-> Entry(TRUE, "LOW", {"web_search", "memory_search"}, {"coding", "memory"}),
     security      |-> Entry(TRUE, "HIGH", {"memory_search"}, {"verification"}),
     memory        |-> Entry(TRUE, "MEDIUM", {"memory_search"}, {}),
     workflow      |-> Entry(TRUE, "MEDIUM", {"workflow", "memory_search"},
                             {"security", "coding", "memory"}),
     voice         |-> Entry(TRUE, "HIGH", {"voice_transcription", "workflow"}, {"research"}),
     edge          |-> Entry(TRUE, "HIGH", {"edge_node"}, {"security"}),
     job           |-> Entry(TRUE, "MEDIUM", {"memory_search", "web_search"},
                             {"research", "verification"}),
     semiconductor |-> Entry(FALSE, "MEDIUM", {"memory_search", "web_search"}, {"research", "coding"}),
     verification  |-> Entry(FALSE, "MEDIUM", {"memory_search"}, {"memory"})]

Agent == DOMAIN Registry

\* handoff_plan
Plan == <<"voice", "research", "coding", "verification", "memory">>

\* approval_required of a run that is neither approved nor dry.
NeedsApproval(a) == Registry[a].risk \in {"HIGH", "CRITICAL"} \/ Registry[a].risky

\* evaluate: the text is scanned as a prompt.
Allowed(a, text, approved, dry) ==
    /\ BlockedFindings(Prompt(text), "standard") = {}
    /\ dry \/ approved \/ ~NeedsApproval(a)

\* Whether a tool call goes into the usage list as ok.
ToolOk(tool, text) ==
    CASE tool = "code_execution" ->
            BlockedFindings([Prompt({}) EXCEPT !["code"] = text], "standard") = {}
      [] tool = "edge_node" ->
            BlockedFindings([Prompt({}) EXCEPT !["actions"] = text], "standard") = {}
      [] tool = "security_scan" -> BlockedFindings(Prompt(text), "standard") = {}
      [] OTHER -> TRUE

CanUseOpenAI == cfg.sdk /\ ~cfg.local

-----------------------------------------------------------------------------
Runtimes == {"guardrail_blocked", "dry_run", "openai_agents_sdk", "ollama", "mock"}
Reasons == {"none", "unavailable", "ollama_failed", "sdk_failed"}
Kinds == {"agent", "guardrail", "fallback", "memory", "handoff"}

\* given: the text the runtime works on; out: what the summary says.
Result == [agent : Agent, runtime : Runtimes, ok : BOOLEAN, given : SUBSET Marker,
           out : SUBSET Marker, spans : Seq(Kinds), tools : SUBSET (Tool \X BOOLEAN),
           reason : Reasons]

RunState ==
    [pc : {"idle", "step", "sdk", "local", "answered", "raised", "lost"},
     req : Requests[cfg.load] \cup {NoRun}, at : 1..Len(Plan), context : SUBSET Marker,
     spans : Seq(Kinds), active : Agent, used : SUBSET (Tool \X BOOLEAN),
     failed : BOOLEAN, results : Seq(Result)]

Event == [run : Run, kind : Kinds]

TypeOK ==
    /\ cfg \in Deployment
    /\ loop \in Run \cup {NoRun}
    /\ run \in [Run -> RunState]
    /\ trace \in Seq(Event) /\ recent \in Seq(Event)
    /\ rows \in [Run -> Seq(Result)]

Free == [pc |-> "idle", req |-> NoRun, at |-> 1, context |-> {}, spans |-> <<>>,
         active |-> "memory", used |-> {}, failed |-> FALSE, results |-> <<>>]

Init ==
    /\ cfg \in Deployment
    /\ loop = NoRun
    /\ run = [r \in Run |-> Free]
    /\ trace = <<>> /\ recent = <<>>
    /\ rows = [r \in Run |-> <<>>]

-----------------------------------------------------------------------------
(* The steps of a run *)

IsWorkflow(r) == run[r].req.kind = "workflow"

Current(r) == IF IsWorkflow(r) THEN Plan[run[r].at] ELSE run[r].req.agent

\* Mutant: the guardrails are shown the goal alone.
GuardedGoal(r) == run[r].req.text

\* The text that run_agent shows to the guardrails.
GuardedText(r) == run[r].req.text \cup run[r].context

\* The text that the Runner or Ollama is prompted with.
Given(r) == run[r].req.text \cup run[r].context

\* _structured_fallback_output repeats the goal.
Repeated(r) == run[r].req.text

Newest(events) == SubSeq(events, IF Len(events) > MaxEvents THEN Len(events) - MaxEvents + 1 ELSE 1,
                         Len(events))

\* _record_trace, for each of these kinds.
Record(r, kinds) ==
    LET new == [i \in DOMAIN kinds |-> [run |-> r, kind |-> kinds[i]]] IN
      /\ trace' = trace \o new
      /\ recent' = Newest(recent \o new)

\* A request arrives; run_handoff_workflow announces its first step.
Accept(r, q) ==
    /\ loop = NoRun /\ run[r].pc = "idle" /\ r \in cfg.runs
    /\ loop' = r
    /\ run' = [run EXCEPT ![r] = [Free EXCEPT !.pc = "step", !.req = q, !.context = q.context]]
    /\ Record(r, IF q.kind = "workflow" THEN <<"handoff">> ELSE <<>>)
    /\ UNCHANGED <<cfg, rows>>

ResultOf(r, spans, runtime, out, reason) ==
    [agent |-> Current(r), runtime |-> runtime, ok |-> runtime # "guardrail_blocked",
     given |-> Given(r), out |-> out, spans |-> spans,
     tools |-> IF runtime = "openai_agents_sdk" THEN run[r].used ELSE {}, reason |-> reason]

\* Mutant: the loop runs one step too far.
GoesOnPastEnd(r, result) == IsWorkflow(r) /\ result.ok /\ run[r].at <= Len(Plan)

\* Whether the handoff loop goes on after this result.
GoesOn(r, result) == IsWorkflow(r) /\ result.ok /\ run[r].at < Len(Plan)

Raises(r) ==
    /\ run' = [run EXCEPT ![r].pc = "raised"]
    /\ loop' = NoRun

\* The run when the handoff loop goes on after this result, and when it ends.
Continued(s, result, answer) ==
    [s EXCEPT !.pc = "step", !.at = @ + 1, !.context = result.out, !.spans = <<>>, !.used = {},
              !.failed = FALSE, !.results = Append(@, answer)]

Ended(s, answer) ==
    [s EXCEPT !.pc = "answered", !.spans = <<>>, !.results = Append(@, answer)]

\* run_agent returns to the client or to the handoff loop.  _run_openai_agent
\* sets the reason of its fallback when the result has been persisted.
Returns(r, result, failed) ==
    LET answer == IF failed THEN [result EXCEPT !.reason = "sdk_failed"] ELSE result IN
    IF GoesOn(r, result)
    THEN run' = [run EXCEPT ![r] = Continued(run[r], result, answer)] /\ loop' = r
    ELSE run' = [run EXCEPT ![r] = Ended(run[r], answer)] /\ loop' = NoRun

\* The save is traced; a workflow announces its next step.
Saved(r, result) == IF GoesOn(r, result) THEN <<"memory", "handoff">> ELSE <<"memory">>

\* Mutant: a result without output is not persisted.
ConcludeWithOutput(r, kinds, result, failed) ==
    /\ rows' = IF result.ok THEN [rows EXCEPT ![r] = Append(@, result)] ELSE rows
    /\ Record(r, kinds \o Saved(r, result))
    /\ Returns(r, result, failed)

\* _result and _persist_result, after these events: the result is saved, or the
\* save raises, before or after its row is committed.
Conclude(r, kinds, result, failed) ==
    \/ /\ rows' = [rows EXCEPT ![r] = Append(@, result)]
       /\ Record(r, kinds \o Saved(r, result))
       /\ Returns(r, result, failed)
    \/ /\ rows' \in {rows, [rows EXCEPT ![r] = Append(@, result)]}
       /\ Record(r, kinds)
       /\ Raises(r)

\* Mutant: the fallback is traced, but the result does not list it.
LocalFallbackUnlisted(r, spans, kinds, failed) ==
    \/ /\ cfg.ollama
       /\ run' = [run EXCEPT ![r] = [@ EXCEPT !.pc = "local", !.failed = failed, !.spans = spans]]
       /\ loop' = NoRun
       /\ Record(r, Append(kinds, "fallback"))
       /\ UNCHANGED rows
    \/ /\ ~cfg.ollama
       /\ Conclude(r, Append(kinds, "fallback"),
                   ResultOf(r, spans, "mock", Repeated(r), "unavailable"), failed)

\* _run_local_fallback of a run with these spans, whose events of these kinds
\* are new.
LocalFallback(r, spans, kinds, failed) ==
    LET listed == Append(spans, "fallback") IN
    \/ /\ cfg.ollama
       /\ run' = [run EXCEPT ![r] = [@ EXCEPT !.pc = "local", !.failed = failed, !.spans = listed]]
       /\ loop' = NoRun
       /\ Record(r, Append(kinds, "fallback"))
       /\ UNCHANGED rows
    \/ /\ ~cfg.ollama
       /\ Conclude(r, Append(kinds, "fallback"),
                   ResultOf(r, listed, "mock", Repeated(r), "unavailable"), failed)

UnknownAgent(r) ==
    /\ loop = r /\ run[r].pc = "step"
    /\ Current(r) \notin Agent
    /\ Raises(r)
    /\ UNCHANGED <<cfg, trace, recent, rows>>

\* run_agent up to its first suspension.
RunAgent(r) ==
    /\ loop = r /\ run[r].pc = "step"
    /\ Current(r) \in Agent
    /\ LET q == run[r].req
           spans == <<"agent", "guardrail">>
           allowed == Allowed(Current(r), GuardedText(r), q.approved, q.dry)
       IN \/ /\ ~allowed
             /\ Conclude(r, spans, ResultOf(r, spans, "guardrail_blocked", {}, "none"), FALSE)
          \/ /\ allowed /\ q.dry
             /\ Conclude(r, spans, ResultOf(r, spans, "dry_run", Repeated(r), "none"), FALSE)
          \/ /\ allowed /\ ~q.dry /\ CanUseOpenAI
             /\ run' = [run EXCEPT ![r] = [@ EXCEPT !.pc = "sdk", !.spans = spans,
                                                    !.active = Current(r)]]
             /\ loop' = NoRun
             /\ Record(r, spans)
             /\ UNCHANGED rows
          \/ allowed /\ ~q.dry /\ ~CanUseOpenAI /\ LocalFallback(r, spans, spans, FALSE)
    /\ UNCHANGED cfg

-----------------------------------------------------------------------------
(* The SDK's Runner, and Ollama *)

Resumes(r, pc) == loop = NoRun /\ run[r].pc = pc

\* Mutant: the tripwire knows of the approval.
TrippedUnlessApproved(r) == ~Allowed(Current(r), Given(r), run[r].req.approved, FALSE)

\* The input guardrail of the first agent evaluates the input as not approved.
Tripped(r) == ~Allowed(Current(r), Given(r), FALSE, FALSE)

\* The guardrail runs beside the first turn, so a tool can be called before it trips.
CallTool(r, tool, text) ==
    /\ Resumes(r, "sdk")
    /\ tool \in Registry[run[r].active].tools
    /\ run' = [run EXCEPT ![r].used = @ \cup {<<tool, ToolOk(tool, text)>>}]
    /\ UNCHANGED <<cfg, loop, trace, recent, rows>>

\* The agents that are handed to were built without handoffs and guardrails.
HandOff(r, a) ==
    /\ Resumes(r, "sdk") /\ ~Tripped(r)
    /\ run[r].active = Current(r)
    /\ a \in Registry[Current(r)].handoffs
    /\ run' = [run EXCEPT ![r].active = a]
    /\ UNCHANGED <<cfg, loop, trace, recent, rows>>

RunnerReturns(r) ==
    /\ Resumes(r, "sdk") /\ ~Tripped(r)
    /\ \E out \in Outputs \cup {Repeated(r)} :
         Conclude(r, <<>>, ResultOf(r, run[r].spans, "openai_agents_sdk", out, "none"), FALSE)
    /\ UNCHANGED cfg

\* Mutant: after an exception the Runner is started again.
RunnerRetried(r) ==
    /\ Resumes(r, "sdk")
    /\ run' = [run EXCEPT ![r] = [@ EXCEPT !.failed = TRUE, !.used = {}]]
    /\ UNCHANGED <<cfg, loop, trace, recent, rows>>

\* The tripwire, too many turns, or any other exception.
RunnerFails(r) ==
    /\ Resumes(r, "sdk")
    /\ LocalFallback(r, Append(run[r].spans, "fallback"), <<"fallback">>, TRUE)
    /\ UNCHANGED cfg

OllamaReturns(r) ==
    /\ Resumes(r, "local")
    /\ \E out \in Outputs \cup {Repeated(r)}, reason \in {"unavailable", "ollama_failed"} :
         Conclude(r, <<>>, ResultOf(r, run[r].spans, "ollama", out, reason), run[r].failed)
    /\ UNCHANGED cfg

\* Ollama's answer is not JSON.
OllamaRaises(r) ==
    /\ Resumes(r, "local")
    /\ Raises(r)
    /\ UNCHANGED <<cfg, trace, recent, rows>>

\* The monitoring layer is full, and an event of another engine (the execution
\* engine, Omega, the voice loop) pushes out one of the manager's.
OthersRecord ==
    /\ cfg.shared
    /\ recent # <<>>
    /\ recent' = Tail(recent)
    /\ UNCHANGED <<cfg, loop, run, trace, rows>>

\* The API process ends and starts again.
Restart ==
    /\ cfg.restarts
    /\ loop' = NoRun
    /\ run' = [r \in Run |-> IF run[r].pc = "idle" THEN run[r] ELSE [run[r] EXCEPT !.pc = "lost"]]
    /\ trace' = <<>> /\ recent' = <<>>
    /\ UNCHANGED <<cfg, rows>>

Advance(r) ==
    \/ UnknownAgent(r) \/ RunAgent(r)
    \/ RunnerReturns(r) \/ RunnerFails(r) \/ OllamaReturns(r) \/ OllamaRaises(r)

Next ==
    \/ Restart
    \/ OthersRecord
    \/ \E r \in Run :
         \/ \E q \in Requests[cfg.load] : Accept(r, q)
         \/ Advance(r)
         \/ \E call \in ToolCalls : CallTool(r, call[1], call[2])
         \/ \E a \in Agent : HandOff(r, a)

Spec == Init /\ [][Next]_sdkVars

\* The event loop resumes every coroutine that is ready, and what a run waits
\* for ends: the Runner after max_turns turns, Ollama after its timeout.
FairSpec == Spec /\ \A r \in Run : SF_sdkVars(Advance(r))
-----------------------------------------------------------------------------
(* Properties *)

\* The kinds of a run's own events, in their order.
Own(r, events) ==
    LET own[n \in 0..Len(events)] ==
            IF n = 0 THEN <<>>
            ELSE IF events[n].run = r THEN Append(own[n - 1], events[n].kind) ELSE own[n - 1]
    IN  own[Len(events)]

\* The events of the steps that ended: for every result its spans and its save.
Story(start, results) ==
    LET past[n \in 0..Len(results)] ==
            IF n = 0 THEN <<>> ELSE past[n - 1] \o (start \o (results[n].spans \o <<"memory">>))
    IN  past[Len(results)]

\* What the trace has to hold of a run: its story, then the spans of the step in
\* progress.
Traced(s) ==
    LET start == IF s.req.kind = "workflow" THEN <<"handoff">> ELSE <<>> IN
    Story(start, s.results) \o (IF s.pc = "answered" THEN <<>> ELSE start \o s.spans)

\* Some events are the newest of all, in their order and without a gap.
AreNewest(some, events) ==
    /\ Len(some) <= Len(events)
    /\ \A i \in DOMAIN some : some[i] = events[Len(events) - Len(some) + i]

\* "full_audit_trail": however the runs overlap, the trace holds the events of
\* each run in its order, the ones that its results list among them.  What the
\* monitoring layer holds of it is its end: as much as there is room for, unless
\* other engines record too.
TraceIsComplete ==
    /\ \A r \in Run : run[r].pc \in {"step", "sdk", "local", "answered"} =>
         Own(r, trace) = Traced(run[r])
    /\ AreNewest(recent, trace)
    /\ ~cfg.shared => recent = Newest(trace)

\* Every result that reaches the client, refusals included, has been persisted
\* as it was answered, in the order of the handoff plan, and nothing else was,
\* but for a result whose save raised.  The one difference is the reason of a
\* fallback from a failed SDK run, which is set too late to be persisted.
RecordMatchesAnswer ==
    \A r \in Run :
        LET results == run[r].results IN
        /\ Len(rows[r]) \in Len(results)
                            ..Len(results) + (IF run[r].pc \in {"raised", "lost"} THEN 1 ELSE 0)
        /\ \A i \in DOMAIN results :
             /\ [rows[r][i] EXCEPT !.reason = results[i].reason] = results[i]
             /\ rows[r][i].reason # results[i].reason => results[i].reason = "sdk_failed"
             /\ IsWorkflow(r) => results[i].agent = Plan[i] /\ (i < Len(results) => results[i].ok)

\* No runtime is given a text with a finding that blocks, be it that an earlier
\* step of the workflow brought it in.
FlaggedNeverRuns ==
    \A r \in Run :
        /\ \A i \in DOMAIN run[r].results :
             run[r].results[i].runtime # "guardrail_blocked"
                 => BlockedFindings(Prompt(run[r].results[i].given), "standard") = {}
        /\ run[r].pc \in {"sdk", "local"} => BlockedFindings(Prompt(Given(r)), "standard") = {}

\* A result of the OpenAI runtime is never of a local-only deployment nor, even
\* if the run was approved, of an agent that needs approval; the tools that were
\* called for it are its agent's or those of one handoff.
SdkRunsAreConfined ==
    \A r \in Run : \A i \in DOMAIN run[r].results :
        LET result == run[r].results[i]
            reach == {result.agent} \cup Registry[result.agent].handoffs
        IN result.runtime = "openai_agents_sdk" =>
             /\ CanUseOpenAI /\ ~NeedsApproval(result.agent)
             /\ \A use \in result.tools : \E a \in reach : use[1] \in Registry[a].tools

\* Every run comes to an end, unless the process does first.
RunIsAnswered ==
    \A r \in Run : run[r].pc \in {"step", "sdk", "local"} ~> run[r].pc \in {"answered", "raised", "lost"}
================================================================================
