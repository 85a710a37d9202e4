----------------------------- MODULE GoalExecution -----------------------------
(***************************************************************************)
(* The life of a goal: SaturnixExecutionEngine.execute_goal                *)
(* (saturnix_harness/core/execution_engine.py) and the older               *)
(* CoreOrchestrator.run (saturnix_harness/core/orchestrator.py).           *)
(*                                                                         *)
(* A goal is routed, planned as two steps run by agents, verified,         *)
(* improved at most once and verified again, then saved.  Every brain call *)
(* walks down the ranked providers until one answers.  Executions share    *)
(* nothing that they read back, so one at a time is modelled.              *)
(***************************************************************************)
EXTENDS BrainRouter, Sequences

CONSTANTS
    Word,       \* the words goals are made of
    Enabled,    \* the sets of enabled providers considered
    Wish,       \* what a run() may name as its preferred_brain, or "none"
    MaxFaults   \* bound: failed writes to the memory store in one execution

ASSUME GoalAssumption ==
    /\ Word \subseteq AllWords
    /\ Enabled \subseteq SUBSET Provider
    /\ "none" \in Wish
    /\ MaxFaults \in Nat

VARIABLES
    cfg,        \* settings: enabled providers, saturnix_local_only, default brain
    req,        \* the request being executed
    pc,         \* where the execution is
    rest,       \* the providers the running brain call has not tried
    steps,      \* which plan steps were answered
    output,     \* which text is the output
    checked,    \* the validation: of which text, and its verdict
    grade,      \* the score class of the verification that awaits its critique
    stored,     \* how many of Writes are committed for this execution
    sent,       \* history: which provider was sent this goal, and for what
    answer,     \* the answer given
    faults      \* failed writes so far

vars == <<cfg, req, pc, rest, steps, output, checked, grade, stored, sent, answer, faults>>

BrainCall == {"architect", "execute", "critique", "improve"}
Request == [flow : {"execute_goal", "run"}, words : SUBSET Word, local : BOOLEAN,
            auto_improve : BOOLEAN, wish : Wish]
Text == {"none", "produced", "error", "improved"}

\* What is committed at the end, in order.
Writes(r) == IF r.flow = "run" THEN <<"memory", "optimization">>
             ELSE <<"memory", "user_goals", "brain_routes", "agent_runs",
                    "verification_results", "optimization">>

NoAnswer == [kind |-> "none", ok |-> FALSE, of |-> "none", valid |-> FALSE]

TypeOK ==
    /\ cfg \in [enabled : Enabled, localOnly : BOOLEAN, default : Provider]
    /\ req \in Request
    /\ pc \in {"idle", "verify", "saving", "failing"} \cup BrainCall
    /\ rest \subseteq cfg.enabled
    /\ steps \subseteq {"architect", "execute"}
    /\ output \in Text
    /\ checked \in [of : Text, ok : BOOLEAN]
    /\ grade \in {"none", "mid", "low"}
    /\ stored \in 0..6
    /\ sent \subseteq Provider \X BrainCall
    /\ answer \in [kind : {"none", "completed", "failed", "raised"}, ok : BOOLEAN,
                   of : Text, valid : BOOLEAN]
    /\ faults \in Nat

-----------------------------------------------------------------------------
\* _privacy_level and the router's own words.
Private == req.local \/ "private" \in req.words

Preferred == IF req.flow = "run" THEN req.wish ELSE PreferredBrain[RouteTask(req.words, Private)]

\* Agents ask for their own capabilities and never for local execution; the
\* verifier passes local_only on.
ArchitectNeeds == {"reasoning", "planning", "orchestration"}

BrainRequest(call) ==
    CASE call = "architect" -> [caps |-> ArchitectNeeds, preferred |-> Preferred, local |-> FALSE]
      [] call = "execute" ->
            [caps |-> IF IntentCoding(req.words) THEN {"coding", "reasoning"} ELSE ArchitectNeeds,
             preferred |-> Preferred, local |-> FALSE]
      [] call \in {"critique", "improve"} ->
            [caps |-> {"reasoning", "verification"}, preferred |-> "none", local |-> req.local]

StartCall(call) == pc' = call /\ rest' = Capable(cfg, BrainRequest(call))

EndCall(next) == pc' = next /\ rest' = {}

-----------------------------------------------------------------------------
Init ==
    /\ cfg \in [enabled : Enabled, localOnly : BOOLEAN, default : {"openai"}]
    /\ req = [flow |-> "execute_goal", words |-> {}, local |-> FALSE, auto_improve |-> TRUE,
              wish |-> "none"]
    /\ pc = "idle" /\ rest = {}
    /\ steps = {} /\ output = "none" /\ grade = "none"
    /\ checked = [of |-> "none", ok |-> FALSE]
    /\ stored = 0 /\ sent = {} /\ answer = NoAnswer /\ faults = 0

\* A request comes in; everything up to the first brain call is synchronous.
Receive ==
    /\ pc = "idle"
    /\ req' \in Request
    /\ req'.flow = "execute_goal" => req'.wish = "none"
    /\ pc' = "architect"
    /\ rest' = Capable(cfg, BrainRequest("architect")')
    /\ steps' = {} /\ output' = "none" /\ grade' = "none"
    /\ checked' = [of |-> "none", ok |-> FALSE]
    /\ stored' = 0 /\ sent' = {} /\ answer' = NoAnswer /\ faults' = 0
    /\ UNCHANGED cfg

-----------------------------------------------------------------------------
(* Brain calls *)

\* The next provider is sent the prompt.
Prompt(p) ==
    /\ pc \in BrainCall
    /\ IsFirst(cfg, BrainRequest(pc), rest, p)
    /\ sent' = sent \cup {<<p, pc>>}

\* Mutant: after the last provider the first one is tried again.
ProviderRetried(p) ==
    /\ Prompt(p)
    /\ rest' = IF rest = {p} THEN Capable(cfg, BrainRequest(pc)) ELSE rest \ {p}
    /\ UNCHANGED <<cfg, req, pc, steps, output, checked, grade, stored, answer, faults>>

\* It raises, and the next one is tried.
ProviderFails(p) ==
    /\ Prompt(p)
    /\ rest' = rest \ {p}
    /\ UNCHANGED <<cfg, req, pc, steps, output, checked, grade, stored, answer, faults>>

\* A step is over; its trace is ok or carries the error, and the plan goes on.
StepEnds(ok) ==
    /\ steps' = IF ok THEN steps \cup {pc} ELSE steps
    /\ IF pc = "architect" THEN StartCall("execute") /\ UNCHANGED output
       ELSE EndCall("verify") /\ output' = IF ok THEN "produced" ELSE "error"
    /\ UNCHANGED <<cfg, req, checked, grade, stored, answer>>

StepAnswered(p) ==
    /\ pc \in {"architect", "execute"}
    /\ Prompt(p)
    /\ StepEnds(TRUE)
    /\ UNCHANGED faults

\* A step fails: no provider is left, or the agent's trace cannot be saved.
StepFails ==
    /\ pc \in {"architect", "execute"}
    /\ StepEnds(FALSE)
    /\ \/ rest = {} /\ UNCHANGED <<sent, faults>>
       \/ /\ \E p \in rest : Prompt(p)
          /\ faults < MaxFaults
          /\ faults' = faults + 1

-----------------------------------------------------------------------------
(* Verification *)

Judged(ok) ==
    /\ checked' = [of |-> output, ok |-> ok]
    /\ grade' = "none"
    /\ IF ~ ok /\ req.auto_improve /\ output # "improved" THEN StartCall("improve")
       ELSE EndCall("saving")

\* A score of 0.85 and more passes; below it a brain is asked for a critique.
Verify ==
    /\ pc = "verify"
    /\ \/ Judged(TRUE)
       \/ /\ StartCall("critique")
          /\ grade' \in {"mid", "low"}
          /\ UNCHANGED checked
    /\ UNCHANGED <<cfg, req, steps, output, stored, sent, answer, faults>>

\* 0.72 and more is ok, unless the word "empty" is found, in the critique too.
CritiqueAnswered(p) ==
    /\ pc = "critique"
    /\ Prompt(p)
    /\ \E ok \in BOOLEAN : (grade = "low" => ~ ok) /\ Judged(ok)
    /\ UNCHANGED <<cfg, req, steps, output, stored, answer, faults>>

\* Mutant: the improved text is not verified.
ImproveUnverified(p) ==
    /\ pc = "improve"
    /\ Prompt(p)
    /\ output' = "improved"
    /\ EndCall("saving")
    /\ UNCHANGED <<cfg, req, steps, checked, grade, stored, answer, faults>>

ImproveAnswered(p) ==
    /\ pc = "improve"
    /\ Prompt(p)
    /\ output' = "improved"
    /\ EndCall("verify")
    /\ UNCHANGED <<cfg, req, steps, checked, grade, stored, answer, faults>>

\* Nobody answers the verifier: the exception ends the execution.
VerifierFails ==
    /\ pc \in {"critique", "improve"}
    /\ rest = {}
    /\ EndCall("failing")
    /\ grade' = "none"
    /\ UNCHANGED <<cfg, req, steps, output, checked, stored, sent, answer, faults>>

-----------------------------------------------------------------------------
(* The end *)

Answer(kind) ==
    /\ pc' = "idle"
    /\ answer' = [kind |-> kind,
                  ok |-> kind = "completed" /\ steps = {"architect", "execute"},
                  of |-> IF kind = "completed" THEN output ELSE "none",
                  valid |-> kind = "completed" /\ checked.ok]

\* Mutant: a failed write is logged and the result is returned.
SaveQuietly ==
    /\ pc = "saving"
    /\ Answer("completed")
    /\ \/ stored' = Len(Writes(req)) /\ UNCHANGED faults
       \/ /\ stored' \in 0..(Len(Writes(req)) - 1)
          /\ faults < MaxFaults /\ faults' = faults + 1
    /\ UNCHANGED <<cfg, req, rest, steps, output, checked, grade, sent>>

\* Each write commits on its own; one that raises leaves the earlier ones.
Save ==
    /\ pc = "saving"
    /\ \/ stored' = Len(Writes(req)) /\ Answer("completed") /\ UNCHANGED faults
       \/ /\ stored' \in 0..(Len(Writes(req)) - 1)
          /\ faults < MaxFaults /\ faults' = faults + 1
          /\ pc' = "failing" /\ UNCHANGED answer
    /\ UNCHANGED <<cfg, req, rest, steps, output, checked, grade, sent>>

\* execute_goal turns the exception into a failure result, which it analyses
\* and whose strategies it saves; run() lets it through.
Fail ==
    /\ pc = "failing"
    /\ \/ req.flow = "execute_goal" /\ Answer("failed") /\ UNCHANGED faults
       \/ req.flow = "run" /\ Answer("raised") /\ UNCHANGED faults
       \/ /\ req.flow = "execute_goal" /\ Answer("raised")
          /\ faults < MaxFaults /\ faults' = faults + 1
    /\ UNCHANGED <<cfg, req, rest, steps, output, checked, grade, stored, sent>>

-----------------------------------------------------------------------------
Continue ==
    \/ \E p \in Provider : \/ ProviderFails(p) \/ StepAnswered(p)
                          \/ CritiqueAnswered(p) \/ ImproveAnswered(p)
    \/ StepFails \/ Verify \/ VerifierFails \/ Save \/ Fail

Next == Receive \/ Continue

Spec == Init /\ [][Next]_vars

\* The event loop resumes the coroutine; every provider call has a timeout.
FairSpec == Spec /\ WF_vars(Continue)

-----------------------------------------------------------------------------
(* Properties *)

\* The verdict in an answer is about the text in that answer, also when the text
\* was improved after it had been judged.
VerdictIsAboutOutput == answer.kind = "completed" => checked.of = answer.of

\* A completed answer is backed by the store, and its "ok" by two answered steps
\* of which the last one, or its improvement, is the output.
CompletedIsBacked ==
    answer.kind = "completed" =>
        /\ stored = Len(Writes(req))
        /\ answer.ok => answer.of \in {"produced", "improved"}
        /\ answer.of = "improved" => req.auto_improve

\* What the verifier is given of a local_only goal, and everything when the
\* deployment is local only, goes to local providers, whatever has failed.
VerifierStaysLocal ==
    \A s \in sent : cfg.localOnly \/ (req.local /\ s[2] \in {"critique", "improve"})
                        => s[1] \in LocalProvider

\* A private coding goal's text reaches another provider's coding step only
\* after the local coding model failed, if there is one: the preference outweighs
\* every other score.
LocalCodingFirst ==
    req.flow = "execute_goal" /\ Private /\ "code" \in req.words /\ "voice" \notin req.words
    /\ "ollama_coding" \in cfg.enabled
        => \A s \in sent : s[2] = "execute" => <<"ollama_coding", "execute">> \in sent

\* Every request gets an answer, whichever providers fail.
GoalIsAnswered == pc # "idle" ~> answer.kind # "none"

\* A goal the router sends to a local brain stays on the device.
PrivateStaysLocal ==
    RouteTask(req.words, Private) \in {"Gemma via Ollama", "MiniMax/Coding via Ollama"} /\ Private
        => \A s \in sent : s[1] \in LocalProvider
================================================================================
