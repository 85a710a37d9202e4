-------------------------------- MODULE MCOmega --------------------------------
(* Instances of Omega for TLC. *)
EXTENDS Omega

Agents(topics) ==
    [topics |-> topics, thorough |-> FALSE, taskType |-> "none", memoryNeeds |-> TRUE,
     secured |-> FALSE, mentions |-> {}, allowNew |-> TRUE, maxAgents |-> 6]

Plain == [kind |-> "omega", agents |-> Agents({}), consult |-> TRUE, minBrains |-> 1,
          maxBrains |-> 3, includeLocal |-> TRUE, execute |-> TRUE, persist |-> TRUE]

\* Two new agents; the second one's task names the first.
Both == Agents({"security", "compliance"})
Named == [Agents({"compliance"}) EXCEPT !.mentions = {"security"}, !.memoryNeeds = FALSE]

\* Without brains, requests about agents; with all of them, requests whose brains
\* matter; with the mock provider, requests that need both.
AgentRequests ==
    {[Plain EXCEPT !.agents = Both],
     [Plain EXCEPT !.consult = FALSE, !.execute = FALSE, !.agents = Agents({"security"})],
     [Plain EXCEPT !.kind = "construct", !.agents = Named],
     [Plain EXCEPT !.kind = "construct", !.agents = [Both EXCEPT !.maxAgents = 1, !.allowNew = FALSE]]}

BrainRequests ==
    {Plain,
     [Plain EXCEPT !.kind = "consensus", !.minBrains = 3, !.maxBrains = 5],
     [Plain EXCEPT !.kind = "consensus", !.minBrains = 2, !.maxBrains = 1],
     [Plain EXCEPT !.kind = "consensus", !.minBrains = 2, !.includeLocal = FALSE]}

MixedRequests ==
    {[Plain EXCEPT !.agents = Both],
     [Plain EXCEPT !.kind = "consensus", !.minBrains = 2]}

Yes == [subject |-> "s", polarity |-> 1]
No  == [subject |-> "s", polarity |-> -1]
Also == [subject |-> "t", polarity |-> 0]

\* The best answer there is, its contradiction, and one without a claim.
MCAnswers ==
    {[ok |-> TRUE, marks |-> {"long", "reasons"}, claims |-> {Yes, Also}, about |-> {}],
     [ok |-> TRUE, marks |-> {"long", "reasons"}, claims |-> {No, Also}, about |-> {}],
     [ok |-> TRUE, marks |-> {"long", "reasons"}, claims |-> {}, about |-> {"s"}]}

NoBrain == {}
Mock    == {"mock"}
Several == {"openai", "ollama_gemma", "mock"}

MCDeployment == {NoBrain, Mock, Several}

MCRequests ==
    [d \in MCDeployment |-> IF d = NoBrain THEN AgentRequests
                            ELSE IF d = Mock THEN MixedRequests ELSE BrainRequests]
================================================================================
