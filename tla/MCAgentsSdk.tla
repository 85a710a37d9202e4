------------------------------ MODULE MCAgentsSdk ------------------------------
(* Instances of AgentsSdk for TLC. *)
EXTENDS AgentsSdk

Single(a) == [kind |-> "single", agent |-> a, text |-> {}, context |-> {},
              approved |-> FALSE, dry |-> FALSE]

\* "rm -rf" is a finding in code only.
Singles ==
    {Single("missing"), Single("semiconductor"),
     [Single("security") EXCEPT !.approved = TRUE, !.text = {"rm -rf"}],
     [Single("semiconductor") EXCEPT !.context = {"ignore previous"}],
     [Single("research") EXCEPT !.dry = TRUE]}

Workflows ==
    {[Single("voice") EXCEPT !.kind = "workflow", !.approved = a, !.dry = d, !.text = t] :
        a, d \in BOOLEAN, t \in {{}, {"rm -rf"}}}

MCRequests == [singles |-> Singles, workflows |-> Workflows]

MCOutputs == {{}, {"ignore previous"}}
MCToolCalls == {<<"code_execution", {"rm -rf"}>>, <<"security_scan", {}>>}

RunA == CHOOSE r \in Run : TRUE

Alone == [load |-> "singles", runs |-> Run, restarts |-> TRUE, shared |-> FALSE, sdk |-> TRUE,
          local |-> FALSE, ollama |-> FALSE]

Settings ==
    {[Alone EXCEPT !.ollama = o] : o \in BOOLEAN}
    \cup {[Alone EXCEPT !.runs = {RunA}, !.shared = TRUE, !.ollama = o] : o \in BOOLEAN}
    \cup {[Alone EXCEPT !.load = "workflows", !.runs = {RunA}, !.restarts = FALSE, !.local = l,
                        !.ollama = o] : l, o \in BOOLEAN}
================================================================================
