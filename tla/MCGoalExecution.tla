---------------------------- MODULE MCGoalExecution ----------------------------
(* Instances of GoalExecution for TLC. *)
EXTENDS GoalExecution

\* The default deployment; a cloud key beside Ollama; two clouds that only
\* satisfy an agent's needs in part.
Deployments == {{"mock"}, {"openai", "ollama_gemma", "ollama_coding"}, {"claude", "groq"}}

\* A run() may leave the choice to the router or ask for a local model.
Wishes == {"none", "ollama_gemma"}

\* A cloud key and Ollama, as for private goals.
CloudAndOllama == {{"openai", "ollama_gemma", "ollama_coding"}}
================================================================================
