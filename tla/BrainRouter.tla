------------------------------ MODULE BrainRouter ------------------------------
(***************************************************************************)
(* Choosing a model provider (saturnix_harness/brains/router.py).          *)
(*                                                                         *)
(* There are two routers.  route_task reads the words of a task and names  *)
(* a brain; route reads the capabilities of one completion request and     *)
(* ranks the providers.  What the first one names is only a preference,    *)
(* worth 50 points, for the second.                                        *)
(***************************************************************************)
EXTENDS Integers, FiniteSets

\* In the order they are registered.
ProviderAt == <<"openai", "claude", "gemini", "ollama_gemma", "ollama_coding", "groq", "mock">>

Provider == {"openai", "claude", "gemini", "ollama_gemma", "ollama_coding", "groq", "mock"}

Position == [p \in Provider |-> CHOOSE i \in 1..7 : ProviderAt[i] = p]

Capabilities ==
    [openai |-> {"reasoning", "coding", "planning", "orchestration", "structured_output",
                 "function_calling", "verification"},
     claude |-> {"reasoning", "long_context", "document_understanding", "planning",
                 "verification"},
     gemini |-> {"reasoning", "structured_output", "function_calling", "planning",
                 "verification"},
     ollama_gemma  |-> {"reasoning", "local_private", "planning", "verification"},
     ollama_coding |-> {"coding", "local_private", "reasoning", "verification"},
     groq |-> {"voice", "realtime_speech", "reasoning", "structured_output"},
     mock |-> {"reasoning", "coding", "planning", "orchestration", "structured_output",
               "function_calling", "local_private", "verification"}]

LocalProvider == {p \in Provider : "local_private" \in Capabilities[p]}

-----------------------------------------------------------------------------
(* route_task: the words that decide, one for each keyword list.  "code" is in
   the lists of the router and of the intent mapper, "debug" only in the first,
   "class" only in the second. *)

AllWords == {"voice", "private", "code", "debug", "class", "structured", "large", "fast"}

RouterCoding(words) == words \cap {"code", "debug"} # {}
IntentCoding(words) == words \cap {"code", "class"} # {}

\* Mutant: the output format is looked at before the privacy.
RouteTaskFormatFirst(words, private) ==
    IF "voice" \in words THEN "Groq"
    ELSE IF "structured" \in words THEN "Gemini"
    ELSE IF private /\ RouterCoding(words) THEN "MiniMax/Coding via Ollama"
    ELSE IF private THEN "Gemma via Ollama"
    ELSE IF "large" \in words THEN "Claude"
    ELSE IF RouterCoding(words) /\ "fast" \in words THEN "MiniMax/Coding via Ollama"
    ELSE "GPT"

\* selected_brain.
RouteTask(words, private) ==
    IF "voice" \in words THEN "Groq"
    ELSE IF private /\ RouterCoding(words) THEN "MiniMax/Coding via Ollama"
    ELSE IF private THEN "Gemma via Ollama"
    ELSE IF "structured" \in words THEN "Gemini"
    ELSE IF "large" \in words THEN "Claude"
    ELSE IF RouterCoding(words) /\ "fast" \in words THEN "MiniMax/Coding via Ollama"
    ELSE "GPT"

\* _preferred_brain_from_route.
PreferredBrain ==
    [x \in {"Groq", "MiniMax/Coding via Ollama", "Gemma via Ollama", "Gemini", "Claude", "GPT"} |->
        CASE x = "Groq"   -> "groq"
          [] x = "Gemini" -> "gemini"
          [] x = "Claude" -> "claude"
          [] x = "GPT"    -> "openai"
          [] x = "Gemma via Ollama"          -> "ollama_gemma"
          [] x = "MiniMax/Coding via Ollama" -> "ollama_coding"]

-----------------------------------------------------------------------------
(* route, for a configuration cfg = [enabled, localOnly, default] and a request
   req = [caps, preferred, local]. *)

LocalAsked(cfg, req) == req.local \/ cfg.localOnly

\* Mutant: disabled providers are ranked too.
CandidatesDisabled(cfg, req) == {p \in Provider : LocalAsked(cfg, req) => p \in LocalProvider}

Candidates(cfg, req) ==
    {p \in cfg.enabled : LocalAsked(cfg, req) => p \in LocalProvider}

\* Mutant: the second choice is made among all enabled providers.
CapableAnywhere(cfg, req) ==
    LET fit == {p \in Candidates(cfg, req) : req.caps \subseteq Capabilities[p]}
    IN  IF fit # {} THEN fit
        ELSE {p \in cfg.enabled : req.caps \cap Capabilities[p] # {}}

\* Those that satisfy the whole request, else those that satisfy part of it.
Capable(cfg, req) ==
    LET fit == {p \in Candidates(cfg, req) : req.caps \subseteq Capabilities[p]}
    IN  IF fit # {} THEN fit
        ELSE {p \in Candidates(cfg, req) :
                 req.caps = {} \/ req.caps \cap Capabilities[p] # {}}

\* Mutant: the preference does not count.
ScoreFlat(cfg, req, p) ==
    10 * Cardinality(req.caps \cap Capabilities[p])
    + (IF p \in LocalProvider /\ LocalAsked(cfg, req) THEN 40 ELSE 0)
    + (IF p = cfg.default THEN 5 ELSE 0)
    - (IF p = "mock" THEN 20 ELSE 0)

\* _score_provider, of an enabled provider.
Score(cfg, req, p) ==
    10 * Cardinality(req.caps \cap Capabilities[p])
    + (IF p = req.preferred THEN 50 ELSE 0)
    + (IF p \in LocalProvider /\ LocalAsked(cfg, req) THEN 40 ELSE 0)
    + (IF p = cfg.default THEN 5 ELSE 0)
    - (IF p = "mock" THEN 20 ELSE 0)

\* The stable descending sort: ties keep the order of registration.
Before(cfg, req, p, q) ==
    \/ Score(cfg, req, p) > Score(cfg, req, q)
    \/ Score(cfg, req, p) = Score(cfg, req, q) /\ Position[p] < Position[q]

\* p is the provider complete() tries next, of those it has not tried.
IsFirst(cfg, req, rest, p) ==
    /\ p \in rest
    /\ \A q \in rest \ {p} : Before(cfg, req, p, q)
================================================================================
