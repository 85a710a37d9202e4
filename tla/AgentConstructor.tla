--------------------------- MODULE AgentConstructor ---------------------------
(***************************************************************************)
(* The autonomous agent constructor                                        *)
(* (saturnix_harness/core/agent_constructor.py).                           *)
(*                                                                         *)
(* construct_autonomous decides which expertise a task needs and finds an  *)
(* agent for each: a default one, one it generated before, or a new one,   *)
(* which it saves.  It looks for earlier agents among the newest records   *)
(* whose text holds the agent's name, and a record's text holds the task   *)
(* it was made for, so records may answer to several names.                *)
(***************************************************************************)
EXTENDS Naturals, FiniteSets, Sequences, SequencesExt

\* _EXPERTISE_KEYWORDS, in its order.
ExpertiseAt == <<"research", "coding", "security", "automation", "voice", "memory",
                 "verification", "data_analysis", "compliance", "edge_deployment",
                 "job_application", "semiconductor">>

Expertise == {ExpertiseAt[i] : i \in 1..12}

\* Those without a default agent; each has one agent name.
NewExpertise == {"security", "data_analysis", "compliance", "edge_deployment"}

(* What is read from a request: the keyword sets met by its text, "thorough" if
   coding is to be tested or verified, a task type that is an expertise or
   "none", the memory needs, the security requirements, the new agent names its
   text mentions, and its limits. *)
ConstructionRequest ==
    [topics : SUBSET Expertise, thorough : BOOLEAN, taskType : Expertise \cup {"none"},
     memoryNeeds : BOOLEAN, secured : BOOLEAN, mentions : SUBSET NewExpertise,
     allowNew : BOOLEAN, maxAgents : 1..12]

\* A saved record: its agent, whether its metadata still hold the definition, and
\* the other names in its text.
Saved == [name : NewExpertise, defines : BOOLEAN, mentions : SUBSET NewExpertise]

Hidden(saved) == {i \in DOMAIN saved : ~ saved[i].defines}

-----------------------------------------------------------------------------
(* Requirements *)

\* _needs_verifier; the task type may be counted twice.
NeedsVerifier(needed, q) ==
    /\ "verification" \notin ToSet(needed)
    /\ \/ ToSet(needed) \cap {"security", "automation"} # {}
       \/ "coding" \in ToSet(needed) /\ q.thorough
       \/ Len(needed) >= 3

\* _dedupe.
Once(seq) ==
    LET once[i \in 0..Len(seq)] ==
            IF i = 0 THEN <<>>
            ELSE IF seq[i] \in ToSet(once[i - 1]) THEN once[i - 1]
            ELSE Append(once[i - 1], seq[i])
    IN  once[Len(seq)]

\* The keyword sets met, in their order.
Met(topics) ==
    LET met[i \in 0..12] ==
            IF i = 0 THEN <<>>
            ELSE IF ExpertiseAt[i] \in topics THEN Append(met[i - 1], ExpertiseAt[i])
            ELSE met[i - 1]
    IN  met[12]

RequiredExpertise(q) ==
    LET met     == Met(q.topics)
        typed   == IF q.taskType = "none" THEN met ELSE Append(met, q.taskType)
        secured == IF q.secured /\ "security" \notin ToSet(typed) THEN Append(typed, "security")
                   ELSE typed
        kept    == IF q.memoryNeeds /\ "memory" \notin ToSet(secured) THEN Append(secured, "memory")
                   ELSE secured
        checked == IF NeedsVerifier(kept, q) THEN Append(kept, "verification") ELSE kept
    IN  IF checked = <<>> THEN <<"research">> ELSE Once(checked)

-----------------------------------------------------------------------------
(* _load_autonomous_agent *)

\* Mutant: one record is looked at.
LookupLimitOne == 1

LookupLimit == 10

\* The records whose text holds the name.
Hits(saved, e) == {i \in DOMAIN saved : saved[i].name = e \/ e \in saved[i].mentions}

\* Of the newest records that answer to the name, is one its definition?
IsSaved(saved, e) ==
    \E i \in Hits(saved, e) :
        /\ saved[i].name = e /\ saved[i].defines
        /\ Cardinality({j \in Hits(saved, e) : j > i}) < LookupLimit

-----------------------------------------------------------------------------
(* construct_autonomous.  The saves after the first `good` ones raise; the one
   that raises has stored its record if it is torn. *)

Start(saved) == [saved |-> saved, reused |-> {}, created |-> {}, raised |-> FALSE]

Reuse(acc, e) == [acc EXCEPT !.reused = @ \cup {e}]

Create(acc, e, q, good, torn) ==
    LET raises == Cardinality(acc.created) = good
    IN  [acc EXCEPT
            !.raised = raises,
            !.created = @ \cup {e},
            !.saved = IF raises /\ ~ torn THEN @
                      ELSE Append(@, [name |-> e, defines |-> TRUE, mentions |-> q.mentions])]

\* One turn of the loop.
Provide(acc, e, q, good, torn) ==
    IF acc.raised \/ Cardinality(acc.reused \cup acc.created) >= q.maxAgents THEN acc
    ELSE IF e \notin NewExpertise THEN Reuse(acc, e)
    ELSE IF ~ q.allowNew THEN acc
    ELSE IF IsSaved(acc.saved, e) THEN Reuse(acc, e)
    ELSE Create(acc, e, q, good, torn)

Construct(saved, q, good, torn) ==
    LET needed == RequiredExpertise(q)
        loop[i \in 0..Len(needed)] ==
            IF i = 0 THEN Start(saved) ELSE Provide(loop[i - 1], needed[i], q, good, torn)
        made == loop[Len(needed)]
    IN  IF made.reused \cup made.created = {} THEN Reuse(made, "research") ELSE made
================================================================================
