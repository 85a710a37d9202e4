------------------------------- MODULE Dashboard -------------------------------
(***************************************************************************)
(* The dashboard API (saturnix_harness/dashboard): a request passes the    *)
(* rate limiter, its identity is checked, and a handler of a               *)
(* DashboardService answers it.  get_dashboard_service creates a service   *)
(* object for every request, so lockdown_mode, the custom agents and the   *)
(* API keys it keeps live as long as the request.                          *)
(*                                                                         *)
(* A handler runs without suspension except while execute_goal works.      *)
(* Every write to the memory store may raise, before or after its row is   *)
(* committed, and the client is then answered with an error.               *)
(***************************************************************************)
EXTENDS RateLimiter, FiniteSets

CONSTANTS
    Slot,       \* the requests that can be in progress at once
    Deployment, \* the settings considered
    Requests,   \* the requests considered in each kind of workload
    NoRequest

ASSUME DashboardAssumption == \A d \in Deployment : d.lockdown \in BOOLEAN

VARIABLES
    cfg,        \* the settings, and the workload of this behaviour
    slot,       \* the requests in progress and their service objects
    halted      \* history: a lockdown was answered since the process started

dashboardVars == <<limiterVars, cfg, slot, halted>>

Answers == {"none", "ok", "dry_run", "locked", "unknown", "blocked", "confirm",
            "declined", "denied", "raised"}

\* How the text of the request appears in a record, if it does, and where: in an
\* audit record, as the content or in the title and tags of a saved memory, or in
\* the records that the execution of a goal leaves.
Form == {"none", "clear", "redacted", "encrypted"}
Place == {"audit", "memory", "title", "goal"}

SlotState ==
    [phase : {"idle", "admitted", "running", "answered"},
     req : Requests[cfg.load] \cup {NoRequest},
     lockdown : BOOLEAN, custom : SUBSET {"custom"}, keys : SUBSET {"key"},
     started : {"no", "open", "halted"},
     wrote : SUBSET (Place \X Form),
     answer : Answers]

TypeOK ==
    /\ LimiterTypeOK
    /\ cfg \in Deployment
    /\ slot \in [Slot -> SlotState]
    /\ halted \in BOOLEAN

-----------------------------------------------------------------------------
(* The security sentinel: a finding is its category and how often it is found. *)

\* What the markers and patterns of the scan find in a text.
TextFindings(text) ==
    CASE text = "injection"  -> [prompt_injection |-> 1]
      [] text = "rm -rf"     -> [malicious_command |-> 1, unsafe_code |-> 1]
      [] text = "../.env"    -> [file_access |-> 1]
      [] text = "password=x" -> [exposed_api_key |-> 1]
      [] OTHER               -> <<>>

\* What it finds in the rest of a scan request.
InputFindings(q) ==
    [f \in {"request_rate", "unknown_connection", "unauthorized", "weak_authentication",
            "dangerous_workflow"} |->
        CASE f = "request_rate"        -> IF q.rate >= 120 THEN 1 ELSE 0
          [] f = "unknown_connection"  -> q.unknown
          [] f = "unauthorized"        -> IF q.authenticated THEN 0 ELSE 1
          [] f = "weak_authentication" -> IF q.weak THEN 1 ELSE 0
          [] f = "dangerous_workflow"  -> IF q.workflow THEN 1 ELSE 0]

Severity(f, q) ==
    CASE f \in {"malicious_command", "exposed_api_key", "dangerous_workflow"} -> "critical"
      [] f \in {"prompt_injection", "file_access", "unsafe_code", "unauthorized"} -> "high"
      [] f = "request_rate" /\ q.rate >= 300 -> "critical"
      [] OTHER -> "medium"

Penalty(severity) == CASE severity = "medium" -> 12 [] severity = "high" -> 25 [] OTHER -> 45

\* The findings of both halves, without those that were not found.
Scan(text, q) ==
    LET found == TextFindings(text)
        given == InputFindings(q)
        all   == DOMAIN found \cup {f \in DOMAIN given : given[f] > 0}
        count == [f \in all |-> IF f \in DOMAIN found THEN found[f] ELSE given[f]]
        loss[s \in SUBSET all] ==
            IF s = {} THEN 0
            ELSE LET f == CHOOSE f \in s : TRUE
                 IN  count[f] * Penalty(Severity(f, q)) + loss[s \ {f}]
        score == IF loss[all] > 100 THEN 0 ELSE 100 - loss[all]
        critical == \E f \in all : Severity(f, q) = "critical"
    IN  [score    |-> score,
         blocked  |-> {f \in all : Severity(f, q) # "medium"},
         lockdown |-> critical \/ score < 35]

-----------------------------------------------------------------------------
(* The data guardian, and what may be written. *)

\* _classify: the first class whose markers occur.
DataClass(text) ==
    CASE text \in {"password", "password=x", "sk-1"} -> "api_secrets"
      [] text = "snapshot"   -> "critical_backups"
      [] text = "transcript" -> "voice_records"
      [] text = "preference" -> "personal_memory"
      [] OTHER               -> "public_data"

EncryptionRequired(text) ==
    DataClass(text) \in {"personal_memory", "api_secrets", "voice_records", "critical_backups"}

\* The guardian blocks nothing that the service intends to do.
BlockedActions(text, action) ==
    IF \/ DataClass(text) = "api_secrets" /\ action \in {"log", "share", "export"}
       \/ DataClass(text) = "critical_backups" /\ action = "delete"
    THEN {action} ELSE {}

\* encrypt_if_sensitive
StoredForm(text) == IF EncryptionRequired(text) THEN "encrypted" ELSE "clear"

\* Mutant: what is audited is not searched for markers of credentials.
LoggedFormBare(text) == "clear"

\* _redact_metadata knows the words api_key, secret, token and password.
LoggedForm(text) == IF text \in {"password", "password=x"} THEN "redacted" ELSE "clear"

-----------------------------------------------------------------------------
(* Identity and agents. *)

\* dashboard_identity and JwtService.verify; a token is valid in its last second.
Role(credential) ==
    IF ~cfg.auth THEN "admin"
    ELSE IF credential.kind = "token" /\ cfg.secret /\ credential.exp >= clock
    THEN credential.role
    ELSE "nobody"

AdminOnly == {"lockdown", "store_key"}

MayCall(q) ==
    /\ Role(q.credential) # "nobody"
    /\ q.kind \in AdminOnly => Role(q.credential) = "admin"

\* Beside READ_ONLY, the default agents' permissions and their risk.
DefaultAgents ==
    [assistant     |-> [permissions |-> {"MEMORY_WRITE"},   risk |-> "LOW"],
     coding        |-> [permissions |-> {"TOOL_EXECUTION"}, risk |-> "MEDIUM"],
     research      |-> [permissions |-> {"NETWORK_ACCESS"}, risk |-> "LOW"],
     security      |-> [permissions |-> {"ADMIN_SECURITY"}, risk |-> "HIGH"],
     memory        |-> [permissions |-> {"MEMORY_WRITE"},   risk |-> "MEDIUM"],
     workflow      |-> [permissions |-> {"TOOL_EXECUTION"}, risk |-> "MEDIUM"],
     voice         |-> [permissions |-> {"TOOL_EXECUTION"}, risk |-> "HIGH"],
     edge          |-> [permissions |-> {"TOOL_EXECUTION"}, risk |-> "HIGH"],
     job           |-> [permissions |-> {"MEMORY_WRITE"},   risk |-> "MEDIUM"],
     semiconductor |-> [permissions |-> {},                 risk |-> "MEDIUM"]]

Known(r, name) == name \in DOMAIN DefaultAgents \cup slot[r].custom

\* preflight_agent_execution: which approvals a run needs.  A custom agent has
\* the permissions its creator listed; created agents never meet a request.
RequiredApprovals(name, dry) ==
    IF dry THEN {}
    ELSE {"verification"}
         \cup (IF DefaultAgents[name].permissions # {} THEN {"permissions"} ELSE {})
         \cup (IF DefaultAgents[name].risk \in {"HIGH", "CRITICAL"} THEN {"risk"} ELSE {})

\* A request that carries nothing but a text is scanned as this input.
TextOnly == [rate |-> 0, unknown |-> 0, authenticated |-> TRUE, weak |-> FALSE, workflow |-> FALSE]

Obstacles(q) ==
    LET scan == Scan(q.text, TextOnly) IN
      scan.blocked \cup (IF scan.lockdown THEN {"lockdown"} ELSE {})
                   \cup BlockedActions(q.text, "agent_execute")

Allowed(q) ==
    /\ Obstacles(q) = {}
    /\ q.dry \/ q.approved \/ RequiredApprovals(q.agent, q.dry) = {}

-----------------------------------------------------------------------------
(* A request from its arrival to its answer. *)

Free == [phase |-> "idle", req |-> NoRequest, lockdown |-> FALSE, custom |-> {}, keys |-> {},
         started |-> "no", wrote |-> {}, answer |-> "none"]

Init ==
    /\ LimiterInit
    /\ cfg \in Deployment
    /\ slot = [r \in Slot |-> Free]
    /\ halted = FALSE

\* The middleware; an admitted request gets its service object.
Arrive(r, c, q) ==
    /\ slot[r].phase \in {"idle", "answered"}
    /\ \/ /\ Admit(c)
          /\ slot' = [slot EXCEPT ![r] =
               [Free EXCEPT !.phase = "admitted", !.req = q, !.lockdown = cfg.lockdown]]
       \/ Refuse(c) /\ slot' = [slot EXCEPT ![r] = Free]
    /\ UNCHANGED <<cfg, halted>>

Handling(r, kind) ==
    /\ slot[r].phase = "admitted" /\ slot[r].req.kind = kind
    /\ MayCall(slot[r].req)

\* The request ends with this answer and what it has written.
Close(r, service, records, answer) ==
    slot' = [slot EXCEPT ![r] =
        [service EXCEPT !.phase = "answered", !.wrote = @ \cup records, !.answer = answer]]

\* Mutant: a write that raises does not keep the answer back.
WriteAndAnswerAnyway(r, service, records, answer) ==
    \E n \in 0..Len(records) :
        Close(r, service, UNION {records[i] : i \in 1..n}, answer)

\* The records are written in order, until one write raises.
WriteAndAnswer(r, service, records, answer) ==
    \/ Close(r, service, UNION {records[i] : i \in DOMAIN records}, answer)
    \/ \E n \in 0..Len(records) :
         records # <<>> /\ Close(r, service, UNION {records[i] : i \in 1..n}, "raised")

\* The two records that handlers write, by what they say of the request's text.
Audit(form) == {<<"audit", form>>}

MemoryRecord(q) ==
    {<<"memory", StoredForm(q.text)>>, <<"title", IF q.titled THEN "clear" ELSE "none">>}

Answer(r, answer) == WriteAndAnswer(r, slot[r], <<>>, answer)

\* The rest is as it was.
Quiet == UNCHANGED <<limiterVars, cfg, halted>>

Deny(r) ==
    /\ slot[r].phase = "admitted" /\ ~MayCall(slot[r].req)
    /\ Answer(r, "denied")
    /\ Quiet

\* execute_goal is called and the handler suspends.
StartGoal(r) ==
    slot' = [slot EXCEPT ![r].phase = "running",
                         ![r].started = IF halted THEN "halted" ELSE "open"]

ExecuteAgent(r) ==
    /\ Handling(r, "execute")
    /\ LET q == slot[r].req IN
         \/ slot[r].lockdown /\ Answer(r, "locked")
         \/ /\ ~slot[r].lockdown
            /\ ~Known(r, q.agent)
            /\ Answer(r, "unknown")
         \/ /\ ~slot[r].lockdown
            /\ Known(r, q.agent)
            /\ \/ ~Allowed(q) /\ WriteAndAnswer(r, slot[r], <<Audit("none")>>, "blocked")
               \/ Allowed(q) /\ q.dry /\ Answer(r, "dry_run")
               \/ Allowed(q) /\ ~q.dry /\ StartGoal(r)
    /\ Quiet

\* Mutant: the lockdown is asked for by execute_agent alone.
RunWorkflowAnyway(r) ==
    /\ Handling(r, "workflow")
    /\ LET q == slot[r].req IN
         \/ q.asks /\ ~q.dry /\ ~q.approved /\ Answer(r, "confirm")
         \/ q.dry /\ Answer(r, "dry_run")
         \/ ~q.dry /\ (q.approved \/ ~q.asks) /\ StartGoal(r)
    /\ Quiet

RunWorkflow(r) ==
    /\ Handling(r, "workflow")
    /\ LET q == slot[r].req IN
         \/ slot[r].lockdown /\ Answer(r, "locked")
         \/ /\ ~slot[r].lockdown
            /\ \/ q.asks /\ ~q.dry /\ ~q.approved /\ Answer(r, "confirm")
               \/ q.dry /\ Answer(r, "dry_run")
               \/ ~q.dry /\ (q.approved \/ ~q.asks) /\ StartGoal(r)
    /\ Quiet

\* execute_goal has committed some of its records by the time it ends, well or
\* not, or none; traces, results and goals quote the goal as it is.
GoalRecords == {{}, {<<"goal", "clear">>}}

\* execute_goal has returned; only execute_agent leaves an audit record.
GoalReturns(r) ==
    /\ slot[r].phase = "running"
    /\ \E left \in GoalRecords :
         LET service == [slot[r] EXCEPT !.wrote = left] IN
         IF slot[r].req.kind = "execute"
         THEN WriteAndAnswer(r, service, <<Audit(LoggedForm(slot[r].req.text))>>, "ok")
         ELSE Close(r, service, {}, "ok")
    /\ Quiet

\* Mutant: a goal that raised is tried again.
GoalRetried(r) ==
    /\ slot[r].phase = "running"
    /\ slot' = [slot EXCEPT ![r].phase = "admitted"]
    /\ Quiet

GoalRaises(r) ==
    /\ slot[r].phase = "running"
    /\ \E left \in GoalRecords : Close(r, slot[r], left, "raised")
    /\ Quiet

SaveMemory(r) ==
    /\ Handling(r, "save")
    /\ LET q == slot[r].req IN
         IF BlockedActions(q.text, "memory_save") # {} \/ ~q.permission
         THEN Answer(r, "declined")
         ELSE WriteAndAnswer(r, slot[r], <<MemoryRecord(q), Audit("none")>>, "ok")
    /\ Quiet

SearchMemory(r) ==
    /\ Handling(r, "search")
    /\ WriteAndAnswer(r, slot[r], <<Audit(LoggedForm(slot[r].req.text))>>, "ok")
    /\ Quiet

\* The findings that are audited name the categories, never the text.
ScanInput(r) ==
    /\ Handling(r, "scan")
    /\ LET locks == Scan(slot[r].req.text, slot[r].req.input).lockdown IN
         WriteAndAnswer(r, [slot[r] EXCEPT !.lockdown = @ \/ locks], <<Audit("none")>>, "ok")
    /\ Quiet

Lockdown(r) ==
    /\ Handling(r, "lockdown")
    /\ WriteAndAnswer(r, [slot[r] EXCEPT !.lockdown = TRUE], <<Audit("none")>>, "ok")
    /\ halted' = (halted \/ slot'[r].answer = "ok")
    /\ UNCHANGED <<limiterVars, cfg>>

CreateAgent(r) ==
    /\ Handling(r, "create")
    /\ WriteAndAnswer(r, [slot[r] EXCEPT !.custom = @ \cup {"custom"}], <<Audit("none")>>, "ok")
    /\ Quiet

\* Mutant: the key is kept under its label.
StoreApiKeyByLabel(r) ==
    /\ Handling(r, "store_key")
    /\ WriteAndAnswer(r, [slot[r] EXCEPT !.keys = @ \cup {slot[r].req.text}],
                      <<Audit(LoggedForm(slot[r].req.text))>>, "ok")
    /\ Quiet

StoreApiKey(r) ==
    /\ Handling(r, "store_key")
    /\ WriteAndAnswer(r, [slot[r] EXCEPT !.keys = @ \cup {"key"}],
                      <<Audit(LoggedForm(slot[r].req.text))>>, "ok")
    /\ Quiet

\* The pages that only read.
View(r) == Handling(r, "view") /\ Answer(r, "ok") /\ Quiet

Handle(r) ==
    \/ Deny(r) \/ ExecuteAgent(r) \/ RunWorkflow(r) \/ SaveMemory(r) \/ SearchMemory(r)
    \/ ScanInput(r) \/ Lockdown(r) \/ CreateAgent(r) \/ StoreApiKey(r) \/ View(r)

\* The API process ends and starts again.
Restart ==
    /\ ForgetRequests
    /\ slot' = [r \in Slot |-> Free]
    /\ halted' = FALSE
    /\ UNCHANGED cfg

\* Bound: in a workload of its own the clock runs.
ClockRuns == cfg.load = "clock" /\ TimePasses /\ UNCHANGED <<cfg, slot, halted>>

Next ==
    \/ ClockRuns
    \/ Restart
    \/ \E r \in Slot :
         \/ \E c \in Client, q \in Requests[cfg.load] : Arrive(r, c, q)
         \/ Handle(r) \/ GoalReturns(r) \/ GoalRaises(r)

Spec == Init /\ [][Next]_dashboardVars

\* A handler that can go on does, and the engine answers every goal.
FairSpec ==
    /\ Spec
    /\ \A r \in Slot : WF_dashboardVars(Handle(r)) /\ WF_dashboardVars(GoalReturns(r) \/ GoalRaises(r))

-----------------------------------------------------------------------------
(* Properties *)

\* An answer that reports a sensitive action stands for an audit record that is
\* committed, whatever write failed: what the doctrine calls a full audit trail.
\* (A workflow run leaves none.)
AnsweredIsAudited ==
    \A r \in Slot :
        /\ \/ slot[r].answer = "ok" /\ slot[r].req.kind \notin {"view", "workflow"}
           \/ slot[r].answer = "blocked"
        => \E form \in Form : <<"audit", form>> \in slot[r].wrote

\* No goal runs against the lockdown setting, for a dry run, or unapproved; an
\* agent's goal moreover has no finding of the scan and no class of data against
\* it; that of a workflow is never scanned.  An answer that refuses means that
\* nothing has run and nothing was remembered.
ExecutionIsGated ==
    \A r \in Slot :
        /\ slot[r].started # "no" =>
             /\ ~cfg.lockdown /\ ~slot[r].req.dry
             /\ slot[r].req.kind = "execute" => slot[r].req.approved /\ Obstacles(slot[r].req) = {}
             /\ slot[r].req.kind = "workflow" => slot[r].req.approved \/ ~slot[r].req.asks
        /\ slot[r].answer \notin {"none", "ok", "raised"} =>
             /\ slot[r].started = "no"
             /\ \A x \in slot[r].wrote : x[1] = "audit"

\* A text that says password or token is covered wherever the dashboard itself
\* writes it as content: in a saved memory, and in the audit record of a search,
\* a run or a stored key.  Titles and the records of the execution engine, which
\* keep the text as it is, are not covered.
CredentialsStayCovered ==
    \A r \in Slot :
        slot[r].req # NoRequest /\ slot[r].req.text \in {"password", "password=x"}
            => \A x \in slot[r].wrote : x[1] \in {"audit", "memory"} => x[2] # "clear"

\* Every admitted request is answered, unless the process ends first.
RequestIsAnswered ==
    \A r \in Slot : slot[r].phase \in {"admitted", "running"} ~> slot[r].phase \in {"answered", "idle"}

\* "tool execution stopped": once a lockdown was answered, no goal starts.
LockdownStopsTools == \A r \in Slot : slot[r].started # "halted"
================================================================================
