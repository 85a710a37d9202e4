--------------------------- MODULE SecuritySentinel ---------------------------
(***************************************************************************)
(* The scan of saturnix_harness/core/security_sentinel.py.  A text is the  *)
(* set of the markers that occur in it, with one marker for each class the *)
(* checks treat alike.  What is written to a part of a scan request is     *)
(* also in its combined text; the checks for code, workflows, dependencies *)
(* and containers read their own part only.                                *)
(***************************************************************************)
EXTENDS Integers, FiniteSets

Marker == {"ignore previous", "api_key=", "rm -rf", "subprocess", "exfiltrate", ".env",
           "latest", "--trusted-host", "privileged", "customer data"}

Part == {"prompt", "task", "code", "actions", "workflow", "file_paths", "dependencies",
         "container_config", "external_inputs"}

\* Nothing but a prompt.
Prompt(text) == [p \in Part |-> IF p = "prompt" THEN text ELSE {}]

CombinedText(request) == UNION {request[p] : p \in Part}

Finding(category, markers, severity) ==
    {[category |-> category, marker |-> m, severity |-> severity] : m \in markers}

\* _check_unsafe_code, of code and actions.
UnsafeCode(text) ==
    Finding("unsafe_code", text \cap {"rm -rf"}, "critical")
    \cup Finding("unsafe_code", text \cap {"subprocess"}, "high")

\* What the request would make the system do.
InstructionFindings(request) ==
    Finding("prompt_injection", CombinedText(request) \cap {"ignore previous"}, "high")
    \cup Finding("api_key_leakage", CombinedText(request) \cap {"api_key="}, "critical")
    \cup UnsafeCode(request["code"] \cup request["actions"])
    \cup Finding("malicious_workflow",
                 (request["workflow"] \cup request["actions"]) \cap {"exfiltrate"}, "critical")

\* What it would reach.
ResourceFindings(request, sensitivity) ==
    LET text == CombinedText(request) IN
    UNION {
        Finding("unauthorized_file_access", (request["file_paths"] \cup text) \cap {".env"}, "high"),
        Finding("insecure_dependencies", request["dependencies"] \cap {"latest"}, "medium"),
        Finding("insecure_dependencies", request["dependencies"] \cap {"--trusted-host"}, "high"),
        Finding("container", request["container_config"] \cap {"privileged"}, "critical"),
        Finding("container", request["container_config"] \cap {"latest"}, "high"),
        Finding("sensitive_data", text \cap {"customer data"}, "high"),
        IF sensitivity \in {"private", "confidential", "restricted"}
        THEN Finding("sensitive_data", {"customer data"}, "medium") ELSE {} }

\* The findings, once each.
Findings(request, sensitivity) ==
    InstructionFindings(request) \cup ResourceFindings(request, sensitivity)

\* blocked_actions: every finding that is not of medium severity has one.
BlockedFindings(request, sensitivity) ==
    {f \in Findings(request, sensitivity) : f.severity # "medium"}
================================================================================
