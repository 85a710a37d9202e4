--------------------------- MODULE VoiceConfirmation ---------------------------
(***************************************************************************)
(* The confirmation gate of the voice cognitive agent                      *)
(* (saturnix_harness/voice/cognitive_agent.py).                            *)
(*                                                                         *)
(* Requests are handled by coroutines of one event loop: the code between  *)
(* two awaits is one step.  A turn suspends while the core executes its    *)
(* command and again while the answer is spoken; other turns of the same   *)
(* session run meanwhile and read the same pending-confirmation records.   *)
(* A record is marked "executed" only after both suspensions.              *)
(***************************************************************************)
EXTENDS Naturals, FiniteSets

CONSTANTS
    Turn,       \* request slots: turns of one session that may overlap
    Record,     \* pending-confirmation records; a record is its own token
    NoRecord,   \* "no pending record" and "no confirmation_token"
    Window,     \* LIMIT of the search in _pending_confirmation (5 in the code)
    MaxStarts,  \* bound: how often one record's command may start
    MaxFaults   \* bound: exceptions and process crashes in one behaviour

ASSUME VoiceAssumption ==
    /\ NoRecord \notin Record
    /\ Window \in Nat \ {0}
    /\ MaxStarts \in Nat
    /\ MaxFaults \in Nat

VARIABLES
    status,     \* metadata.status of each record in SQLite
    fresher,    \* fresher[r]: the records whose updated_at is later than r's
    turn,       \* where each turn is suspended, and on whose behalf
    starts,     \* history: how often each record's command was started
    stopped,    \* history: records a turn marked as stopped, not executed
    faults      \* history: faults so far

vars == <<status, fresher, turn, starts, stopped, faults>>

-----------------------------------------------------------------------------
(* Requests: what the transcript is, and the request's own fields. *)

Utterance == {"interrupt", "affirm", "affirm_risky", "reject", "reject_risky",
              "plain", "risky"}
Token     == Record \cup {NoRecord}
Request   == [says : Utterance, confirmed : BOOLEAN, token : Token]

IsInterrupt(req)            == req.says = "interrupt"
IsConfirmationResponse(req) == req.confirmed \/ req.says \in {"affirm", "affirm_risky"}
IsRejection(req)            == req.says \in {"reject", "reject_risky"}
RequiresConfirmation(req)   == req.says \in {"risky", "affirm_risky", "reject_risky"}

Suspended == {"executing", "speaking"}
Idle == [pc |-> "idle", rec |-> NoRecord]

TypeOK ==
    /\ status \in [Record -> {"absent", "pending", "executed", "cancelled", "interrupted"}]
    /\ fresher \in [Record -> SUBSET Record]
    /\ turn \in [Turn -> [pc : {"idle"} \cup Suspended, rec : Token]]
    /\ starts \in [Record -> Nat]
    /\ stopped \subseteq Record
    /\ faults \in Nat

Init ==
    /\ status = [r \in Record |-> "absent"]
    /\ fresher = [r \in Record |-> {}]
    /\ turn = [t \in Turn |-> Idle]
    /\ starts = [r \in Record |-> 0]
    /\ stopped = {}
    /\ faults = 0

-----------------------------------------------------------------------------
(* The record store, as the agent uses it. *)

\* Mutant: the tag is written where the status belongs.
WriteTag(r, s) ==
    /\ status' = [status EXCEPT ![r] = IF s = "executed" THEN "voice_pending" ELSE s]
    /\ fresher' = fresher

\* A write of r: its status changes and it becomes the most recently updated.
Write(r, s) ==
    /\ status' = [status EXCEPT ![r] = s]
    /\ fresher' = [q \in Record |->
                     IF q = r \/ status[q] = "absent" THEN {} ELSE fresher[q] \cup {r}]

\* Mutant: metadata.status is not looked at.
PendingAnyStatus(tok, r) ==
    /\ status[r] # "absent"
    /\ IF tok = NoRecord THEN fresher[r] = {} ELSE r = tok

\* r is what _pending_confirmation returns for tok.  Without a token the search
\* sees the Window latest records, resolved ones included, and then looks for
\* the first one still pending; a token is part of one record's content only.
Pending(tok, r) ==
    /\ status[r] = "pending"
    /\ IF tok = NoRecord
       THEN /\ Cardinality(fresher[r]) < Window
            /\ \A q \in fresher[r] : status[q] # "pending"
       ELSE r = tok

NonePending(tok) == \A r \in Record : ~ Pending(tok, r)

-----------------------------------------------------------------------------
(* One turn, up to its answer or its first suspension. *)

StartTurn(t, rec) ==
    turn' = [turn EXCEPT ![t] = [pc |-> "executing", rec |-> rec]]

\* A turn that has written its record answers, or the rest of it (the vector
\* index, the records of the conversation) raises and the route answers 500.
AnswersOrRaises ==
    \/ UNCHANGED faults
    \/ faults < MaxFaults /\ faults' = faults + 1

\* "stop", or interrupt=true: a pending record is marked, the answer says that
\* nothing ran.  Turns already suspended are left alone.
InterruptedResult(t, req) ==
    /\ turn[t].pc = "idle"
    /\ IsInterrupt(req)
    /\ \E r \in Record :
         /\ Pending(req.token, r)
         /\ Write(r, "interrupted")
         /\ stopped' = stopped \cup {r}
    /\ AnswersOrRaises
    /\ UNCHANGED <<turn, starts>>

\* A confirming turn dispatches the stored command and suspends; the record
\* keeps its status until the command is done.
ExecuteConfirmedPending(t, req) ==
    /\ turn[t].pc = "idle"
    /\ ~ IsInterrupt(req)
    /\ IsConfirmationResponse(req)
    /\ \E r \in Record :
         /\ Pending(req.token, r)
         /\ starts[r] < MaxStarts
         /\ StartTurn(t, r)
         /\ starts' = [starts EXCEPT ![r] = @ + 1]
    /\ UNCHANGED <<status, fresher, stopped, faults>>

CancelPendingResult(t, req) ==
    /\ turn[t].pc = "idle"
    /\ ~ IsInterrupt(req)
    /\ ~ IsConfirmationResponse(req)
    /\ IsRejection(req)
    /\ \E r \in Record :
         /\ Pending(req.token, r)
         /\ Write(r, "cancelled")
         /\ stopped' = stopped \cup {r}
    /\ AnswersOrRaises
    /\ UNCHANGED <<turn, starts>>

\* No branch above applies, so the transcript itself is the command.
IsCommand(req) ==
    /\ ~ IsInterrupt(req)
    /\ IsConfirmationResponse(req) \/ IsRejection(req) => NonePending(req.token)

SavePendingConfirmation(t, req) ==
    /\ turn[t].pc = "idle"
    /\ IsCommand(req)
    /\ RequiresConfirmation(req)
    /\ ~ req.confirmed
    /\ \E r \in Record : status[r] = "absent" /\ Write(r, "pending")
    /\ AnswersOrRaises
    /\ UNCHANGED <<turn, starts, stopped>>

ExecuteCommand(t, req) ==
    /\ turn[t].pc = "idle"
    /\ IsCommand(req)
    /\ ~ RequiresConfirmation(req) \/ req.confirmed
    /\ StartTurn(t, NoRecord)
    /\ UNCHANGED <<status, fresher, starts, stopped, faults>>

\* VoiceEngine.run_voice_workflow (POST /v1/voice/run): whatever the transcript
\* says is extracted and executed; this endpoint has no gate.
RunVoiceWorkflow(t) ==
    /\ turn[t].pc = "idle"
    /\ StartTurn(t, NoRecord)
    /\ UNCHANGED <<status, fresher, starts, stopped, faults>>

-----------------------------------------------------------------------------
(* The suspended turn resumes, fails, or dies with the process. *)

\* The execution is back and synthesize_response was set.
MaybeSynthesize(t) ==
    /\ turn[t].pc = "executing"
    /\ turn' = [turn EXCEPT ![t].pc = "speaking"]
    /\ UNCHANGED <<status, fresher, starts, stopped, faults>>

\* Mutants: the record is looked up again instead of kept; it is not marked.
FinishTurnLatest(t) ==
    /\ turn[t].pc \in Suspended
    /\ turn' = [turn EXCEPT ![t] = Idle]
    /\ IF NonePending(NoRecord)
       THEN UNCHANGED <<status, fresher>>
       ELSE \E r \in Record : Pending(NoRecord, r) /\ Write(r, "executed")
    /\ UNCHANGED <<starts, stopped, faults>>

FinishTurnUnmarked(t) ==
    /\ turn[t].pc \in Suspended
    /\ turn' = [turn EXCEPT ![t] = Idle]
    /\ UNCHANGED <<status, fresher, starts, stopped, faults>>

\* Last segment: the turn is persisted and its record, if it has one, is
\* rewritten from the copy read before the suspension.
FinishTurn(t) ==
    /\ turn[t].pc \in Suspended
    /\ turn' = [turn EXCEPT ![t] = Idle]
    /\ IF turn[t].rec = NoRecord
       THEN UNCHANGED <<status, fresher, faults>>
       ELSE Write(turn[t].rec, "executed") /\ AnswersOrRaises
    /\ UNCHANGED <<starts, stopped>>

\* The executor, _persist_turn or the update raises before SQLite has the new
\* status: the route answers 500.
TurnRaises(t) ==
    /\ turn[t].pc \in Suspended
    /\ faults < MaxFaults
    /\ faults' = faults + 1
    /\ turn' = [turn EXCEPT ![t] = Idle]
    /\ UNCHANGED <<status, fresher, starts, stopped>>

\* The process dies and is started again: SQLite survives, the turns do not.
Restart ==
    /\ \E t \in Turn : turn[t].pc # "idle"
    /\ faults < MaxFaults
    /\ faults' = faults + 1
    /\ turn' = [t \in Turn |-> Idle]
    /\ UNCHANGED <<status, fresher, starts, stopped>>

-----------------------------------------------------------------------------
RunTurn(t, req) ==
    \/ InterruptedResult(t, req)
    \/ ExecuteConfirmedPending(t, req)
    \/ CancelPendingResult(t, req)
    \/ SavePendingConfirmation(t, req)
    \/ ExecuteCommand(t, req)

Resume(t) == MaybeSynthesize(t) \/ FinishTurn(t)

Next ==
    \/ \E t \in Turn : \/ \E req \in Request : RunTurn(t, req)
                      \/ RunVoiceWorkflow(t)
                      \/ Resume(t)
                      \/ TurnRaises(t)
    \/ Restart

Spec == Init /\ [][Next]_vars

\* The event loop runs a coroutine whose await has completed, and every await
\* in the executor has a client timeout.  Users owe nothing.
FairSpec == Spec /\ \A t \in Turn : WF_vars(FinishTurn(t))

-----------------------------------------------------------------------------
(* Properties *)

InFlight(r) == {t \in Turn : turn[t].rec = r}

\* A command whose record a stop or a cancellation has marked, whether its
\* answer ("No workflow was executed") reached the user or the turn raised after
\* the write, is not started from then on, whatever overlaps and whatever fails.
StopIsFinal == [][\A r \in stopped : starts'[r] = starts[r]]_vars

\* The store never calls a command executed that was not started, nor stopped
\* one that no turn stopped: the status written from a stale copy tells no lie.
StatusHasCause ==
    \A r \in Record :
        /\ status[r] = "executed" => starts[r] > 0
        /\ status[r] \in {"cancelled", "interrupted"} => r \in stopped
        /\ status[r] = "absent" => starts[r] = 0 /\ InFlight(r) = {}

\* One confirmation request leads to at most one execution of its command.
AtMostOnce == \A r \in Record : starts[r] <= 1

\* Without faults a command that was started does not stay confirmable.
StartedIsResolved == \A r \in Record : starts[r] > 0 ~> status[r] # "pending"

\* An answer "No workflow was executed" is true: the command it speaks of was
\* never started.
StoppedDidNotRun == \A r \in stopped : starts[r] = 0

\* What a client that waits for each answer gets, when nothing fails.
Settled(s) == IF s = "executed" THEN "closed"
              ELSE IF s \in {"cancelled", "interrupted"} THEN "withdrawn" ELSE s

stage == [r \in Record |-> IF InFlight(r) # {} THEN "running" ELSE Settled(status[r])]

Gate == INSTANCE ApprovalGate WITH Record <- Record, stage <- stage

GateSpec == Gate!Spec
================================================================================
