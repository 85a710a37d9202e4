------------------------ MODULE VoiceConfirmation_proofs ------------------------
(***************************************************************************)
(* Proofs about the voice confirmation gate, for every number of turns,    *)
(* records and faults.                                                     *)
(***************************************************************************)
EXTENDS VoiceConfirmation, TLAPS

USE VoiceAssumption

\* The invariant that carries the safety properties: a stopped record has been
\* resolved, and a record in flight has been started.
IInv ==
    /\ TypeOK
    /\ StatusHasCause
    /\ \A r \in stopped : status[r] \notin {"absent", "pending"}
    /\ \A t \in Turn : turn[t].rec # NoRecord => starts[turn[t].rec] > 0

\* What one step may do, as far as the proofs need to know: a case per action.
Steps ==
    \/ \E t \in Turn, req \in Request :
         \/ InterruptedResult(t, req)
         \/ ExecuteConfirmedPending(t, req)
         \/ CancelPendingResult(t, req)
         \/ SavePendingConfirmation(t, req)
         \/ ExecuteCommand(t, req)
    \/ \E t \in Turn :
         \/ RunVoiceWorkflow(t)
         \/ MaybeSynthesize(t)
         \/ FinishTurn(t)
         \/ TurnRaises(t)
    \/ Restart
    \/ UNCHANGED vars

LEMMA NextIsSteps == [Next]_vars => Steps
BY DEF Next, RunTurn, Resume, Steps

LEMMA InitIInv == Init => IInv
BY DEF Init, IInv, TypeOK, StatusHasCause, InFlight, Idle, Token, Suspended

LEMMA WriteType ==
    ASSUME TypeOK, NEW r \in Record,
           NEW s \in {"pending", "executed", "cancelled", "interrupted"},
           Write(r, s)
    PROVE  /\ status' = [status EXCEPT ![r] = s]
           /\ status' \in [Record -> {"absent", "pending", "executed", "cancelled", "interrupted"}]
           /\ fresher' \in [Record -> SUBSET Record]
BY DEF TypeOK, Write

\* Every step keeps the types.
LEMMA StepTypeOK == TypeOK /\ [Next]_vars => TypeOK'
<1> SUFFICES ASSUME TypeOK, Steps PROVE TypeOK'
  BY NextIsSteps
<1> USE DEF Token, Suspended, Idle
<1>1. ASSUME NEW t \in Turn, NEW req \in Request, InterruptedResult(t, req)
      PROVE  TypeOK'
  BY <1>1, WriteType DEF InterruptedResult, AnswersOrRaises, TypeOK
<1>2. ASSUME NEW t \in Turn, NEW req \in Request, ExecuteConfirmedPending(t, req)
      PROVE  TypeOK'
  BY <1>2 DEF ExecuteConfirmedPending, StartTurn, Request, TypeOK
<1>3. ASSUME NEW t \in Turn, NEW req \in Request, CancelPendingResult(t, req)
      PROVE  TypeOK'
  BY <1>3, WriteType DEF CancelPendingResult, AnswersOrRaises, TypeOK
<1>4. ASSUME NEW t \in Turn, NEW req \in Request, SavePendingConfirmation(t, req)
      PROVE  TypeOK'
  BY <1>4, WriteType DEF SavePendingConfirmation, AnswersOrRaises, TypeOK
<1>5. ASSUME NEW t \in Turn, NEW req \in Request, ExecuteCommand(t, req)
      PROVE  TypeOK'
  BY <1>5 DEF ExecuteCommand, StartTurn, Request, TypeOK
<1>6. ASSUME NEW t \in Turn, RunVoiceWorkflow(t)
      PROVE  TypeOK'
  BY <1>6 DEF RunVoiceWorkflow, StartTurn, TypeOK
<1>7. ASSUME NEW t \in Turn, MaybeSynthesize(t)
      PROVE  TypeOK'
  BY <1>7 DEF MaybeSynthesize, TypeOK
<1>8. ASSUME NEW t \in Turn, FinishTurn(t)
      PROVE  TypeOK'
  <2>1. CASE turn[t].rec = NoRecord
    BY <1>8, <2>1 DEF FinishTurn, TypeOK
  <2>2. CASE turn[t].rec # NoRecord
    <3>1. turn[t].rec \in Record
      BY <2>2 DEF TypeOK
    <3>2. QED
      BY <1>8, <2>2, <3>1, WriteType DEF FinishTurn, AnswersOrRaises, TypeOK
  <2>3. QED BY <2>1, <2>2
<1>9. ASSUME NEW t \in Turn, TurnRaises(t)
      PROVE  TypeOK'
  BY <1>9 DEF TurnRaises, TypeOK
<1>10. CASE Restart
  BY <1>10 DEF Restart, TypeOK
<1>11. CASE UNCHANGED vars
  BY <1>11 DEF vars, TypeOK
<1>12. QED
  BY <1>1, <1>2, <1>3, <1>4, <1>5, <1>6, <1>7, <1>8, <1>9, <1>10, <1>11 DEF Steps

\* The voice gate never leaves its types.
THEOREM TypeCorrect == Spec => []TypeOK
<1>1. Init => TypeOK
  BY InitIInv DEF IInv
<1>2. QED
  BY <1>1, StepTypeOK, PTL DEF Spec

-----------------------------------------------------------------------------
\* Every step keeps the invariant.
LEMMA StepIInv == IInv /\ [Next]_vars => IInv'
<1> SUFFICES ASSUME IInv, TypeOK', Steps PROVE IInv'
  BY NextIsSteps, StepTypeOK DEF IInv
<1> USE DEF Token, Suspended, Idle
<1>1. ASSUME NEW t \in Turn, NEW req \in Request, InterruptedResult(t, req)
      PROVE  IInv'
  <2>1. PICK r \in Record : /\ status[r] = "pending"
                            /\ Write(r, "interrupted")
                            /\ stopped' = stopped \cup {r}
    BY <1>1 DEF InterruptedResult, Pending
  <2>2. turn' = turn /\ starts' = starts
    BY <1>1 DEF InterruptedResult
  <2>3. StatusHasCause'
    BY <2>1, <2>2 DEF IInv, TypeOK, StatusHasCause, InFlight, Write
  <2>4. QED
    BY <2>1, <2>2, <2>3 DEF IInv, TypeOK, Write
<1>2. ASSUME NEW t \in Turn, NEW req \in Request, ExecuteConfirmedPending(t, req)
      PROVE  IInv'
  <2>1. PICK r \in Record : /\ Pending(req.token, r)
                            /\ turn' = [turn EXCEPT ![t] =
                                 [pc |-> "executing", rec |-> r]]
                            /\ starts' = [starts EXCEPT ![r] = @ + 1]
    BY <1>2 DEF ExecuteConfirmedPending, StartTurn
  <2>2. status' = status /\ stopped' = stopped
    BY <1>2 DEF ExecuteConfirmedPending
  <2>3. status[r] = "pending"
    BY <2>1 DEF Pending
  <2>4. \A q \in Record : starts'[q] \in Nat /\ starts'[q] >= starts[q] /\ starts'[r] > 0
    BY <2>1 DEF IInv, TypeOK
  <2>5. StatusHasCause'
    BY <2>1, <2>2, <2>3, <2>4 DEF IInv, TypeOK, StatusHasCause, InFlight
  <2>6. \A u \in Turn : turn'[u].rec # NoRecord => starts'[turn'[u].rec] > 0
    BY <2>1, <2>4 DEF IInv, TypeOK
  <2>7. QED
    BY <2>2, <2>5, <2>6 DEF IInv
<1>3. ASSUME NEW t \in Turn, NEW req \in Request, CancelPendingResult(t, req)
      PROVE  IInv'
  <2>1. PICK r \in Record : /\ status[r] = "pending"
                            /\ Write(r, "cancelled")
                            /\ stopped' = stopped \cup {r}
    BY <1>3 DEF CancelPendingResult, Pending
  <2>2. turn' = turn /\ starts' = starts
    BY <1>3 DEF CancelPendingResult
  <2>3. StatusHasCause'
    BY <2>1, <2>2 DEF IInv, TypeOK, StatusHasCause, InFlight, Write
  <2>4. QED
    BY <2>1, <2>2, <2>3 DEF IInv, TypeOK, Write
<1>4. ASSUME NEW t \in Turn, NEW req \in Request, SavePendingConfirmation(t, req)
      PROVE  IInv'
  <2>1. PICK r \in Record : status[r] = "absent" /\ Write(r, "pending")
    BY <1>4 DEF SavePendingConfirmation
  <2>2. turn' = turn /\ starts' = starts /\ stopped' = stopped
    BY <1>4 DEF SavePendingConfirmation
  <2>3. StatusHasCause'
    BY <2>1, <2>2 DEF IInv, TypeOK, StatusHasCause, InFlight, Write
  <2>4. QED
    BY <2>1, <2>2, <2>3 DEF IInv, TypeOK, Write
<1>5. ASSUME NEW t \in Turn, StartTurn(t, NoRecord),
             UNCHANGED <<status, stopped, starts>>
      PROVE  IInv'
  BY <1>5 DEF StartTurn, IInv, TypeOK, StatusHasCause, InFlight
<1>6. ASSUME NEW t \in Turn, NEW req \in Request, ExecuteCommand(t, req)
      PROVE  IInv'
  BY <1>5, <1>6 DEF ExecuteCommand, Request
<1>7. ASSUME NEW t \in Turn, RunVoiceWorkflow(t)
      PROVE  IInv'
  BY <1>5, <1>7 DEF RunVoiceWorkflow
<1>8. ASSUME NEW t \in Turn, MaybeSynthesize(t)
      PROVE  IInv'
  <2>1. \A u \in Turn : turn'[u].rec = turn[u].rec
    BY <1>8 DEF MaybeSynthesize, IInv, TypeOK
  <2>2. UNCHANGED <<status, stopped, starts>>
    BY <1>8 DEF MaybeSynthesize
  <2>3. QED
    BY <2>1, <2>2 DEF IInv, StatusHasCause, InFlight
<1>9. ASSUME NEW t \in Turn, FinishTurn(t)
      PROVE  IInv'
  <2>1. turn' = [turn EXCEPT ![t] = Idle] /\ UNCHANGED <<starts, stopped>>
    BY <1>9 DEF FinishTurn
  <2>2. CASE turn[t].rec = NoRecord
    BY <1>9, <2>1, <2>2
       DEF FinishTurn, IInv, TypeOK, StatusHasCause, InFlight
  <2>3. CASE turn[t].rec # NoRecord
    <3> DEFINE r == turn[t].rec
    <3>1. r \in Record /\ starts[r] > 0 /\ status' = [status EXCEPT ![r] = "executed"]
      BY <1>9, <2>3 DEF FinishTurn, Write, IInv, TypeOK
    <3> HIDE DEF r
    <3>2. QED
      BY <2>1, <3>1 DEF IInv, TypeOK, StatusHasCause, InFlight
  <2>4. QED BY <2>2, <2>3
<1>10. ASSUME NEW t \in Turn, TurnRaises(t)
       PROVE  IInv'
  BY <1>10 DEF TurnRaises, IInv, TypeOK, StatusHasCause, InFlight
<1>11. CASE Restart
  BY <1>11 DEF Restart, IInv, TypeOK, StatusHasCause, InFlight
<1>12. CASE UNCHANGED vars
  BY <1>12 DEF vars, IInv, TypeOK, StatusHasCause, InFlight
<1>13. QED
  BY <1>1, <1>2, <1>3, <1>4, <1>6, <1>7, <1>8, <1>9, <1>10, <1>11, <1>12 DEF Steps

LEMMA Invariance == Spec => []IInv
BY InitIInv, StepIInv, PTL DEF Spec

\* A status in the store always has its cause, stale writes included.
THEOREM StatusCaused == Spec => []StatusHasCause
<1>1. IInv => StatusHasCause
  BY DEF IInv
<1>2. QED
  BY <1>1, Invariance, PTL

\* What the user was told is stopped is never started again: a start needs a
\* pending record, and no write takes a stopped record back to pending.
THEOREM StopFinal == Spec => StopIsFinal
<1>1. IInv /\ [Next]_vars => [\A r \in stopped : starts'[r] = starts[r]]_vars
  <2> SUFFICES ASSUME IInv, Steps, NEW r \in stopped PROVE starts'[r] = starts[r]
    BY NextIsSteps
  <2>1. CASE \E t \in Turn, req \in Request : ExecuteConfirmedPending(t, req)
    <3>1. PICK q \in Record : status[q] = "pending" /\ starts' = [starts EXCEPT ![q] = @ + 1]
      BY <2>1 DEF ExecuteConfirmedPending, Pending
    <3>2. q # r /\ r \in Record
      BY <3>1 DEF IInv, TypeOK
    <3>3. QED
      BY <3>1, <3>2 DEF IInv, TypeOK
  <2>2. CASE ~ \E t \in Turn, req \in Request : ExecuteConfirmedPending(t, req)
    BY <2>2 DEF Steps, InterruptedResult, CancelPendingResult, SavePendingConfirmation,
                ExecuteCommand, RunVoiceWorkflow, MaybeSynthesize, FinishTurn, TurnRaises,
                Restart, vars
  <2>3. QED
    BY <2>1, <2>2
<1>2. QED
  BY <1>1, Invariance, PTL DEF Spec, StopIsFinal

-----------------------------------------------------------------------------
(* A client that waits for each answer, in behaviours without a fault. *)

Serial == (\E t \in Turn : Turn = {t}) /\ MaxFaults = 0

SerialInv ==
    /\ IInv
    /\ \A t \in Turn : turn[t].pc = "idle" => turn[t].rec = NoRecord
    /\ \A r \in Record :
         /\ starts[r] <= 1
         /\ InFlight(r) # {} => status[r] = "pending"
         /\ status[r] = "pending" /\ InFlight(r) = {} => starts[r] = 0

\* A step that moves the stage of one record as the gate allows.
LEMMA GateStep ==
    ASSUME NEW r \in Record, NEW a, NEW b,
           <<a, b>> \in {<<"absent", "pending">>, <<"pending", "running">>,
                        <<"running", "closed">>, <<"pending", "withdrawn">>},
           stage[r] = a, stage'[r] = b,
           \A q \in Record : q # r => stage'[q] = stage[q]
    PROVE  [Gate!Next]_stage
<1>1. stage' = [stage EXCEPT ![r] = b]
  BY DEF stage
<1>2. QED
  BY <1>1 DEF Gate!Next, Gate!Announce, Gate!Approve, Gate!Close, Gate!Withdraw, Gate!Move

LEMMA GateStutter ==
    ASSUME \A q \in Record : stage'[q] = stage[q]
    PROVE  [Gate!Next]_stage
BY DEF stage

\* Every step of a serial client keeps the invariant and is a step of the gate.
LEMMA SerialStep ==
    ASSUME Serial, SerialInv, IInv', Steps
    PROVE  SerialInv' /\ [Gate!Next]_stage
<1> USE DEF Token, Suspended
<1>0. PICK t \in Turn : Turn = {t}
  BY DEF Serial
<1>1. \A r \in Record : /\ InFlight(r) # {} <=> turn[t].rec = r
                        /\ InFlight(r)' # {} <=> turn'[t].rec = r
  BY <1>0 DEF InFlight
<1>2. \A r \in Record :
         /\ stage[r] = IF turn[t].rec = r THEN "running" ELSE Settled(status[r])
         /\ stage'[r] = IF turn'[t].rec = r THEN "running" ELSE Settled(status'[r])
  BY <1>1 DEF stage
<1>3. TypeOK /\ TypeOK'
  BY DEF SerialInv, IInv
<1>4. ASSUME turn' = turn, starts' = starts, turn[t].pc = "idle",
             NEW r \in Record, NEW s, status' = [status EXCEPT ![r] = s],
             \/ status[r] = "pending" /\ s \in {"interrupted", "cancelled"}
             \/ status[r] = "absent" /\ s = "pending"
      PROVE  SerialInv' /\ [Gate!Next]_stage
  <2>1. turn[t].rec = NoRecord
    BY <1>4 DEF SerialInv
  <2>2. status[r] = "absent" => starts[r] = 0
    BY DEF SerialInv, IInv, StatusHasCause
  <2>3. SerialInv'
    BY <1>0, <1>1, <1>3, <1>4, <2>1, <2>2 DEF SerialInv, TypeOK
  <2>4. /\ stage[r] = status[r] /\ stage'[r] = Settled(s)
        /\ \A q \in Record : q # r => stage'[q] = stage[q]
    BY <1>2, <1>3, <1>4, <2>1 DEF Settled, TypeOK
  <2>5. QED
    BY <1>4, <2>3, <2>4, GateStep DEF Settled
<1>5. CASE \E u \in Turn, req \in Request : InterruptedResult(u, req)
  BY <1>0, <1>4, <1>5 DEF InterruptedResult, Pending, Write
<1>6. CASE \E u \in Turn, req \in Request : CancelPendingResult(u, req)
  BY <1>0, <1>4, <1>6 DEF CancelPendingResult, Pending, Write
<1>7. CASE \E u \in Turn, req \in Request : SavePendingConfirmation(u, req)
  BY <1>0, <1>4, <1>7 DEF SavePendingConfirmation, Write
<1>8. CASE \E u \in Turn, req \in Request : ExecuteConfirmedPending(u, req)
  <2>1. PICK req \in Request, r \in Record :
          /\ turn[t].pc = "idle"
          /\ status[r] = "pending"
          /\ turn' = [turn EXCEPT ![t] = [pc |-> "executing", rec |-> r]]
          /\ starts' = [starts EXCEPT ![r] = @ + 1]
          /\ status' = status
    BY <1>0, <1>8 DEF ExecuteConfirmedPending, Pending, StartTurn
  <2>2. turn[t].rec = NoRecord /\ turn'[t].rec = r /\ turn'[t].pc = "executing"
    BY <1>3, <2>1 DEF SerialInv, TypeOK
  <2>3. starts[r] = 0
    BY <1>1, <2>1, <2>2 DEF SerialInv
  <2>4. SerialInv'
    BY <1>0, <1>1, <1>3, <2>1, <2>2, <2>3 DEF SerialInv, TypeOK
  <2>5. /\ stage[r] = "pending" /\ stage'[r] = "running"
        /\ \A q \in Record : q # r => stage'[q] = stage[q]
    BY <1>2, <2>1, <2>2 DEF Settled
  <2>6. QED
    BY <2>4, <2>5, GateStep
<1>9. ASSUME UNCHANGED <<status, starts>>, turn'[t].rec = turn[t].rec,
             turn'[t].pc = "idle" => turn'[t].rec = NoRecord
      PROVE  SerialInv' /\ [Gate!Next]_stage
  <2>1. SerialInv'
    BY <1>0, <1>1, <1>9 DEF SerialInv
  <2>2. \A q \in Record : stage'[q] = stage[q]
    BY <1>2, <1>9
  <2>3. QED
    BY <2>1, <2>2, GateStutter
<1>10. CASE \/ \E u \in Turn, req \in Request : ExecuteCommand(u, req)
            \/ \E u \in Turn : RunVoiceWorkflow(u) \/ MaybeSynthesize(u)
            \/ UNCHANGED vars
  <2>1. CASE \E u \in Turn, req \in Request : ExecuteCommand(u, req)
    BY <1>0, <1>3, <1>9, <2>1 DEF ExecuteCommand, StartTurn, SerialInv, TypeOK
  <2>2. CASE \E u \in Turn : RunVoiceWorkflow(u)
    BY <1>0, <1>3, <1>9, <2>2 DEF RunVoiceWorkflow, StartTurn, SerialInv, TypeOK
  <2>3. CASE \E u \in Turn : MaybeSynthesize(u)
    BY <1>0, <1>3, <1>9, <2>3 DEF MaybeSynthesize, TypeOK
  <2>4. CASE UNCHANGED vars
    BY <1>0, <1>9, <2>4 DEF vars, SerialInv
  <2>5. QED
    BY <1>10, <2>1, <2>2, <2>3, <2>4
<1>11. CASE \E u \in Turn : FinishTurn(u)
  <2>1. /\ turn' = [turn EXCEPT ![t] = Idle] /\ starts' = starts
        /\ turn[t].rec = NoRecord => status' = status
        /\ turn[t].rec # NoRecord =>
               status' = [status EXCEPT ![turn[t].rec] = "executed"]
    BY <1>0, <1>11 DEF FinishTurn, Write
  <2>2. turn'[t].rec = NoRecord
    BY <1>3, <2>1 DEF TypeOK, Idle
  <2>3. CASE turn[t].rec = NoRecord
    BY <1>9, <2>1, <2>2, <2>3
  <2>4. CASE turn[t].rec # NoRecord
    <3> DEFINE r == turn[t].rec
    <3>1. r \in Record /\ status' = [status EXCEPT ![r] = "executed"]
      BY <1>3, <2>1, <2>4 DEF TypeOK
    <3>2. turn[t].rec = r
      OBVIOUS
    <3> HIDE DEF r
    <3>3. SerialInv'
      BY <1>0, <1>1, <1>3, <2>1, <2>2, <3>1, <3>2 DEF SerialInv, TypeOK
    <3>4. /\ stage[r] = "running" /\ stage'[r] = "closed"
          /\ \A q \in Record : q # r => stage'[q] = stage[q]
      <4>1. status'[r] = "executed" /\ \A q \in Record : q # r => status'[q] = status[q]
        BY <1>3, <3>1 DEF TypeOK
      <4>2. \A q \in Record : (turn[t].rec = q) = (q = r)
        BY <3>2
      <4>3. \A q \in Record : turn'[t].rec # q
        BY <2>2, <1>3 DEF TypeOK
      <4>4. QED
        BY <1>2, <3>1, <4>1, <4>2, <4>3 DEF Settled
    <3>5. QED
      BY <3>1, <3>3, <3>4, GateStep
  <2>5. QED
    BY <2>3, <2>4
<1>12. CASE (\E u \in Turn : TurnRaises(u)) \/ Restart
  BY <1>3, <1>12 DEF TurnRaises, Restart, TypeOK, Serial
<1>13. QED
  BY <1>5, <1>6, <1>7, <1>8, <1>10, <1>11, <1>12 DEF Steps

LEMMA SerialInit == Init => SerialInv /\ Gate!Init
<1> SUFFICES ASSUME Init PROVE SerialInv /\ Gate!Init
  OBVIOUS
<1>1. \A r \in Record : InFlight(r) = {} /\ stage[r] = "absent"
  BY DEF Init, InFlight, Idle, stage, Settled
<1>2. SerialInv
  BY <1>1, InitIInv DEF Init, SerialInv, Idle
<1>3. QED
  BY <1>1, <1>2 DEF Gate!Init, stage

\* A serial client without faults gets the promise of ApprovalGate: announced
\* once, then withdrawn for good or run once and closed.
THEOREM SerialImplementsGate == ASSUME Serial PROVE Spec => GateSpec
<1>1. SerialInv /\ [Next]_vars => SerialInv' /\ [Gate!Next]_stage
  BY SerialStep, NextIsSteps, StepIInv DEF SerialInv
<1>2. QED
  BY <1>1, SerialInit, PTL DEF Spec, GateSpec, Gate!Spec

\* ... and one confirmation request leads to at most one execution.
THEOREM SerialAtMostOnce == ASSUME Serial PROVE Spec => []AtMostOnce
<1>1. SerialInv /\ [Next]_vars => SerialInv'
  BY SerialStep, NextIsSteps, StepIInv DEF SerialInv
<1>2. SerialInv => AtMostOnce
  BY DEF SerialInv, AtMostOnce
<1>3. QED
  BY <1>1, <1>2, SerialInit, PTL DEF Spec
=================================================================================
