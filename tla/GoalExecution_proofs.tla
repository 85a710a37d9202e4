------------------------- MODULE GoalExecution_proofs -------------------------
(***************************************************************************)
(* Proofs about GoalExecution, for every set of enabled providers, every   *)
(* set of goal words and every number of failed writes.                    *)
(*                                                                         *)
(* The verdict of an answer is about its text because no answer exists     *)
(* while an execution runs and whatever is saved has just been judged.     *)
(* What was sent stays local because what is left to try does.             *)
(***************************************************************************)
EXTENDS GoalExecution, FiniteSetTheorems, TLAPS

\* The calls that have to stay local.
LocalCall(call) == cfg.localOnly \/ (req.local /\ call \in {"critique", "improve"})

RestIsLocal == pc \in BrainCall /\ LocalCall(pc) => rest \subseteq LocalProvider

\* Every text that is saved was judged, and an improved text was asked for.
Judging ==
    /\ pc # "idle" => answer = NoAnswer
    /\ pc = "saving" => checked.of = output
    /\ pc = "improve" \/ output = "improved" => req.auto_improve

\* An answered last step left a text that is not an error.
StepsLeaveText ==
    /\ pc = "architect" => "execute" \notin steps
    /\ pc = "execute" => "execute" \notin steps
    /\ pc \notin {"architect", "execute"} /\ "execute" \in steps
            => output \in {"produced", "improved"}

\* The goals LocalCodingFirst is about.
LocalCoding ==
    /\ req.flow = "execute_goal" /\ Private
    /\ "code" \in req.words /\ "voice" \notin req.words
    /\ "ollama_coding" \in cfg.enabled

\* Until it is sent such a goal, the local coding model is waiting its turn.
CodingModelWaits ==
    /\ LocalCoding /\ pc = "execute"
            => "ollama_coding" \in rest \/ <<"ollama_coding", "execute">> \in sent
    /\ pc = "architect" => \A s \in sent : s[2] # "execute"

IInv == /\ TypeOK /\ RestIsLocal /\ VerifierStaysLocal
        /\ Judging /\ StepsLeaveText /\ VerdictIsAboutOutput /\ CompletedIsBacked
        /\ CodingModelWaits /\ LocalCodingFirst

-----------------------------------------------------------------------------
(* The router *)

\* Only enabled providers are ranked, and only local ones for a local request.
LEMMA CapableIsCandidate ==
    ASSUME NEW c, NEW r
    PROVE  /\ Capable(c, r) \subseteq c.enabled
           /\ LocalAsked(c, r) => Capable(c, r) \subseteq LocalProvider
BY DEF Capable, Candidates

\* At most two capabilities match a request for two.
LEMMA TwoNeeds ==
    ASSUME NEW S \in SUBSET {"coding", "reasoning"}
    PROVE  Cardinality(S) \in 0..2
<1>1. IsFiniteSet({"coding", "reasoning"}) /\ Cardinality({"coding", "reasoning"}) = 2
  <2>1. IsFiniteSet({"coding"}) /\ Cardinality({"coding"}) = 1
    BY FS_Singleton
  <2>2. {"coding", "reasoning"} = {"coding"} \cup {"reasoning"}
    OBVIOUS
  <2> QED BY <2>1, <2>2, FS_AddElement
<1>2. IsFiniteSet(S) /\ Cardinality(S) <= 2
  BY <1>1, FS_Subset
<1> QED BY <1>2, FS_CardinalityType

\* What a score adds up from.
LEMMA ScoreParts ==
    ASSUME NEW c, NEW r, NEW q \in Provider, NEW m \in 0..2,
           Cardinality(r.caps \cap Capabilities[q]) = m
    PROVE  \E near \in {0, 40}, default \in {0, 5}, low \in {0, 20} :
              Score(c, r, q) = 10 * m + (IF q = r.preferred THEN 50 ELSE 0) + near + default - low
<1> DEFINE near == IF q \in LocalProvider /\ LocalAsked(c, r) THEN 40 ELSE 0
           default == IF q = c.default THEN 5 ELSE 0
           low == IF q = "mock" THEN 20 ELSE 0
<1>1. Score(c, r, q) = 10 * m + (IF q = r.preferred THEN 50 ELSE 0) + near + default - low
  BY DEF Score
<1>2. near \in {0, 40} /\ default \in {0, 5} /\ low \in {0, 20}
  OBVIOUS
<1> HIDE DEF near, default, low
<1> QED BY <1>1, <1>2

\* For a coding step that prefers it, the local coding model outranks every
\* other provider.
LEMMA CodingModelOutranks ==
    ASSUME NEW c, NEW r, NEW p \in Provider, p # "ollama_coding",
           r.caps = {"coding", "reasoning"}, r.preferred = "ollama_coding"
    PROVE  ~ Before(c, r, p, "ollama_coding")
<1>1. PICK m \in 0..2 : Cardinality(r.caps \cap Capabilities[p]) = m
  BY TwoNeeds
<1>2. PICK near \in {0, 40}, default \in {0, 5}, low \in {0, 20} :
         Score(c, r, p) = 10 * m + 0 + near + default - low
  BY <1>1, ScoreParts
<1>3. Cardinality(r.caps \cap Capabilities["ollama_coding"]) = 2
  <2>1. r.caps \cap Capabilities["ollama_coding"] = {"coding"} \cup {"reasoning"}
    BY DEF Capabilities, Provider
  <2>2. IsFiniteSet({"coding"}) /\ Cardinality({"coding"}) = 1
    BY FS_Singleton
  <2>3. Cardinality({"coding"} \cup {"reasoning"}) = 2
    BY <2>2, FS_AddElement
  <2> QED BY <2>1, <2>3
<1>4. Score(c, r, "ollama_coding") \in Int /\ Score(c, r, "ollama_coding") >= 70
  <2>1. "ollama_coding" \in Provider /\ "ollama_coding" # "mock"
    BY DEF Provider
  <2> DEFINE near2 == IF "ollama_coding" \in LocalProvider /\ LocalAsked(c, r) THEN 40 ELSE 0
             default2 == IF "ollama_coding" = c.default THEN 5 ELSE 0
  <2>2. Score(c, r, "ollama_coding") = 10 * 2 + 50 + near2 + default2 - 0
    BY <1>3, <2>1 DEF Score
  <2>3. near2 \in {0, 40} /\ default2 \in {0, 5}
    OBVIOUS
  <2> HIDE DEF near2, default2
  <2> QED BY <2>2, <2>3
<1>5. Score(c, r, p) \in Int /\ Score(c, r, p) <= 65
  BY <1>2
<1>6. ~ (Score(c, r, p) > Score(c, r, "ollama_coding"))
  BY <1>4, <1>5
<1>7. Score(c, r, p) # Score(c, r, "ollama_coding")
  BY <1>4, <1>5
<1> QED BY <1>6, <1>7 DEF Before

\* A prompt goes to a provider that is left, for the call that is running.
LEMMA PromptStep ==
    ASSUME TypeOK, RestIsLocal, NEW p \in Provider, Prompt(p)
    PROVE  /\ pc \in BrainCall /\ p \in rest
           /\ sent' = sent \cup {<<p, pc>>}
           /\ sent' \subseteq Provider \X BrainCall
           /\ LocalCall(pc) => p \in LocalProvider
BY DEF Prompt, IsFirst, TypeOK, RestIsLocal, BrainCall

\* A call starts with the capable providers, local ones if it has to be local.
LEMMA CallStep ==
    ASSUME NEW call \in BrainCall, StartCall(call), cfg' = cfg, req' = req
    PROVE  /\ pc' = call
           /\ rest' \subseteq cfg.enabled
           /\ LocalCall(call) => rest' \subseteq LocalProvider
<1>1. LocalCall(call) => LocalAsked(cfg, BrainRequest(call))
  BY DEF LocalCall, LocalAsked, BrainRequest
<1> QED BY <1>1, CapableIsCandidate DEF StartCall

\* A coding step of a private goal prefers the local coding model, which can do
\* all of it.
LEMMA CodingRequest ==
    ASSUME LocalCoding, cfg.enabled \subseteq Provider
    PROVE  /\ BrainRequest("execute").caps = {"coding", "reasoning"}
           /\ BrainRequest("execute").preferred = "ollama_coding"
           /\ "ollama_coding" \in Capable(cfg, BrainRequest("execute"))
<1>1. RouteTask(req.words, Private) = "MiniMax/Coding via Ollama"
  BY DEF LocalCoding, RouteTask, RouterCoding
<1>2. Preferred = "ollama_coding"
  BY <1>1 DEF LocalCoding, Preferred, PreferredBrain
<1>3. BrainRequest("execute") =
        [caps |-> {"coding", "reasoning"}, preferred |-> "ollama_coding", local |-> FALSE]
  BY <1>2 DEF BrainRequest, LocalCoding, IntentCoding
<1>4. {"coding", "reasoning"} \subseteq Capabilities["ollama_coding"]
  BY DEF Capabilities
<1>5. "ollama_coding" \in LocalProvider
  BY DEF LocalProvider, Provider, Capabilities
<1>6. "ollama_coding" \in Candidates(cfg, BrainRequest("execute"))
  BY <1>5 DEF Candidates, LocalCoding
<1> QED BY <1>3, <1>4, <1>6 DEF Capable

\* So it is prompted before any other provider that is left.
LEMMA CodingModelIsPrompted ==
    ASSUME TypeOK, GoalAssumption, LocalCoding, pc = "execute", "ollama_coding" \in rest,
           NEW p \in Provider, Prompt(p)
    PROVE  p = "ollama_coding"
<1>1. cfg.enabled \subseteq Provider
  BY DEF TypeOK, GoalAssumption
<1>2. p # "ollama_coding" => Before(cfg, BrainRequest("execute"), p, "ollama_coding")
  BY DEF Prompt, IsFirst
<1> QED BY <1>1, <1>2, CodingRequest, CodingModelOutranks

-----------------------------------------------------------------------------
(* The inductive invariant *)

LEMMA InitInvariant == Init => IInv
<1> SUFFICES ASSUME Init PROVE IInv
  OBVIOUS
<1>1. TypeOK
  BY GoalAssumption DEF Init, TypeOK, Request, Text, NoAnswer, Provider, BrainCall
<1>2. RestIsLocal /\ VerifierStaysLocal /\ CodingModelWaits /\ LocalCodingFirst
  BY DEF Init, RestIsLocal, BrainCall, VerifierStaysLocal, CodingModelWaits, LocalCodingFirst
<1>3. Judging /\ StepsLeaveText /\ VerdictIsAboutOutput /\ CompletedIsBacked
  BY DEF Init, Judging, StepsLeaveText, VerdictIsAboutOutput, CompletedIsBacked, NoAnswer
<1> QED BY <1>1, <1>2, <1>3 DEF IInv

\* A new request forgets what the last one was sent and answered.
LEMMA ReceiveInvariant == ASSUME IInv, Receive PROVE IInv'
<1> USE DEF Receive
<1>1. rest' \subseteq cfg.enabled /\ (cfg.localOnly => rest' \subseteq LocalProvider)
  <2>1. cfg.localOnly => LocalAsked(cfg, BrainRequest("architect")')
    BY DEF LocalAsked
  <2> QED BY <2>1, CapableIsCandidate
<1>2. TypeOK'
  BY <1>1 DEF IInv, TypeOK, Request, Text, NoAnswer, BrainCall
<1>3. RestIsLocal' /\ VerifierStaysLocal' /\ CodingModelWaits' /\ LocalCodingFirst'
  BY <1>1 DEF RestIsLocal, LocalCall, VerifierStaysLocal, CodingModelWaits, LocalCodingFirst
<1>4. Judging' /\ StepsLeaveText' /\ VerdictIsAboutOutput' /\ CompletedIsBacked'
  BY DEF Judging, StepsLeaveText, VerdictIsAboutOutput, CompletedIsBacked, NoAnswer
<1> QED BY <1>2, <1>3, <1>4 DEF IInv

\* Prompting one more provider keeps what was sent local, and the local coding
\* model first.
LEMMA PromptKeeps ==
    ASSUME IInv, NEW p \in Provider, Prompt(p), cfg' = cfg, req' = req
    PROVE  /\ VerifierStaysLocal'
           /\ LocalCodingFirst'
           /\ LocalCoding /\ pc = "execute"
                => "ollama_coding" \in rest \ {p} \/ <<"ollama_coding", "execute">> \in sent'
           /\ pc # "execute" => \A s \in sent' : s[2] = "execute" => s \in sent
<1>1. /\ pc \in BrainCall
      /\ sent' = sent \cup {<<p, pc>>}
      /\ LocalCall(pc) => p \in LocalProvider
  BY PromptStep DEF IInv
<1>2. VerifierStaysLocal'
  BY <1>1 DEF IInv, VerifierStaysLocal, LocalCall
<1>3. LocalCoding /\ pc = "execute"
        => "ollama_coding" \in rest \ {p} \/ <<"ollama_coding", "execute">> \in sent'
  BY <1>1, CodingModelIsPrompted, GoalAssumption DEF IInv, CodingModelWaits
<1>4. LocalCoding /\ pc = "execute" => <<"ollama_coding", "execute">> \in sent'
  BY <1>1, CodingModelIsPrompted, GoalAssumption DEF IInv, CodingModelWaits
<1>5. LocalCodingFirst'
  <2> SUFFICES ASSUME LocalCoding, NEW s \in sent', s[2] = "execute"
               PROVE  <<"ollama_coding", "execute">> \in sent'
    BY DEF LocalCodingFirst, LocalCoding, Private
  <2>1. CASE pc = "execute"
    BY <2>1, <1>4
  <2>2. CASE pc # "execute"
    BY <2>2, <1>1 DEF IInv, LocalCodingFirst, LocalCoding
  <2> QED BY <2>1, <2>2
<1> QED BY <1>1, <1>2, <1>3, <1>5

LEMMA ProviderFailsInvariant == ASSUME IInv, NEW p \in Provider, ProviderFails(p) PROVE IInv'
<1> USE DEF ProviderFails
<1>1. /\ pc \in BrainCall /\ sent' \subseteq Provider \X BrainCall
      /\ sent' = sent \cup {<<p, pc>>}
  BY PromptStep DEF IInv
<1>2. TypeOK'
  BY <1>1 DEF IInv, TypeOK
<1>3. RestIsLocal'
  BY DEF IInv, RestIsLocal, LocalCall
<1>4. VerifierStaysLocal' /\ LocalCodingFirst'
  BY PromptKeeps
<1>5. CodingModelWaits'
  <2>1. LocalCoding' <=> LocalCoding
    BY DEF LocalCoding, Private
  <2>2. pc = "architect" => \A s \in sent' : s[2] # "execute"
    BY <1>1 DEF IInv, CodingModelWaits
  <2> QED BY <2>1, <2>2, PromptKeeps DEF CodingModelWaits
<1>6. Judging' /\ StepsLeaveText' /\ VerdictIsAboutOutput' /\ CompletedIsBacked'
  BY DEF IInv, Judging, StepsLeaveText, VerdictIsAboutOutput, CompletedIsBacked, Writes
<1> QED BY <1>2, <1>3, <1>4, <1>5, <1>6 DEF IInv

\* A step that ends hands over to the next one, or leaves a text to be verified.
LEMMA StepEndsInvariant ==
    ASSUME IInv, pc \in {"architect", "execute"}, NEW ok \in BOOLEAN, StepEnds(ok),
           faults' \in Nat, sent' \subseteq Provider \X BrainCall,
           VerifierStaysLocal', LocalCodingFirst',
           pc = "architect" => \A s \in sent' : s[2] # "execute"
    PROVE  IInv'
<1> USE DEF StepEnds
<1>1. CASE pc = "architect"
  <2>1. /\ pc' = "execute" /\ rest' \subseteq cfg.enabled
        /\ LocalCall("execute") => rest' \subseteq LocalProvider
    BY <1>1, CallStep DEF BrainCall
  <2>2. TypeOK'
    BY <2>1, <1>1 DEF IInv, TypeOK, BrainCall
  <2>3. RestIsLocal'
    BY <2>1 DEF RestIsLocal, LocalCall
  <2>4. CodingModelWaits'
    <3>1. LocalCoding' => LocalCoding
      BY DEF LocalCoding, Private
    <3>2. LocalCoding => "ollama_coding" \in rest'
      BY <1>1, CodingRequest, GoalAssumption DEF IInv, TypeOK, StartCall
    <3> QED BY <3>1, <3>2, <2>1 DEF CodingModelWaits
  <2>5. Judging' /\ StepsLeaveText' /\ VerdictIsAboutOutput' /\ CompletedIsBacked'
    BY <1>1, <2>1 DEF IInv, Judging, StepsLeaveText, VerdictIsAboutOutput, CompletedIsBacked,
                     Writes, NoAnswer
  <2> QED BY <2>2, <2>3, <2>4, <2>5 DEF IInv
<1>2. CASE pc = "execute"
  <2>1. pc' = "verify" /\ rest' = {} /\ output' = IF ok THEN "produced" ELSE "error"
    BY <1>2 DEF EndCall
  <2>2. TypeOK'
    BY <2>1, <1>2 DEF IInv, TypeOK, Text
  <2>3. RestIsLocal' /\ CodingModelWaits'
    BY <2>1 DEF RestIsLocal, BrainCall, CodingModelWaits
  <2>4. Judging' /\ StepsLeaveText' /\ VerdictIsAboutOutput' /\ CompletedIsBacked'
    BY <1>2, <2>1 DEF IInv, Judging, StepsLeaveText, VerdictIsAboutOutput, CompletedIsBacked,
                     Writes, NoAnswer
  <2> QED BY <2>2, <2>3, <2>4 DEF IInv
<1> QED BY <1>1, <1>2

LEMMA StepAnsweredInvariant == ASSUME IInv, NEW p \in Provider, StepAnswered(p) PROVE IInv'
<1> USE DEF StepAnswered
<1>1. sent' \subseteq Provider \X BrainCall
  BY PromptStep DEF IInv
<1>2. cfg' = cfg /\ req' = req
  BY DEF StepEnds
<1>3. VerifierStaysLocal' /\ LocalCodingFirst'
  BY <1>2, PromptKeeps
<1>4. pc = "architect" => \A s \in sent' : s[2] # "execute"
  BY <1>2, PromptKeeps DEF IInv, CodingModelWaits
<1>5. faults' \in Nat
  BY DEF IInv, TypeOK
<1> QED BY <1>1, <1>3, <1>4, <1>5, StepEndsInvariant

LEMMA StepFailsInvariant == ASSUME IInv, StepFails PROVE IInv'
<1> USE DEF StepFails
<1>1. cfg' = cfg /\ req' = req
  BY DEF StepEnds
<1>2. CASE rest = {} /\ UNCHANGED <<sent, faults>>
  <2>1. VerifierStaysLocal' /\ LocalCodingFirst'
    BY <1>1, <1>2 DEF IInv, VerifierStaysLocal, LocalCodingFirst, Private
  <2>2. pc = "architect" => \A s \in sent' : s[2] # "execute"
    BY <1>2 DEF IInv, CodingModelWaits
  <2>3. sent' \subseteq Provider \X BrainCall /\ faults' \in Nat
    BY <1>2 DEF IInv, TypeOK
  <2> QED BY <2>1, <2>2, <2>3, StepEndsInvariant
<1>3. CASE /\ \E p \in rest : Prompt(p)
           /\ faults < MaxFaults
           /\ faults' = faults + 1
  <2>1. PICK p \in rest : Prompt(p)
    BY <1>3
  <2>2. p \in Provider
    BY GoalAssumption DEF IInv, TypeOK
  <2>3. sent' \subseteq Provider \X BrainCall
    BY <2>1, <2>2, PromptStep DEF IInv
  <2>4. VerifierStaysLocal' /\ LocalCodingFirst'
    BY <1>1, <2>1, <2>2, PromptKeeps
  <2>5. pc = "architect" => \A s \in sent' : s[2] # "execute"
    BY <1>1, <2>1, <2>2, PromptKeeps DEF IInv, CodingModelWaits
  <2>6. faults' \in Nat
    BY <1>3 DEF IInv, TypeOK
  <2> QED BY <2>3, <2>4, <2>5, <2>6, StepEndsInvariant
<1> QED BY <1>2, <1>3

\* After a verdict the text is saved, or improved if that was asked for.
LEMMA JudgedInvariant ==
    ASSUME IInv, pc \in {"verify", "critique"}, NEW ok \in BOOLEAN, Judged(ok),
           UNCHANGED <<cfg, req, steps, output, stored, answer, faults>>,
           sent' \subseteq Provider \X BrainCall, VerifierStaysLocal', LocalCodingFirst'
    PROVE  IInv'
<1>1. /\ pc' \in {"improve", "saving"} /\ rest' \subseteq cfg.enabled
      /\ pc' = "improve" => /\ req.auto_improve
                            /\ LocalCall("improve") => rest' \subseteq LocalProvider
  BY CallStep DEF Judged, EndCall, BrainCall
<1>2. checked' = [of |-> output, ok |-> ok] /\ grade' = "none"
  BY DEF Judged
<1>3. TypeOK'
  BY <1>1, <1>2 DEF IInv, TypeOK, BrainCall
<1>4. RestIsLocal' /\ CodingModelWaits'
  BY <1>1 DEF RestIsLocal, LocalCall, BrainCall, CodingModelWaits
<1>5. Judging' /\ StepsLeaveText' /\ VerdictIsAboutOutput' /\ CompletedIsBacked'
  BY <1>1, <1>2 DEF IInv, Judging, StepsLeaveText, VerdictIsAboutOutput, CompletedIsBacked,
                   NoAnswer
<1> QED BY <1>3, <1>4, <1>5 DEF IInv

LEMMA VerifyInvariant == ASSUME IInv, Verify PROVE IInv'
<1> USE DEF Verify
<1>1. VerifierStaysLocal' /\ LocalCodingFirst'
  BY DEF IInv, VerifierStaysLocal, LocalCodingFirst, Private
<1>2. sent' \subseteq Provider \X BrainCall
  BY DEF IInv, TypeOK
<1>3. CASE Judged(TRUE)
  BY <1>1, <1>2, <1>3, JudgedInvariant
<1>4. CASE StartCall("critique") /\ grade' \in {"mid", "low"} /\ UNCHANGED checked
  <2>1. /\ pc' = "critique" /\ rest' \subseteq cfg.enabled
        /\ LocalCall("critique") => rest' \subseteq LocalProvider
    BY <1>4, CallStep DEF BrainCall
  <2>2. TypeOK'
    BY <1>4, <2>1 DEF IInv, TypeOK, BrainCall
  <2>3. RestIsLocal' /\ CodingModelWaits'
    BY <2>1 DEF RestIsLocal, LocalCall, CodingModelWaits
  <2>4. Judging' /\ StepsLeaveText' /\ VerdictIsAboutOutput' /\ CompletedIsBacked'
    BY <1>4, <2>1 DEF IInv, Judging, StepsLeaveText, VerdictIsAboutOutput, CompletedIsBacked,
                     NoAnswer
  <2> QED BY <1>1, <2>2, <2>3, <2>4 DEF IInv
<1> QED BY <1>3, <1>4

LEMMA CritiqueAnsweredInvariant ==
    ASSUME IInv, NEW p \in Provider, CritiqueAnswered(p) PROVE IInv'
<1> USE DEF CritiqueAnswered
<1>1. sent' \subseteq Provider \X BrainCall
  BY PromptStep DEF IInv
<1>2. VerifierStaysLocal' /\ LocalCodingFirst'
  BY PromptKeeps
<1> QED BY <1>1, <1>2, JudgedInvariant

LEMMA ImproveAnsweredInvariant ==
    ASSUME IInv, NEW p \in Provider, ImproveAnswered(p) PROVE IInv'
<1> USE DEF ImproveAnswered, EndCall
<1>1. sent' \subseteq Provider \X BrainCall
  BY PromptStep DEF IInv
<1>2. VerifierStaysLocal' /\ LocalCodingFirst'
  BY PromptKeeps
<1>3. TypeOK'
  BY <1>1 DEF IInv, TypeOK, Text
<1>4. RestIsLocal' /\ CodingModelWaits'
  BY DEF RestIsLocal, BrainCall, CodingModelWaits
<1>5. Judging' /\ StepsLeaveText' /\ VerdictIsAboutOutput' /\ CompletedIsBacked'
  BY DEF IInv, Judging, StepsLeaveText, VerdictIsAboutOutput, CompletedIsBacked, NoAnswer
<1> QED BY <1>2, <1>3, <1>4, <1>5 DEF IInv

\* An answer ends the execution and has an answer's type.
LEMMA AnswerStep ==
    ASSUME TypeOK, NEW kind \in {"completed", "failed", "raised"}, Answer(kind)
    PROVE  /\ pc' = "idle"
           /\ answer' \in [kind : {"none", "completed", "failed", "raised"}, ok : BOOLEAN,
                           of : Text, valid : BOOLEAN]
           /\ answer'.kind = kind
<1> DEFINE ok == kind = "completed" /\ steps = {"architect", "execute"}
           of == IF kind = "completed" THEN output ELSE "none"
           valid == kind = "completed" /\ checked.ok
<1>1. ok \in BOOLEAN /\ of \in Text /\ valid \in BOOLEAN
  BY DEF TypeOK, Text
<1>2. answer' = [kind |-> kind, ok |-> ok, of |-> of, valid |-> valid]
  BY DEF Answer
<1>3. pc' = "idle"
  BY DEF Answer
<1> HIDE DEF ok, of, valid
<1> QED BY <1>1, <1>2, <1>3

\* The end of an execution sends nothing and changes no text.
LEMMA EndInvariant ==
    ASSUME IInv, VerifierFails \/ Save \/ Fail
    PROVE  IInv'
<1>1. UNCHANGED <<cfg, req, steps, output, checked, sent>>
  BY DEF VerifierFails, Save, Fail
<1>2. VerifierStaysLocal' /\ LocalCodingFirst'
  BY <1>1 DEF IInv, VerifierStaysLocal, LocalCodingFirst, Private
<1>3. pc' \in {"idle", "failing"} /\ pc \notin {"idle", "architect", "execute"}
  BY DEF VerifierFails, EndCall, Save, Fail, Answer
<1>4. RestIsLocal' /\ CodingModelWaits' /\ StepsLeaveText'
  BY <1>1, <1>3 DEF IInv, RestIsLocal, BrainCall, CodingModelWaits, StepsLeaveText
<1>5. Len(Writes(req)) \in 1..6
  BY DEF Writes
<1>6. CASE VerifierFails
  <2>1. TypeOK'
    BY <1>6 DEF VerifierFails, EndCall, IInv, TypeOK
  <2>2. Judging' /\ VerdictIsAboutOutput' /\ CompletedIsBacked'
    BY <1>6, <1>3 DEF VerifierFails, EndCall, IInv, Judging, VerdictIsAboutOutput,
                     CompletedIsBacked, NoAnswer
  <2> QED BY <1>2, <1>4, <2>1, <2>2 DEF IInv
<1>7. CASE Save
  <2>1. TypeOK'
    <3>1. faults' \in Nat
      BY <1>7 DEF Save, IInv, TypeOK
    <3>2. stored' = Len(Writes(req)) \/ stored' \in 0..(Len(Writes(req)) - 1)
      BY <1>7 DEF Save
    <3>3. stored' \in 0..6
      <4>1. PICK n \in 1..6 : n = Len(Writes(req))
        BY <1>5
      <4>2. stored' = n \/ stored' \in 0..(n - 1)
        BY <3>2, <4>1
      <4> QED BY <4>2
    <3>4. CASE Answer("completed")
      BY <1>7, <3>1, <3>3, <3>4, AnswerStep DEF Save, IInv, TypeOK
    <3>5. CASE pc' = "failing" /\ UNCHANGED answer
      BY <1>7, <3>1, <3>3, <3>5 DEF Save, IInv, TypeOK
    <3> QED BY <1>7, <3>4, <3>5 DEF Save
  <2>2. Judging'
    BY <1>7, <1>3 DEF Save, Answer, IInv, Judging
  <2>3. answer.kind # "completed" /\ checked.of = output
    BY <1>7 DEF Save, IInv, Judging, NoAnswer
  <2>4. VerdictIsAboutOutput'
    BY <1>7, <2>3 DEF Save, Answer, VerdictIsAboutOutput
  <2>5. CompletedIsBacked'
    <3>1. CASE stored' = Len(Writes(req)) /\ Answer("completed")
      BY <1>1, <1>7, <3>1 DEF Save, Answer, IInv, Judging, StepsLeaveText, CompletedIsBacked,
                             Writes
    <3>2. CASE UNCHANGED answer
      BY <3>2, <2>3 DEF CompletedIsBacked
    <3> QED BY <1>7, <3>1, <3>2 DEF Save
  <2> QED BY <1>2, <1>4, <2>1, <2>2, <2>4, <2>5 DEF IInv
<1>8. CASE Fail
  <2>1. PICK kind \in {"failed", "raised"} : Answer(kind)
    BY <1>8 DEF Fail
  <2>2. TypeOK'
    BY <1>8, <2>1, AnswerStep DEF Fail, IInv, TypeOK
  <2>3. Judging' /\ VerdictIsAboutOutput' /\ CompletedIsBacked'
    BY <1>1, <2>1, AnswerStep DEF IInv, Judging, VerdictIsAboutOutput, CompletedIsBacked
  <2> QED BY <1>2, <1>4, <2>2, <2>3 DEF IInv
<1> QED BY <1>6, <1>7, <1>8

LEMMA NextInvariant == IInv /\ [Next]_vars => IInv'
<1> SUFFICES ASSUME IInv, [Next]_vars PROVE IInv'
  OBVIOUS
<1>1. CASE Receive
  BY <1>1, ReceiveInvariant
<1>2. CASE \E p \in Provider : ProviderFails(p)
  BY <1>2, ProviderFailsInvariant
<1>3. CASE \E p \in Provider : StepAnswered(p)
  BY <1>3, StepAnsweredInvariant
<1>4. CASE \E p \in Provider : CritiqueAnswered(p)
  BY <1>4, CritiqueAnsweredInvariant
<1>5. CASE \E p \in Provider : ImproveAnswered(p)
  BY <1>5, ImproveAnsweredInvariant
<1>6. CASE StepFails
  BY <1>6, StepFailsInvariant
<1>7. CASE Verify
  BY <1>7, VerifyInvariant
<1>8. CASE VerifierFails \/ Save \/ Fail
  BY <1>8, EndInvariant
<1>9. CASE UNCHANGED vars
  BY <1>9 DEF vars, IInv, TypeOK, RestIsLocal, LocalCall, VerifierStaysLocal, Judging,
             StepsLeaveText, VerdictIsAboutOutput, CompletedIsBacked, Writes,
             CodingModelWaits, LocalCoding, LocalCodingFirst, Private
<1> QED BY <1>1, <1>2, <1>3, <1>4, <1>5, <1>6, <1>7, <1>8, <1>9 DEF Next, Continue

LEMMA Invariant == Spec => []IInv
BY InitInvariant, NextInvariant, PTL DEF Spec

-----------------------------------------------------------------------------
(* Theorems *)

\* Every variable has its type: in particular the providers left to try are
\* enabled ones.
THEOREM TypeCorrect == Spec => []TypeOK
BY Invariant, PTL DEF IInv

\* The verdict in an answer is about the text in that answer.
THEOREM VerdictMatches == Spec => []VerdictIsAboutOutput
BY Invariant, PTL DEF IInv

\* A completed answer has all its writes committed, and its "ok" a text that is
\* not an error.
THEOREM CompletedBacked == Spec => []CompletedIsBacked
BY Invariant, PTL DEF IInv

\* What the verifier handles of a local_only goal, and everything in a local
\* deployment, stays with local providers through every fallback.
THEOREM VerifierLocal == Spec => []VerifierStaysLocal
BY Invariant, PTL DEF IInv

\* Whichever other providers are enabled, the local coding model is the first to
\* be sent the coding step of a private goal.
THEOREM CodingStartsLocal == Spec => []LocalCodingFirst
BY Invariant, PTL DEF IInv
================================================================================
