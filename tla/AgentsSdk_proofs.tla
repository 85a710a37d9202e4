--------------------------- MODULE AgentsSdk_proofs ---------------------------
(***************************************************************************)
(* Proofs about the agents SDK manager, for any number of runs and any     *)
(* requests, outputs and tool calls.  The invariant is about one run and   *)
(* its rows: what it holds while it is suspended is what its result will   *)
(* need when the run resumes.                                              *)
(***************************************************************************)
EXTENDS AgentsSdk, RecursionTheorems, SequenceTheorems, TLAPS

InProgress == {"step", "sdk", "local"}

Cur(s) == IF s.req.kind = "workflow" THEN Plan[s.at] ELSE s.req.agent

Unflagged(text) == BlockedFindings(Prompt(text), "standard") = {}

\* The tools of an agent and of those it hands off to.
InReach(a, uses) ==
    \A use \in uses : \E b \in {a} \cup Registry[a].handoffs : use[1] \in Registry[b].tools

ResultFine(x) ==
    /\ x.runtime # "guardrail_blocked" => Unflagged(x.given)
    /\ x.runtime = "openai_agents_sdk" =>
         CanUseOpenAI /\ ~NeedsApproval(x.agent) /\ InReach(x.agent, x.tools)

\* A run in the middle of its work.
WorkFine(s) ==
    /\ s.pc \in {"sdk", "local"} => Cur(s) \in Agent /\ Unflagged(s.req.text \cup s.context)
    /\ s.pc = "sdk" =>
         /\ CanUseOpenAI /\ InReach(Cur(s), s.used)
         /\ s.active \in {Cur(s)} \cup Registry[Cur(s)].handoffs
    /\ s.pc \in InProgress => s.req \in Requests[cfg.load]
    /\ s.pc = "step" => s.used = {}

\* The results are those of the plan's first steps.
OrderFine(s) ==
    s.req.kind = "workflow" =>
        /\ \A i \in DOMAIN s.results :
             s.results[i].agent = Plan[i] /\ (i < Len(s.results) => s.results[i].ok)
        /\ s.pc \in InProgress =>
             s.at = Len(s.results) + 1 /\ \A i \in DOMAIN s.results : s.results[i].ok

Matches(row, result) ==
    /\ [row EXCEPT !.reason = result.reason] = result
    /\ row.reason # result.reason => result.reason = "sdk_failed"

RowsFine(s, w) ==
    /\ Len(w) \in {Len(s.results), Len(s.results) + 1}
    /\ s.pc \notin {"raised", "lost"} => Len(w) = Len(s.results)
    /\ \A i \in DOMAIN s.results : Matches(w[i], s.results[i])

RunFine(s, w) ==
    /\ \A i \in DOMAIN s.results : ResultFine(s.results[i])
    /\ WorkFine(s) /\ OrderFine(s) /\ RowsFine(s, w)
    /\ s.pc = "idle" => s = Free /\ w = <<>>

SdkInv == TypeOK /\ \A r \in Run : RunFine(run[r], rows[r])

-----------------------------------------------------------------------------
(* Facts about sequences and the registry *)

LEMMA AppendFacts ==
    ASSUME NEW S, NEW q \in Seq(S), NEW x \in S
    PROVE  /\ Append(q, x) \in Seq(S) /\ Len(Append(q, x)) = Len(q) + 1
           /\ DOMAIN Append(q, x) = DOMAIN q \cup {Len(q) + 1}
           /\ Append(q, x)[Len(q) + 1] = x
           /\ \A i \in DOMAIN q : Append(q, x)[i] = q[i] /\ i <= Len(q)
OBVIOUS

LEMMA EmptyFacts == \A S : <<>> \in Seq(S) /\ Len(<<>>) = 0 /\ {} \in SUBSET S
OBVIOUS

LEMMA PlanFacts == Len(Plan) = 5 /\ \A i \in 1..5 : Plan[i] \in Agent
BY DEF Plan, Agent, Registry

LEMMA EntryFacts ==
    \A a \in Agent : Registry[a].handoffs \subseteq Agent
<1>1. \A e \in {"assistant", "coding", "research", "security", "memory", "workflow", "voice",
                "edge", "job", "semiconductor", "verification"} :
        Registry[e].handoffs \subseteq {"assistant", "coding", "research", "security", "memory",
            "workflow", "voice", "edge", "job", "semiconductor", "verification"}
  BY DEF Registry, Entry
<1>2. Agent = {"assistant", "coding", "research", "security", "memory", "workflow", "voice",
               "edge", "job", "semiconductor", "verification"}
  BY DEF Agent, Registry
<1> QED BY <1>1, <1>2

LEMMA NewestTypes ==
    ASSUME NEW S, NEW q \in Seq(S)
    PROVE  Newest(q) \in Seq(S)
<1> DEFINE first == IF Len(q) > MaxEvents THEN Len(q) - MaxEvents + 1 ELSE 1
<1>1. first \in 1..(Len(q) + 1)
  BY SdkAssumption
<1> HIDE DEF first
<1>2. SubSeq(q, first, Len(q)) \in Seq(S)
  BY <1>1
<1> QED BY <1>2 DEF Newest, first

LEMMA RecordTypes ==
    ASSUME TypeOK, NEW r \in Run, NEW kinds \in Seq(Kinds), Record(r, kinds)
    PROVE  trace' \in Seq(Event) /\ recent' \in Seq(Event)
<1> DEFINE new == [i \in DOMAIN kinds |-> [run |-> r, kind |-> kinds[i]]]
<1>1. new \in Seq(Event)
  <2>1. PICK n \in Nat : n = Len(kinds) /\ DOMAIN kinds = 1..n
    OBVIOUS
  <2>2. \A i \in 1..n : kinds[i] \in Kinds /\ [run |-> r, kind |-> kinds[i]] \in Event
    BY <2>1 DEF Event
  <2>3. new \in [1..n -> Event]
    BY <2>1, <2>2
  <2> HIDE DEF new
  <2> QED BY <2>3
<1> HIDE DEF new
<1>2. trace \o new \in Seq(Event) /\ recent \o new \in Seq(Event)
  BY <1>1 DEF TypeOK
<1>3. Newest(recent \o new) \in Seq(Event)
  BY <1>2, NewestTypes
<1> QED BY <1>2, <1>3 DEF Record, new

-----------------------------------------------------------------------------
(* One run changes *)

LEMMA OneRun ==
    ASSUME SdkInv, UNCHANGED cfg, loop' \in Run \cup {NoRun},
           trace' \in Seq(Event), recent' \in Seq(Event),
           NEW r \in Run, NEW s \in RunState, NEW w \in Seq(Result),
           run' = [run EXCEPT ![r] = s], rows' = [rows EXCEPT ![r] = w], RunFine(s, w)
    PROVE  SdkInv'
<1>1. TypeOK'
  BY DEF SdkInv, TypeOK, RunState
<1>2. ASSUME NEW t \in Run
      PROVE  RunFine(run[t], rows[t])'
  <2>1. /\ run'[t] = IF t = r THEN s ELSE run[t]
        /\ rows'[t] = IF t = r THEN w ELSE rows[t]
    BY DEF SdkInv, TypeOK
  <2>2. RunFine(run'[t], rows'[t])
    BY <2>1 DEF SdkInv
  <2> QED BY <2>2 DEF RunFine, WorkFine, ResultFine, CanUseOpenAI
<1> QED BY <1>1, <1>2 DEF SdkInv

\* A run that raises: a row may be left over.
LEMMA RaisesKeeps ==
    ASSUME SdkInv, UNCHANGED cfg, trace' \in Seq(Event), recent' \in Seq(Event),
           NEW r \in Run, run[r].pc \in InProgress, Raises(r),
           NEW result \in Result, rows' \in {rows, [rows EXCEPT ![r] = Append(rows[r], result)]}
    PROVE  SdkInv'
<1> DEFINE s == [run[r] EXCEPT !.pc = "raised"]
<1>1. run[r] \in RunState /\ rows[r] \in Seq(Result) /\ RunFine(run[r], rows[r])
  BY DEF SdkInv, TypeOK
<1>2. s \in RunState /\ run' = [run EXCEPT ![r] = s] /\ loop' \in Run \cup {NoRun}
  BY <1>1 DEF RunState, Raises, SdkInv, TypeOK
<1>3. /\ s.pc = "raised" /\ s.results = run[r].results /\ s.req = run[r].req
      /\ run[r].results \in Seq(Result)
  BY <1>1 DEF RunState
<1>4. ASSUME NEW w \in {rows[r], Append(rows[r], result)}
      PROVE  w \in Seq(Result) /\ RunFine(s, w)
  <2>1. /\ w \in Seq(Result) /\ Len(w) \in {Len(rows[r]), Len(rows[r]) + 1}
        /\ \A i \in DOMAIN rows[r] : w[i] = rows[r][i]
    <3>1. CASE w = rows[r]
      BY <1>1, <3>1
    <3>2. CASE w = Append(rows[r], result)
      BY <1>1, <3>2, AppendFacts
    <3> QED BY <3>1, <3>2
  <2>2. RowsFine(run[r], rows[r]) /\ run[r].pc \notin {"raised", "lost"}
    BY <1>1 DEF RunFine, InProgress
  <2>3. Len(rows[r]) = Len(run[r].results)
    BY <2>2 DEF RowsFine
  <2>4. \A i \in DOMAIN run[r].results : i \in DOMAIN rows[r] /\ Matches(rows[r][i], run[r].results[i])
    BY <1>1, <1>3, <2>2, <2>3 DEF RowsFine
  <2>5. RowsFine(s, w)
    <3> HIDE DEF s
    <3> QED BY <1>3, <2>1, <2>3, <2>4 DEF RowsFine
  <2>6. WorkFine(s) /\ OrderFine(s)
    BY <1>1, <1>3 DEF RunFine, WorkFine, OrderFine, InProgress
  <2> HIDE DEF s
  <2> QED BY <1>1, <1>3, <2>1, <2>5, <2>6 DEF RunFine
<1>5. \E w \in {rows[r], Append(rows[r], result)} : rows' = [rows EXCEPT ![r] = w]
  BY DEF SdkInv, TypeOK
<1> HIDE DEF s
<1> QED BY <1>2, <1>4, <1>5, OneRun

\* A run whose result is saved and returned.
LEMMA ReturnsKeeps ==
    ASSUME SdkInv, UNCHANGED cfg, trace' \in Seq(Event), recent' \in Seq(Event),
           NEW r \in Run, run[r].pc \in InProgress,
           NEW result \in Result, ResultFine(result), result.agent = Current(r),
           NEW failed \in BOOLEAN, Returns(r, result, failed),
           rows' = [rows EXCEPT ![r] = Append(rows[r], result)]
    PROVE  SdkInv'
<1> DEFINE answer == IF failed THEN [result EXCEPT !.reason = "sdk_failed"] ELSE result
           results == Append(run[r].results, answer)
           w == Append(rows[r], result)
           on == Continued(run[r], result, answer)
           off == Ended(run[r], answer)
<1>1. /\ run[r] \in RunState /\ rows[r] \in Seq(Result) /\ RunFine(run[r], rows[r])
      /\ run[r].results \in Seq(Result) /\ run[r].at \in 1..5 /\ run[r].req \in Requests[cfg.load]
  BY PlanFacts DEF SdkInv, TypeOK, RunState, RunFine, WorkFine
<1>2. answer \in Result /\ ResultFine(answer) /\ Matches(result, answer)
      /\ answer.agent = result.agent /\ answer.ok = result.ok
  BY DEF Result, ResultFine, Reasons, Matches
<1> HIDE DEF answer
<1>3. /\ results \in Seq(Result) /\ Len(results) = Len(run[r].results) + 1
      /\ DOMAIN results = DOMAIN run[r].results \cup {Len(run[r].results) + 1}
      /\ results[Len(run[r].results) + 1] = answer
      /\ \A i \in DOMAIN run[r].results : results[i] = run[r].results[i] /\ i <= Len(run[r].results)
  BY <1>1, <1>2, AppendFacts
<1>4. /\ w \in Seq(Result) /\ Len(w) = Len(rows[r]) + 1
      /\ w[Len(rows[r]) + 1] = result
      /\ \A i \in DOMAIN rows[r] : w[i] = rows[r][i]
  BY <1>1, AppendFacts
<1>5. Len(rows[r]) = Len(run[r].results) /\ Len(rows[r]) \in Nat
  <2>1. RowsFine(run[r], rows[r]) /\ run[r].pc \notin {"raised", "lost"}
    BY <1>1 DEF RunFine, InProgress
  <2> QED BY <1>1, <2>1 DEF RowsFine
<1> HIDE DEF w
<1>6. /\ Len(results) = Len(w) /\ \A i \in DOMAIN results : Matches(w[i], results[i])
      /\ \A i \in DOMAIN results : ResultFine(results[i])
  <2>1. \A i \in DOMAIN run[r].results : i \in DOMAIN rows[r] /\ Matches(rows[r][i], run[r].results[i])
    BY <1>1, <1>5 DEF RunFine, RowsFine
  <2>2. \A i \in DOMAIN run[r].results : ResultFine(run[r].results[i])
    BY <1>1 DEF RunFine
  <2> QED BY <1>2, <1>3, <1>4, <1>5, <2>1, <2>2
<1>7. run[r].req.kind = "workflow" =>
        /\ \A i \in DOMAIN results : results[i].agent = Plan[i]
        /\ \A i \in DOMAIN results : i < Len(results) => results[i].ok
        /\ result.ok => \A i \in DOMAIN results : results[i].ok
        /\ run[r].at = Len(run[r].results) + 1
  <2> SUFFICES ASSUME run[r].req.kind = "workflow"
               PROVE  /\ \A i \in DOMAIN results : results[i].agent = Plan[i]
                      /\ \A i \in DOMAIN results : i < Len(results) => results[i].ok
                      /\ result.ok => \A i \in DOMAIN results : results[i].ok
                      /\ run[r].at = Len(run[r].results) + 1
    OBVIOUS
  <2>1. /\ \A i \in DOMAIN run[r].results : run[r].results[i].agent = Plan[i] /\ run[r].results[i].ok
        /\ run[r].at = Len(run[r].results) + 1
    BY <1>1 DEF RunFine, OrderFine
  <2>2. answer.agent = Plan[Len(run[r].results) + 1]
    BY <1>2, <2>1 DEF Current, IsWorkflow
  <2> QED BY <1>1, <1>2, <1>3, <1>5, <2>1, <2>2
<1>8. /\ \A S : <<>> \in Seq(S) /\ {} \in SUBSET S
      /\ Len(results) \in Nat
  BY <1>3, EmptyFacts
<1>9. CASE GoesOn(r, result)
  <2>1. run' = [run EXCEPT ![r] = on] /\ loop' = r
    BY <1>9 DEF Returns, answer
  <2>2. /\ run[r].req.kind = "workflow" /\ result.ok /\ run[r].at + 1 \in 1..5
        /\ result.out \in SUBSET Marker
    BY <1>1, <1>9, PlanFacts DEF GoesOn, IsWorkflow, Result
  <2>3. /\ on.pc = "step" /\ on.at = run[r].at + 1 /\ on.results = results /\ on.req = run[r].req
        /\ on.used = {}
    BY <1>1 DEF RunState, Continued
  <2>4. on \in RunState
    BY <1>1, <1>3, <1>8, <2>2, PlanFacts DEF RunState, Continued
  <2> HIDE DEF on, results
  <2>5. OrderFine(on)
    BY <1>3, <1>7, <2>2, <2>3 DEF OrderFine
  <2>6. WorkFine(on)
    BY <1>1, <2>3 DEF WorkFine
  <2>7. RowsFine(on, w)
    BY <1>6, <1>8, <2>3 DEF RowsFine
  <2>8. RunFine(on, w)
    BY <1>6, <2>3, <2>5, <2>6, <2>7 DEF RunFine
  <2> QED BY <1>4, <2>1, <2>4, <2>8, OneRun DEF w
<1>10. CASE ~GoesOn(r, result)
  <2>1. run' = [run EXCEPT ![r] = off] /\ loop' = NoRun
    BY <1>10 DEF Returns, answer
  <2>2. off.pc = "answered" /\ off.results = results /\ off.req = run[r].req
    BY <1>1 DEF RunState, Ended
  <2>3. off \in RunState
    BY <1>1, <1>3, <1>8 DEF RunState, Ended
  <2> HIDE DEF off, results
  <2>4. OrderFine(off)
    BY <1>7, <2>2 DEF OrderFine, InProgress
  <2>5. WorkFine(off)
    BY <2>2 DEF WorkFine, InProgress
  <2>6. RowsFine(off, w)
    BY <1>6, <1>8, <2>2 DEF RowsFine
  <2>7. RunFine(off, w)
    BY <1>6, <2>2, <2>4, <2>5, <2>6 DEF RunFine
  <2> QED BY <1>4, <2>1, <2>3, <2>7, OneRun DEF w
<1> QED BY <1>9, <1>10

LEMMA ConcludeKeeps ==
    ASSUME SdkInv, UNCHANGED cfg, NEW r \in Run, run[r].pc \in InProgress,
           NEW kinds \in Seq(Kinds), NEW result \in Result, ResultFine(result),
           result.agent = Current(r), NEW failed \in BOOLEAN, Conclude(r, kinds, result, failed)
    PROVE  SdkInv'
<1>0. TypeOK
  BY DEF SdkInv
<1>1. CASE /\ rows' = [rows EXCEPT ![r] = Append(@, result)]
           /\ Record(r, kinds \o Saved(r, result)) /\ Returns(r, result, failed)
  <2>1. Saved(r, result) \in Seq(Kinds)
    <3>1. <<"memory">> \in Seq(Kinds) /\ <<"memory", "handoff">> \in Seq(Kinds)
      BY DEF Kinds
    <3> QED BY <3>1 DEF Saved
  <2>2. kinds \o Saved(r, result) \in Seq(Kinds)
    BY <2>1
  <2> QED BY <1>0, <1>1, <2>2, RecordTypes, ReturnsKeeps
<1>2. CASE /\ rows' \in {rows, [rows EXCEPT ![r] = Append(@, result)]}
           /\ Record(r, kinds) /\ Raises(r)
  BY <1>0, <1>2, RecordTypes, RaisesKeeps
<1> QED BY <1>1, <1>2 DEF Conclude

-----------------------------------------------------------------------------
(* The steps *)

\* A run suspends, on the Runner or on Ollama.
LEMMA SuspendKeeps ==
    ASSUME SdkInv, UNCHANGED <<cfg, rows>>, NEW r \in Run, run[r].pc \in InProgress,
           NEW s \in RunState, run' = [run EXCEPT ![r] = s], loop' = NoRun,
           NEW kinds \in Seq(Kinds), Record(r, kinds),
           s.pc \in {"sdk", "local"}, s.req = run[r].req, s.at = run[r].at,
           s.results = run[r].results, WorkFine(s)
    PROVE  SdkInv'
<1>1. TypeOK /\ rows' = [rows EXCEPT ![r] = rows[r]] /\ rows[r] \in Seq(Result)
      /\ RunFine(run[r], rows[r])
  BY DEF SdkInv, TypeOK
<1>2. RunFine(s, rows[r])
  BY <1>1 DEF RunFine, OrderFine, RowsFine, InProgress
<1> QED BY <1>1, <1>2, RecordTypes, OneRun

LEMMA RequestFacts ==
    ASSUME SdkInv, NEW r \in Run, run[r].pc \in InProgress
    PROVE  /\ run[r] \in RunState
           /\ run[r].req.text \in SUBSET Marker /\ run[r].context \in SUBSET Marker
           /\ Given(r) \in SUBSET Marker /\ Repeated(r) \in SUBSET Marker
<1>1. run[r] \in RunState /\ cfg \in Deployment /\ run[r].req \in Requests[cfg.load]
  BY DEF SdkInv, TypeOK, RunFine, WorkFine
<1>2. run[r].req.text \in SUBSET Marker
  BY <1>1, SdkAssumption
<1>3. run[r].context \in SUBSET Marker
  BY <1>1 DEF RunState
<1> QED BY <1>1, <1>2, <1>3 DEF Given, Repeated

LEMMA ResultOfFacts ==
    ASSUME SdkInv, NEW r \in Run, run[r].pc \in InProgress, Current(r) \in Agent,
           NEW spans \in Seq(Kinds), NEW runtime \in Runtimes, NEW out \in SUBSET Marker,
           NEW reason \in Reasons,
           runtime # "guardrail_blocked" => Unflagged(Given(r)),
           runtime = "openai_agents_sdk" =>
               CanUseOpenAI /\ ~NeedsApproval(Current(r)) /\ InReach(Current(r), run[r].used)
    PROVE  /\ ResultOf(r, spans, runtime, out, reason) \in Result
           /\ ResultFine(ResultOf(r, spans, runtime, out, reason))
           /\ ResultOf(r, spans, runtime, out, reason).agent = Current(r)
<1>1. Given(r) \in SUBSET Marker /\ run[r].used \in SUBSET (Tool \X BOOLEAN)
  BY RequestFacts DEF RunState
<1> QED BY <1>1 DEF ResultOf, Result, ResultFine

LEMMA CurrentIsCur ==
    ASSUME NEW r
    PROVE  Current(r) = Cur(run[r]) /\ Given(r) = run[r].req.text \cup run[r].context
           /\ GuardedText(r) = Given(r)
BY DEF Current, Cur, IsWorkflow, Given, GuardedText

LEMMA LocalFallbackKeeps ==
    ASSUME SdkInv, UNCHANGED cfg, NEW r \in Run, run[r].pc \in InProgress, Current(r) \in Agent,
           Unflagged(Given(r)), NEW spans \in Seq(Kinds), NEW kinds \in Seq(Kinds),
           NEW failed \in BOOLEAN, LocalFallback(r, spans, kinds, failed)
    PROVE  SdkInv'
<1> DEFINE listed == Append(spans, "fallback")
<1>1. listed \in Seq(Kinds) /\ Append(kinds, "fallback") \in Seq(Kinds)
  BY DEF Kinds
<1> HIDE DEF listed
<1>2. CASE /\ run' = [run EXCEPT ![r] = [@ EXCEPT !.pc = "local", !.failed = failed, !.spans = listed]]
           /\ loop' = NoRun /\ Record(r, Append(kinds, "fallback")) /\ UNCHANGED rows
  <2> DEFINE s == [run[r] EXCEPT !.pc = "local", !.failed = failed, !.spans = listed]
  <2>1. run[r] \in RunState /\ RunFine(run[r], rows[r]) /\ run' = [run EXCEPT ![r] = s]
    BY <1>2 DEF SdkInv, TypeOK
  <2>2. /\ s \in RunState /\ s.pc = "local" /\ s.req = run[r].req /\ s.at = run[r].at
        /\ s.results = run[r].results /\ s.context = run[r].context
    BY <1>1, <2>1 DEF RunState
  <2> HIDE DEF s
  <2>3. WorkFine(s)
    BY <2>1, <2>2, CurrentIsCur DEF WorkFine, RunFine, Cur
  <2> QED BY <1>1, <1>2, <2>1, <2>2, <2>3, SuspendKeeps
<1>3. CASE Conclude(r, Append(kinds, "fallback"),
                    ResultOf(r, listed, "mock", Repeated(r), "unavailable"), failed)
  <2>1. "mock" \in Runtimes /\ "unavailable" \in Reasons
    BY DEF Runtimes, Reasons
  <2> QED BY <1>1, <1>3, <2>1, RequestFacts, ResultOfFacts, ConcludeKeeps
<1> QED BY <1>2, <1>3 DEF LocalFallback, listed

LEMMA RunAgentKeeps ==
    ASSUME SdkInv, NEW r \in Run, RunAgent(r)
    PROVE  SdkInv'
<1> DEFINE q == run[r].req
           spans == <<"agent", "guardrail">>
           allowed == Allowed(Current(r), GuardedText(r), q.approved, q.dry)
<1>1. /\ run[r].pc = "step" /\ run[r].pc \in InProgress /\ Current(r) \in Agent /\ UNCHANGED cfg
      /\ spans \in Seq(Kinds) /\ (allowed => Unflagged(Given(r)))
  BY CurrentIsCur DEF RunAgent, InProgress, Kinds, Allowed, Unflagged
<1>2. "guardrail_blocked" \in Runtimes /\ "dry_run" \in Runtimes /\ "none" \in Reasons
      /\ {} \in SUBSET Marker /\ FALSE \in BOOLEAN
  BY DEF Runtimes, Reasons
<1> HIDE DEF spans
<1>3. CASE Conclude(r, spans, ResultOf(r, spans, "guardrail_blocked", {}, "none"), FALSE)
  BY <1>1, <1>2, <1>3, ResultOfFacts, ConcludeKeeps
<1>4. CASE allowed /\ Conclude(r, spans, ResultOf(r, spans, "dry_run", Repeated(r), "none"), FALSE)
  BY <1>1, <1>2, <1>4, RequestFacts, ResultOfFacts, ConcludeKeeps
<1>5. CASE /\ allowed /\ CanUseOpenAI
           /\ run' = [run EXCEPT ![r] = [@ EXCEPT !.pc = "sdk", !.spans = spans,
                                                  !.active = Current(r)]]
           /\ loop' = NoRun /\ Record(r, spans) /\ UNCHANGED rows
  <2> DEFINE s == [run[r] EXCEPT !.pc = "sdk", !.spans = spans, !.active = Current(r)]
  <2>1. run[r] \in RunState /\ RunFine(run[r], rows[r]) /\ run' = [run EXCEPT ![r] = s]
    BY <1>5 DEF SdkInv, TypeOK
  <2>2. /\ s \in RunState /\ s.pc = "sdk" /\ s.req = run[r].req /\ s.at = run[r].at
        /\ s.results = run[r].results /\ s.context = run[r].context /\ s.active = Current(r)
        /\ s.used = run[r].used
    BY <1>1, <2>1 DEF RunState
  <2> HIDE DEF s
  <2>3. s.used = {}
    BY <1>1, <2>1, <2>2 DEF RunFine, WorkFine
  <2>4. Cur(s) = Current(r) /\ Unflagged(s.req.text \cup s.context)
    BY <1>1, <1>5, <2>2, CurrentIsCur DEF Cur
  <2>5. InReach(Cur(s), s.used)
    BY <2>3 DEF InReach
  <2>6. run[r].req \in Requests[cfg.load]
    BY <1>1, <2>1 DEF RunFine, WorkFine
  <2>7. WorkFine(s)
    BY <1>1, <1>5, <2>2, <2>4, <2>5, <2>6 DEF WorkFine
  <2> QED BY <1>1, <1>5, <2>1, <2>2, <2>7, SuspendKeeps
<1>6. CASE allowed /\ LocalFallback(r, spans, spans, FALSE)
  BY <1>1, <1>2, <1>6, LocalFallbackKeeps
<1> QED BY <1>3, <1>4, <1>5, <1>6 DEF RunAgent, spans

LEMMA RunnerKeeps ==
    ASSUME SdkInv, NEW r \in Run,
           \/ RunnerReturns(r) \/ RunnerFails(r) \/ OllamaReturns(r) \/ OllamaRaises(r) \/ UnknownAgent(r)
    PROVE  SdkInv'
<1>1. /\ run[r] \in RunState /\ run[r].pc \in InProgress /\ RunFine(run[r], rows[r])
      /\ UNCHANGED cfg /\ <<>> \in Seq(Kinds) /\ run[r].spans \in Seq(Kinds)
      /\ run[r].failed \in BOOLEAN
  BY EmptyFacts DEF RunnerReturns, RunnerFails, OllamaReturns, OllamaRaises, UnknownAgent, Resumes,
         InProgress, SdkInv, TypeOK, RunState
<1>2. run[r].pc \in {"sdk", "local"} => Current(r) \in Agent /\ Unflagged(Given(r))
  BY <1>1, CurrentIsCur DEF RunFine, WorkFine
<1>3. \A out \in Outputs \cup {Repeated(r)} : out \in SUBSET Marker
  BY <1>1, RequestFacts, SdkAssumption
<1>4. CASE RunnerReturns(r)
  <2>1. PICK out \in Outputs \cup {Repeated(r)} :
          Conclude(r, <<>>, ResultOf(r, run[r].spans, "openai_agents_sdk", out, "none"), FALSE)
    BY <1>4 DEF RunnerReturns
  <2>2. ~NeedsApproval(Current(r)) /\ run[r].pc = "sdk"
    BY <1>2, <1>4, CurrentIsCur DEF RunnerReturns, Resumes, Tripped, Allowed, Unflagged
  <2>3. CanUseOpenAI /\ InReach(Current(r), run[r].used)
    BY <1>1, <2>2, CurrentIsCur DEF RunFine, WorkFine
  <2>4. "openai_agents_sdk" \in Runtimes /\ "none" \in Reasons
    BY DEF Runtimes, Reasons
  <2> QED BY <1>1, <1>2, <1>3, <2>1, <2>2, <2>3, <2>4, ResultOfFacts, ConcludeKeeps
<1>5. CASE RunnerFails(r)
  <2>1. Append(run[r].spans, "fallback") \in Seq(Kinds) /\ <<"fallback">> \in Seq(Kinds)
    BY <1>1 DEF Kinds
  <2> QED BY <1>1, <1>2, <1>5, <2>1, LocalFallbackKeeps DEF RunnerFails, Resumes
<1>6. CASE OllamaReturns(r)
  <2>1. PICK out \in Outputs \cup {Repeated(r)}, reason \in {"unavailable", "ollama_failed"} :
          Conclude(r, <<>>, ResultOf(r, run[r].spans, "ollama", out, reason), run[r].failed)
    BY <1>6 DEF OllamaReturns
  <2>2. run[r].pc = "local" /\ "ollama" \in Runtimes /\ reason \in Reasons
    BY <1>6 DEF OllamaReturns, Resumes, Runtimes, Reasons
  <2> QED BY <1>1, <1>2, <1>3, <2>1, <2>2, ResultOfFacts, ConcludeKeeps
<1>7. CASE OllamaRaises(r) \/ UnknownAgent(r)
  <2>1. Raises(r) /\ UNCHANGED <<trace, recent, rows>>
    BY <1>7 DEF OllamaRaises, UnknownAgent
  <2>2. \E result \in Result : TRUE
    <3>1. Current(r) = Current(r) /\ [agent |-> "memory", runtime |-> "mock", ok |-> TRUE, given |-> {},
            out |-> {}, spans |-> <<>>, tools |-> {}, reason |-> "none"] \in Result
      BY PlanFacts DEF Result, Runtimes, Reasons, Agent, Registry
    <3> QED BY <3>1
  <2>3. trace' \in Seq(Event) /\ recent' \in Seq(Event)
    BY <2>1 DEF SdkInv, TypeOK
  <2> QED BY <1>1, <2>1, <2>2, <2>3, RaisesKeeps
<1> QED BY <1>4, <1>5, <1>6, <1>7

\* The Runner's own steps.
LEMMA ToolsKeep ==
    ASSUME SdkInv, NEW r \in Run,
           \/ \E call \in ToolCalls : CallTool(r, call[1], call[2])
           \/ \E a \in Agent : HandOff(r, a)
    PROVE  SdkInv'
<1>1. /\ run[r] \in RunState /\ run[r].pc = "sdk" /\ RunFine(run[r], rows[r])
      /\ UNCHANGED <<cfg, loop, trace, recent, rows>>
  BY DEF CallTool, HandOff, Resumes, SdkInv, TypeOK
<1>2. /\ loop' \in Run \cup {NoRun} /\ trace' \in Seq(Event) /\ recent' \in Seq(Event)
      /\ rows' = [rows EXCEPT ![r] = rows[r]] /\ rows[r] \in Seq(Result)
  BY <1>1 DEF SdkInv, TypeOK
<1>3. ASSUME NEW s \in RunState, run' = [run EXCEPT ![r] = s], s.pc = "sdk", s.req = run[r].req,
             s.at = run[r].at, s.results = run[r].results, s.context = run[r].context,
             InReach(Cur(s), s.used), s.active \in {Cur(s)} \cup Registry[Cur(s)].handoffs
      PROVE  SdkInv'
  <2>1. RunFine(s, rows[r])
    BY <1>1, <1>3 DEF RunFine, WorkFine, OrderFine, RowsFine, Cur
  <2> QED BY <1>1, <1>2, <1>3, <2>1, OneRun
<1>4. ASSUME NEW call \in ToolCalls, CallTool(r, call[1], call[2])
      PROVE  SdkInv'
  <2> DEFINE use == <<call[1], ToolOk(call[1], call[2])>>
             s == [run[r] EXCEPT !.used = run[r].used \cup {use}]
  <2>1. call[1] \in Tool /\ ToolOk(call[1], call[2]) \in BOOLEAN
    BY SdkAssumption DEF ToolOk
  <2>2. use \in Tool \X BOOLEAN /\ use[1] = call[1] /\ call[1] \in Registry[run[r].active].tools
    BY <1>4, <2>1 DEF CallTool
  <2> HIDE DEF use
  <2>3. run' = [run EXCEPT ![r] = s] /\ s \in RunState
    <3>1. run' = [run EXCEPT ![r] = s]
      BY <1>4 DEF CallTool, use, SdkInv, TypeOK
    <3> QED BY <1>1, <2>2, <3>1 DEF RunState
  <2>4. /\ s.pc = "sdk" /\ s.req = run[r].req /\ s.at = run[r].at /\ s.results = run[r].results
        /\ s.context = run[r].context /\ s.active = run[r].active /\ s.used = run[r].used \cup {use}
    BY <1>1 DEF RunState
  <2> HIDE DEF s
  <2>5. Cur(s) = Cur(run[r])
    BY <2>4 DEF Cur
  <2>6. InReach(Cur(s), s.used) /\ s.active \in {Cur(s)} \cup Registry[Cur(s)].handoffs
    BY <1>1, <2>2, <2>4, <2>5 DEF RunFine, WorkFine, InReach
  <2> QED BY <1>3, <2>3, <2>4, <2>6
<1>5. ASSUME NEW a \in Agent, HandOff(r, a)
      PROVE  SdkInv'
  <2> DEFINE s == [run[r] EXCEPT !.active = a]
  <2>1. run' = [run EXCEPT ![r] = s] /\ s \in RunState /\ a \in Registry[Cur(run[r])].handoffs
    BY <1>1, <1>5, CurrentIsCur DEF HandOff, RunState, SdkInv, TypeOK
  <2>2. /\ s.pc = "sdk" /\ s.req = run[r].req /\ s.at = run[r].at /\ s.results = run[r].results
        /\ s.context = run[r].context /\ s.active = a /\ s.used = run[r].used
    BY <1>1 DEF RunState
  <2> HIDE DEF s
  <2>3. Cur(s) = Cur(run[r])
    BY <2>2 DEF Cur
  <2>4. InReach(Cur(s), s.used) /\ s.active \in {Cur(s)} \cup Registry[Cur(s)].handoffs
    BY <1>1, <2>1, <2>2, <2>3 DEF RunFine, WorkFine
  <2> QED BY <1>3, <2>1, <2>2, <2>4
<1> QED BY <1>4, <1>5

LEMMA FreeTypes == Free \in RunState
BY PlanFacts DEF Free, RunState, Agent, Registry

LEMMA AcceptKeeps ==
    ASSUME SdkInv, NEW r \in Run, NEW q \in Requests[cfg.load], Accept(r, q)
    PROVE  SdkInv'
<1> DEFINE s == [Free EXCEPT !.pc = "step", !.req = q, !.context = q.context]
           kinds == IF q.kind = "workflow" THEN <<"handoff">> ELSE <<>>
<1>1. /\ run[r] = Free /\ rows[r] = <<>> /\ cfg \in Deployment /\ TypeOK /\ rows[r] \in Seq(Result)
  BY DEF Accept, SdkInv, TypeOK, RunFine
<1>2. s \in RunState
  <2>1. q.context \in SUBSET Marker
    BY <1>1, SdkAssumption
  <2>2. [Free EXCEPT !.pc = "step"] \in RunState
    BY FreeTypes DEF RunState
  <2> QED BY <2>1, <2>2 DEF RunState, Free
<1>3. s.pc = "step" /\ s.req = q /\ s.results = <<>> /\ s.at = 1 /\ s.used = {}
  BY DEF Free
<1> HIDE DEF s
<1>4. RunFine(s, rows[r])
  BY <1>1, <1>3 DEF RunFine, WorkFine, OrderFine, RowsFine, InProgress
<1>5. kinds \in Seq(Kinds) /\ Record(r, kinds)
  <2>1. <<>> \in Seq(Kinds) /\ <<"handoff">> \in Seq(Kinds)
    BY EmptyFacts DEF Kinds
  <2> QED BY <2>1 DEF Accept
<1>6. /\ loop' \in Run \cup {NoRun} /\ run' = [run EXCEPT ![r] = s] /\ UNCHANGED cfg
      /\ rows' = [rows EXCEPT ![r] = rows[r]]
  BY <1>1 DEF Accept, s, TypeOK
<1> HIDE DEF kinds
<1> QED BY <1>1, <1>2, <1>4, <1>5, <1>6, RecordTypes, OneRun

LEMMA RestartKeeps ==
    ASSUME SdkInv, Restart
    PROVE  SdkInv'
<1>1. ASSUME NEW r \in Run
      PROVE  run'[r] \in RunState /\ RunFine(run'[r], rows[r])
  <2>1. run[r] \in RunState /\ RunFine(run[r], rows[r])
    BY DEF SdkInv, TypeOK
  <2>2. CASE run[r].pc = "idle"
    BY <2>1, <2>2 DEF Restart
  <2>3. CASE run[r].pc # "idle"
    <3> DEFINE s == [run[r] EXCEPT !.pc = "lost"]
    <3>1. run'[r] = s /\ s \in RunState
      BY <2>1, <2>3 DEF Restart, RunState
    <3>2. s.pc = "lost" /\ s.results = run[r].results /\ s.req = run[r].req
          /\ s.results \in Seq(Result) /\ rows[r] \in Seq(Result)
      BY <2>1 DEF RunState, SdkInv, TypeOK
    <3> HIDE DEF s
    <3>3. RowsFine(s, rows[r])
      BY <2>1, <3>2 DEF RunFine, RowsFine
    <3>4. WorkFine(s) /\ OrderFine(s)
      BY <2>1, <3>2 DEF RunFine, WorkFine, OrderFine, InProgress
    <3> QED BY <2>1, <3>1, <3>2, <3>3, <3>4 DEF RunFine
  <2> QED BY <2>2, <2>3
<1>2. run' \in [Run -> RunState] /\ RunState' = RunState
  BY <1>1 DEF Restart, RunState
<1>3. TypeOK'
  BY <1>2 DEF Restart, SdkInv, TypeOK
<1>4. ASSUME NEW r \in Run
      PROVE  RunFine(run[r], rows[r])'
  <2>1. RunFine(run'[r], rows'[r]) /\ UNCHANGED cfg
    BY <1>1 DEF Restart
  <2> QED BY <2>1 DEF RunFine, WorkFine, ResultFine, CanUseOpenAI
<1> QED BY <1>3, <1>4 DEF SdkInv

LEMMA OthersRecordKeeps ==
    ASSUME SdkInv, OthersRecord
    PROVE  SdkInv'
<1>1. UNCHANGED <<cfg, loop, run, trace, rows>>
  BY DEF OthersRecord
<1>2. recent' \in Seq(Event)
  BY HeadTailProperties DEF OthersRecord, SdkInv, TypeOK
<1>3. TypeOK'
  BY <1>1, <1>2 DEF SdkInv, TypeOK, RunState
<1>4. ASSUME NEW r \in Run
      PROVE  RunFine(run[r], rows[r])'
  BY <1>1 DEF SdkInv, RunFine, WorkFine, ResultFine, CanUseOpenAI
<1> QED BY <1>3, <1>4 DEF SdkInv

LEMMA InitSdkInv == Init => SdkInv
<1> SUFFICES ASSUME Init PROVE SdkInv
  OBVIOUS
<1>1. Free \in RunState
  BY FreeTypes
<1>2. RunFine(Free, <<>>)
  BY DEF Free, RunFine, WorkFine, OrderFine, RowsFine, InProgress
<1> QED BY <1>1, <1>2 DEF Init, SdkInv, TypeOK

LEMMA NextKeepsSdkInv == SdkInv /\ [Next]_sdkVars => SdkInv'
<1> SUFFICES ASSUME SdkInv, [Next]_sdkVars PROVE SdkInv'
  OBVIOUS
<1>1. CASE UNCHANGED sdkVars
  BY <1>1 DEF sdkVars, SdkInv, TypeOK, RunState, RunFine, WorkFine, ResultFine, CanUseOpenAI
<1> QED BY <1>1, RunAgentKeeps, RunnerKeeps, ToolsKeep, AcceptKeeps, RestartKeeps, OthersRecordKeeps
        DEF Next, Advance

-----------------------------------------------------------------------------
(* The trace *)

\* The turns of Own and of Story.
OwnTurns(r, t) ==
    [i \in 1..Len(t) |->
        [k \in Seq(Kinds) |-> IF t[i].run = r THEN Append(k, t[i].kind) ELSE k]]

StoryTurns(start, results) ==
    [i \in 1..Len(results) |->
        [k \in Seq(Kinds) |-> k \o (start \o (results[i].spans \o <<"memory">>))]]

LEMMA OwnIterates ==
    ASSUME NEW r, NEW t \in Seq(Event)
    PROVE  \E g : Iterates(g, Len(t), Seq(Kinds), <<>>, OwnTurns(r, t)) /\ Own(r, t) = g[Len(t)]
<1> DEFINE n == Len(t)
           T == Seq(Kinds)
           Turn(k, i) == IF t[i].run = r THEN Append(k, t[i].kind) ELSE k
           own == CHOOSE f : f = [i \in 0..n |->
                    IF i = 0 THEN <<>>
                    ELSE IF t[i].run = r THEN Append(f[i - 1], t[i].kind) ELSE f[i - 1]]
           h == OwnTurns(r, t)
<1>1. n \in Nat /\ <<>> \in T
  OBVIOUS
<1>2. \A i \in 1..n, k \in T : h[i][k] = Turn(k, i)
  BY DEF OwnTurns
<1>3. h \in [1..n -> [T -> T]]
  <2>1. ASSUME NEW i \in 1..n, NEW k \in T
        PROVE  (IF t[i].run = r THEN Append(k, t[i].kind) ELSE k) \in T
    <3>1. t[i] \in Event
      OBVIOUS
    <3>2. t[i].kind \in Kinds
      BY <3>1 DEF Event
    <3> QED BY <3>2
  <2> HIDE DEF T
  <2> QED BY <2>1 DEF OwnTurns, T
<1>4. Own(r, t) = own[n]
  BY DEF Own
<1>5. own = CHOOSE f : f = [i \in 0..n |-> IF i = 0 THEN <<>> ELSE Turn(f[i - 1], i)]
  OBVIOUS
<1> HIDE DEF h, T, Turn, n, own
<1>6. PICK g : Iterates(g, n, T, <<>>, h)
  BY <1>1, <1>3, RecursionUpTo
<1>7. g = [i \in 0..n |-> IF i = 0 THEN <<>> ELSE Turn(g[i - 1], i)]
  BY <1>1, <1>2, <1>6 DEF Iterates
<1>8. own = [i \in 0..n |-> IF i = 0 THEN <<>> ELSE Turn(own[i - 1], i)]
  BY <1>5, <1>7
<1>9. own[0] = <<>> /\ \A i \in 1..n : own[i] = Turn(own[i - 1], i)
  BY <1>1, <1>8
<1>10. \A i \in 1..n : own[i - 1] \in T => own[i] = h[i][own[i - 1]]
  BY <1>2, <1>9
<1>11. \A i \in 0..n : own[i] = g[i]
  BY <1>1, <1>6, <1>9, <1>10, RecursionUnique
<1>12. own[n] = g[n]
  BY <1>1, <1>11
<1> QED BY <1>4, <1>6, <1>12 DEF h, T, n

LEMMA OwnAppend ==
    ASSUME NEW r, NEW t \in Seq(Event), NEW e \in Event
    PROVE  /\ Own(r, Append(t, e)) = IF e.run = r THEN Append(Own(r, t), e.kind) ELSE Own(r, t)
           /\ Own(r, t) \in Seq(Kinds)
<1> DEFINE n == Len(t)
           u == Append(t, e)
<1>1. /\ n \in Nat /\ u \in Seq(Event) /\ Len(u) = n + 1 /\ u[n + 1] = e
      /\ \A i \in 1..n : u[i] = t[i]
  OBVIOUS
<1> HIDE DEF u, n
<1>2. PICK g : Iterates(g, n, Seq(Kinds), <<>>, OwnTurns(r, t)) /\ Own(r, t) = g[n]
  BY OwnIterates DEF n
<1>3. PICK k : Iterates(k, n + 1, Seq(Kinds), <<>>, OwnTurns(r, u)) /\ Own(r, u) = k[n + 1]
  BY <1>1, OwnIterates
<1>4. \A i \in 1..n : OwnTurns(r, u)[i] = OwnTurns(r, t)[i]
  <2>1. Len(t) = n
    BY DEF n
  <2>2. ASSUME NEW i \in 1..n PROVE OwnTurns(r, u)[i] = OwnTurns(r, t)[i]
    <3>1. i \in 1..Len(u) /\ i \in 1..Len(t) /\ u[i] = t[i]
      BY <1>1, <2>1
    <3> QED BY <3>1, Zenon DEF OwnTurns
  <2> QED BY <2>2
<1>5. k[n + 1] = OwnTurns(r, u)[n + 1][g[n]] /\ g[n] \in Seq(Kinds)
  BY <1>1, <1>2, <1>3, <1>4, RecursionStep
<1>6. OwnTurns(r, u)[n + 1][g[n]] = IF e.run = r THEN Append(g[n], e.kind) ELSE g[n]
  BY <1>1, <1>5 DEF OwnTurns
<1> QED BY <1>2, <1>3, <1>5, <1>6 DEF u

LEMMA OwnEmpty == ASSUME NEW r PROVE Own(r, <<>>) = <<>>
<1>1. <<>> \in Seq(Event) /\ Len(<<>>) = 0
  OBVIOUS
<1>2. PICK g : Iterates(g, 0, Seq(Kinds), <<>>, OwnTurns(r, <<>>)) /\ Own(r, <<>>) = g[0]
  BY <1>1, OwnIterates
<1> QED BY <1>2 DEF Iterates

LEMMA StoryIterates ==
    ASSUME NEW start \in Seq(Kinds), NEW results \in Seq(Result)
    PROVE  \E g : /\ Iterates(g, Len(results), Seq(Kinds), <<>>, StoryTurns(start, results))
                  /\ Story(start, results) = g[Len(results)]
<1> DEFINE n == Len(results)
           T == Seq(Kinds)
           Turn(k, i) == k \o (start \o (results[i].spans \o <<"memory">>))
           past == CHOOSE f : f = [i \in 0..n |->
                     IF i = 0 THEN <<>>
                     ELSE f[i - 1] \o (start \o (results[i].spans \o <<"memory">>))]
           h == StoryTurns(start, results)
<1>1. n \in Nat /\ <<>> \in T
  OBVIOUS
<1>2. \A i \in 1..n, k \in T : h[i][k] = Turn(k, i)
  BY DEF StoryTurns
<1>3. h \in [1..n -> [T -> T]]
  <2>1. ASSUME NEW i \in 1..n, NEW k \in T
        PROVE  k \o (start \o (results[i].spans \o <<"memory">>)) \in T
    <3>1. results[i] \in Result /\ <<"memory">> \in T
      BY DEF Kinds
    <3>2. results[i].spans \in T
      BY <3>1 DEF Result
    <3>3. \A a \in T, b \in T : a \o b \in T
      OBVIOUS
    <3> HIDE DEF T
    <3> QED BY <2>1, <3>1, <3>2, <3>3 DEF T
  <2> HIDE DEF T
  <2> QED BY <2>1 DEF StoryTurns, T
<1>4. Story(start, results) = past[n]
  BY DEF Story
<1>5. past = CHOOSE f : f = [i \in 0..n |-> IF i = 0 THEN <<>> ELSE Turn(f[i - 1], i)]
  OBVIOUS
<1> HIDE DEF h, T, Turn, n, past
<1>6. PICK g : Iterates(g, n, T, <<>>, h)
  BY <1>1, <1>3, RecursionUpTo
<1>7. g = [i \in 0..n |-> IF i = 0 THEN <<>> ELSE Turn(g[i - 1], i)]
  BY <1>1, <1>2, <1>6 DEF Iterates
<1>8. past = [i \in 0..n |-> IF i = 0 THEN <<>> ELSE Turn(past[i - 1], i)]
  BY <1>5, <1>7
<1>9. past[0] = <<>> /\ \A i \in 1..n : past[i] = Turn(past[i - 1], i)
  BY <1>1, <1>8
<1>10. \A i \in 1..n : past[i - 1] \in T => past[i] = h[i][past[i - 1]]
  BY <1>2, <1>9
<1>11. \A i \in 0..n : past[i] = g[i]
  BY <1>1, <1>6, <1>9, <1>10, RecursionUnique
<1>12. past[n] = g[n]
  BY <1>1, <1>11
<1> QED BY <1>4, <1>6, <1>12 DEF h, T, n

LEMMA StoryAppend ==
    ASSUME NEW start \in Seq(Kinds), NEW results \in Seq(Result), NEW x \in Result
    PROVE  /\ Story(start, Append(results, x))
                = Story(start, results) \o (start \o (x.spans \o <<"memory">>))
           /\ Story(start, results) \in Seq(Kinds)
<1> DEFINE n == Len(results)
           u == Append(results, x)
<1>1. /\ n \in Nat /\ u \in Seq(Result) /\ Len(u) = n + 1 /\ u[n + 1] = x
      /\ \A i \in 1..n : u[i] = results[i]
  OBVIOUS
<1> HIDE DEF u, n
<1>2. PICK g : /\ Iterates(g, n, Seq(Kinds), <<>>, StoryTurns(start, results))
               /\ Story(start, results) = g[n]
  BY StoryIterates DEF n
<1>3. PICK k : /\ Iterates(k, n + 1, Seq(Kinds), <<>>, StoryTurns(start, u))
               /\ Story(start, u) = k[n + 1]
  BY <1>1, StoryIterates
<1>4. ASSUME NEW i \in 1..n PROVE StoryTurns(start, u)[i] = StoryTurns(start, results)[i]
  <2>1. i \in 1..Len(u) /\ i \in 1..Len(results) /\ u[i] = results[i]
    BY <1>1 DEF n
  <2> QED BY <2>1, Zenon DEF StoryTurns
<1>5. k[n + 1] = StoryTurns(start, u)[n + 1][g[n]] /\ g[n] \in Seq(Kinds)
  BY <1>1, <1>2, <1>3, <1>4, RecursionStep
<1>6. StoryTurns(start, u)[n + 1][g[n]] = g[n] \o (start \o (x.spans \o <<"memory">>))
  <2>1. n + 1 \in 1..Len(u) /\ u[n + 1] = x /\ g[n] \in Seq(Kinds)
    BY <1>1, <1>5
  <2>2. StoryTurns(start, u)[n + 1][g[n]] = g[n] \o (start \o (u[n + 1].spans \o <<"memory">>))
    BY <2>1, Zenon DEF StoryTurns
  <2> QED BY <2>1, <2>2
<1> QED BY <1>2, <1>3, <1>5, <1>6 DEF u

LEMMA StoryEmpty == ASSUME NEW start \in Seq(Kinds) PROVE Story(start, <<>>) = <<>>
<1>1. <<>> \in Seq(Result) /\ Len(<<>>) = 0
  OBVIOUS
<1>2. PICK g : Iterates(g, 0, Seq(Kinds), <<>>, StoryTurns(start, <<>>)) /\ Story(start, <<>>) = g[0]
  BY <1>1, StoryIterates
<1> QED BY <1>2 DEF Iterates

LEMMA Associates ==
    ASSUME NEW S, NEW x, NEW y, NEW z, x \in Seq(S), y \in Seq(S), z \in Seq(S)
    PROVE  (x \o y) \o z = x \o (y \o z) /\ x \o y \in Seq(S)
BY ConcatAssociative, ConcatProperties

\* An element appended to the second of two sequences.
TwoAndOne(S, x, y, e) == x \in Seq(S) /\ y \in Seq(S) /\ e \in S

AppendsToBoth(S, x, y, e) == x \o (y \o <<e>>) = Append(x \o y, e) /\ x \o y \in Seq(S)

LEMMA AppendToBoth ==
    ASSUME NEW S, NEW x, NEW y, NEW e, TwoAndOne(S, x, y, e)
    PROVE  AppendsToBoth(S, x, y, e)
<1>1. x \in Seq(S) /\ y \in Seq(S) /\ e \in S
  BY DEF TwoAndOne
<1> DEFINE last == <<e>>
<1>2. last \in Seq(S)
  BY <1>1
<1> HIDE DEF last
<1>3. (x \o y) \o last = x \o (y \o last) /\ x \o y \in Seq(S)
  BY <1>1, <1>2, Associates
<1>4. Append(x \o y, e) = (x \o y) \o last
  BY <1>1, <1>3, AppendIsConcat DEF last
<1>5. x \o (y \o last) = Append(x \o y, e)
  BY <1>3, <1>4, Zenon
<1> QED BY <1>3, <1>5 DEF AppendsToBoth, last

\* What a run records is appended to its own events and to no other run's.
LEMMA RecordOwn ==
    ASSUME NEW t \in Seq(Event), NEW r \in Run, NEW kinds \in Seq(Kinds), NEW new,
           new = [i \in DOMAIN kinds |-> [run |-> r, kind |-> kinds[i]]], NEW s \in Run
    PROVE  Own(s, t \o new) = IF s = r THEN Own(s, t) \o kinds ELSE Own(s, t)
<1> DEFINE m == Len(kinds)
           S == {k \in 0..m : Own(s, t \o SubSeq(new, 1, k))
                                = IF s = r THEN Own(s, t) \o SubSeq(kinds, 1, k) ELSE Own(s, t)}
<1>1. m \in Nat /\ DOMAIN kinds = 1..m /\ \A i \in 1..m : kinds[i] \in Kinds
  BY LenProperties, ElementOfSeq
<1>2. /\ new \in Seq(Event) /\ Len(new) = m
      /\ \A i \in 1..m : new[i] = [run |-> r, kind |-> kinds[i]] /\ new[i] \in Event
  <2> HIDE DEF m
  <2>1. \A i \in 1..m : new[i] = [run |-> r, kind |-> kinds[i]] /\ new[i] \in Event
    BY <1>1 DEF Event
  <2>2. new \in [1..m -> Event]
    BY <1>1, <2>1
  <2> QED BY <1>1, <2>1, <2>2
<1>3. Own(s, t) \in Seq(Kinds)
  <2>1. [run |-> r, kind |-> "agent"] \in Event
    BY DEF Event, Kinds
  <2> QED BY <2>1, OwnAppend
<1>4. 0 \in S
  <2>1. SubSeq(new, 1, 0) = <<>> /\ SubSeq(kinds, 1, 0) = <<>>
    BY SubSeqEmpty
  <2>2. t \o <<>> = t /\ Own(s, t) \o <<>> = Own(s, t)
    BY <1>3, ConcatEmptySeq
  <2>3. Own(s, t \o SubSeq(new, 1, 0))
          = IF s = r THEN Own(s, t) \o SubSeq(kinds, 1, 0) ELSE Own(s, t)
    BY <2>1, <2>2
  <2>4. 0 \in 0..m
    BY <1>1
  <2> QED BY <2>3, <2>4
<1>5. ASSUME NEW k \in 0..m, k < m, k \in S PROVE k + 1 \in S
  <2> DEFINE a == SubSeq(new, 1, k)
             b == SubSeq(kinds, 1, k)
  <2>1. /\ k + 1 \in 1..m /\ k \in Int /\ k + 1 \in Int /\ (k + 1) - 1 = k
        /\ k + 1 \in 1..Len(new) /\ k + 1 \in 1..Len(kinds)
    BY <1>1, <1>2, <1>5
  <2>2. /\ SubSeq(new, 1, k + 1) = a \o <<new[k + 1]>> /\ a \in Seq(Event)
        /\ SubSeq(kinds, 1, k + 1) = b \o <<kinds[k + 1]>> /\ b \in Seq(Kinds)
    <3>1. 1 \in 1..Len(new) /\ 1 \in 1..Len(kinds) /\ k + 1 \in 1..Len(new) /\ k + 1 \in 1..Len(kinds)
      BY <1>1, <1>2, <2>1
    <3>2. /\ SubSeq(new, 1, k + 1) = SubSeq(new, 1, (k + 1) - 1) \o <<new[k + 1]>>
          /\ SubSeq(kinds, 1, k + 1) = SubSeq(kinds, 1, (k + 1) - 1) \o <<kinds[k + 1]>>
      BY <1>2, <3>1, SubSeqRecursiveSecond
    <3>3. \A i \in 1..k : new[i] \in Event /\ kinds[i] \in Kinds
      BY <1>1, <1>2, <1>5
    <3>4. a \in Seq(Event) /\ b \in Seq(Kinds)
      BY <2>1, <3>3, SubSeqProperties
    <3> QED BY <2>1, <3>2, <3>4
  <2> HIDE DEF a, b
  <2>3. new[k + 1] = [run |-> r, kind |-> kinds[k + 1]] /\ new[k + 1] \in Event /\ kinds[k + 1] \in Kinds
    BY <1>1, <1>2, <2>1
  <2>4. t \o SubSeq(new, 1, k + 1) = Append(t \o a, new[k + 1]) /\ t \o a \in Seq(Event)
    <3>1. TwoAndOne(Event, t, a, new[k + 1])
      BY <2>2, <2>3 DEF TwoAndOne
    <3>2. AppendsToBoth(Event, t, a, new[k + 1])
      BY <3>1, AppendToBoth
    <3> QED BY <2>2, <3>2, Zenon DEF AppendsToBoth
  <2>5. Own(s, t \o SubSeq(new, 1, k + 1))
          = IF s = r THEN Append(Own(s, t \o a), kinds[k + 1]) ELSE Own(s, t \o a)
    <3>1. new[k + 1].run = r /\ new[k + 1].kind = kinds[k + 1]
      BY <2>3
    <3>2. Own(s, Append(t \o a, new[k + 1])) = IF new[k + 1].run = s
            THEN Append(Own(s, t \o a), new[k + 1].kind) ELSE Own(s, t \o a)
      BY <2>3, <2>4, OwnAppend
    <3> QED BY <2>4, <3>1, <3>2
  <2>6. Own(s, t \o a) = IF s = r THEN Own(s, t) \o b ELSE Own(s, t)
    BY <1>5 DEF a, b
  <2>7. Append(Own(s, t) \o b, kinds[k + 1]) = Own(s, t) \o SubSeq(kinds, 1, k + 1)
    <3>1. TwoAndOne(Kinds, Own(s, t), b, kinds[k + 1])
      BY <1>3, <2>2, <2>3 DEF TwoAndOne
    <3>2. AppendsToBoth(Kinds, Own(s, t), b, kinds[k + 1])
      BY <3>1, AppendToBoth
    <3> QED BY <2>2, <3>2, Zenon DEF AppendsToBoth
  <2>8. k + 1 \in 0..m
    BY <2>1
  <2> QED BY <2>5, <2>6, <2>7, <2>8
<1> HIDE DEF S
<1>6. m \in S
  <2>1. \A i \in 0..m : i < m /\ i \in S => i + 1 \in S
    BY <1>5
  <2>2. \A i \in 0..m : i \in S
    BY <1>1, <1>4, <2>1, InductionUpTo
  <2> QED BY <1>1, <2>2
<1>7. SubSeq(new, 1, m) = new /\ SubSeq(kinds, 1, m) = kinds
  BY <1>2, SubSeqFull
<1> QED BY <1>6, <1>7 DEF S

\* The newest of the newest and some more are the newest of all.
LEMMA NewestFacts ==
    ASSUME NEW S, NEW q \in Seq(S)
    PROVE  /\ Newest(q) \in Seq(S)
           /\ Len(Newest(q)) = IF Len(q) > MaxEvents THEN MaxEvents ELSE Len(q)
           /\ \A i \in 1..Len(Newest(q)) : Newest(q)[i] = q[Len(q) - Len(Newest(q)) + i]
<1> DEFINE n == Len(q)
           first == IF n > MaxEvents THEN n - MaxEvents + 1 ELSE 1
           newest == SubSeq(q, first, n)
<1>1. n \in Nat /\ MaxEvents \in Nat \ {0} /\ \A i \in 1..n : q[i] \in S
  BY SdkAssumption, LenProperties, ElementOfSeq
<1>2. Newest(q) = newest
  BY DEF Newest
<1> HIDE DEF n
<1>3. first \in 1..(n + 1) /\ n - first + 1 = IF n > MaxEvents THEN MaxEvents ELSE n
  BY <1>1
<1> HIDE DEF first
<1>4. /\ newest \in Seq(S) /\ Len(newest) = IF first <= n THEN n - first + 1 ELSE 0
      /\ \A i \in 1..(n - first + 1) : newest[i] = q[first + i - 1]
  <2>1. first \in Int /\ n \in Int /\ \A i \in first..n : q[i] \in S
    BY <1>1, <1>3
  <2> QED BY <2>1, SubSeqProperties
<1> HIDE DEF newest
<1>5. Len(newest) = n - first + 1
  BY <1>1, <1>3, <1>4
<1>6. \A i \in 1..(n - first + 1) : first + i - 1 = n - (n - first + 1) + i
  BY <1>1, <1>3
<1> QED BY <1>2, <1>3, <1>4, <1>5, <1>6 DEF n

LEMMA NewestOfNone == Newest(<<>>) = <<>>
<1>1. /\ <<>> \in Seq(Event) /\ Len(<<>>) = 0
      /\ Newest(<<>>) \in Seq(Event)
      /\ Len(Newest(<<>>)) = IF Len(<<>>) > MaxEvents THEN MaxEvents ELSE Len(<<>>)
  BY EmptyFacts, NewestFacts
<1> DEFINE newest == Newest(<<>>)
<1>2. newest \in Seq(Event) /\ Len(newest) = IF 0 > MaxEvents THEN MaxEvents ELSE 0
  BY <1>1
<1> HIDE DEF newest
<1>3. Len(newest) = 0
  BY <1>2, SdkAssumption
<1>4. newest = <<>>
  BY <1>2, <1>3, EmptySeq
<1> QED BY <1>4 DEF newest

LEMMA NewestOfNewest ==
    ASSUME NEW S, NEW t \in Seq(S), NEW new \in Seq(S)
    PROVE  Newest(Newest(t) \o new) = Newest(t \o new)
<1> DEFINE a == Newest(t)
           x == a \o new
           y == t \o new
           l == Len(Newest(y))
<1>1. /\ a \in Seq(S) /\ Len(a) = IF Len(t) > MaxEvents THEN MaxEvents ELSE Len(t)
      /\ \A i \in 1..Len(a) : a[i] = t[Len(t) - Len(a) + i]
  BY NewestFacts
<1> HIDE DEF a
<1>2. /\ x \in Seq(S) /\ Len(x) = Len(a) + Len(new)
      /\ \A i \in 1..Len(a) + Len(new) : x[i] = IF i <= Len(a) THEN a[i] ELSE new[i - Len(a)]
      /\ y \in Seq(S) /\ Len(y) = Len(t) + Len(new)
      /\ \A i \in 1..Len(t) + Len(new) : y[i] = IF i <= Len(t) THEN t[i] ELSE new[i - Len(t)]
  BY <1>1, ConcatProperties
<1> HIDE DEF x, y
<1>3. /\ Newest(x) \in Seq(S) /\ Len(Newest(x)) = IF Len(x) > MaxEvents THEN MaxEvents ELSE Len(x)
      /\ \A i \in 1..Len(Newest(x)) : Newest(x)[i] = x[Len(x) - Len(Newest(x)) + i]
      /\ Newest(y) \in Seq(S) /\ l = IF Len(y) > MaxEvents THEN MaxEvents ELSE Len(y)
      /\ \A i \in 1..l : Newest(y)[i] = y[Len(y) - l + i]
  BY <1>2, NewestFacts
<1>4. Len(t) \in Nat /\ Len(new) \in Nat /\ Len(a) \in Nat /\ l \in Nat /\ MaxEvents \in Nat \ {0}
  BY <1>1, <1>3, SdkAssumption, LenProperties
<1>5. Len(Newest(x)) = l
  <2>1. \A n, k, m \in Nat :
          LET few == IF n > m THEN m ELSE n IN
          (IF few + k > m THEN m ELSE few + k) = IF n + k > m THEN m ELSE n + k
    OBVIOUS
  <2>2. /\ l = IF Len(t) + Len(new) > MaxEvents THEN MaxEvents ELSE Len(t) + Len(new)
        /\ Len(Newest(x)) = IF Len(a) + Len(new) > MaxEvents THEN MaxEvents ELSE Len(a) + Len(new)
    BY <1>2, <1>3
  <2> QED BY <1>1, <1>4, <2>1, <2>2
<1> HIDE DEF l
<1>6. ASSUME NEW i \in 1..l PROVE Newest(x)[i] = Newest(y)[i]
  <2> DEFINE j == Len(new) - l + i
  <2>1. /\ Newest(x)[i] = x[Len(a) + j] /\ Newest(y)[i] = y[Len(t) + j]
        /\ Len(a) + j \in 1..(Len(a) + Len(new)) /\ Len(t) + j \in 1..(Len(t) + Len(new))
        /\ j \in Int
    <3>1. /\ Len(a) + j = Len(x) - l + i /\ Len(t) + j = Len(y) - l + i /\ j \in Int
      BY <1>2, <1>4
    <3>2. l <= Len(x) /\ l <= Len(y)
      BY <1>1, <1>2, <1>3, <1>4
    <3>3. Len(a) + j \in 1..(Len(a) + Len(new)) /\ Len(t) + j \in 1..(Len(t) + Len(new))
      BY <1>2, <1>4, <3>2
    <3> HIDE DEF j
    <3> QED BY <1>3, <1>5, <3>1, <3>3
  <2> HIDE DEF j
  <2>2. PICK p \in 1..(Len(a) + Len(new)), q \in 1..(Len(t) + Len(new)) :
          p = Len(a) + j /\ q = Len(t) + j
    BY <2>1
  <2>3. /\ x[p] = IF p <= Len(a) THEN a[p] ELSE new[p - Len(a)]
        /\ y[q] = IF q <= Len(t) THEN t[q] ELSE new[q - Len(t)]
    BY <1>2
  <2>4. p - Len(a) = j /\ q - Len(t) = j /\ Len(t) - Len(a) + p = q
    BY <1>4, <2>1, <2>2
  <2>5. CASE j <= 0
    <3>1. p <= Len(a) /\ q <= Len(t) /\ p \in 1..Len(a)
      BY <1>4, <2>1, <2>2, <2>5
    <3>2. a[p] = t[q]
      BY <1>1, <2>4, <3>1
    <3> QED BY <2>1, <2>2, <2>3, <3>1, <3>2
  <2>6. CASE j > 0
    <3>1. ~(p <= Len(a)) /\ ~(q <= Len(t))
      BY <1>4, <2>1, <2>2, <2>6
    <3> QED BY <2>1, <2>2, <2>3, <2>4, <3>1
  <2> QED BY <2>1, <2>5, <2>6
<1>7. Newest(x) = Newest(y)
  BY <1>3, <1>5, <1>6, SeqEqual DEF l
<1> QED BY <1>7 DEF a, x, y

\* What is kept of the events stays their end when more of them are recorded, and
\* when the oldest one goes.
LEMMA EndOfEnd ==
    ASSUME NEW S, NEW a \in Seq(S), NEW b \in Seq(S), NEW t \in Seq(S),
           AreNewest(a, b), AreNewest(b, t)
    PROVE  AreNewest(a, t)
<1>1. /\ Len(a) \in Nat /\ Len(b) \in Nat /\ Len(t) \in Nat
      /\ DOMAIN a = 1..Len(a) /\ DOMAIN b = 1..Len(b)
      /\ Len(a) <= Len(b) /\ Len(b) <= Len(t)
  BY LenProperties DEF AreNewest
<1>2. ASSUME NEW i \in 1..Len(a)
      PROVE  a[i] = t[Len(t) - Len(a) + i]
  <2>1. PICK j \in 1..Len(b) : j = Len(b) - Len(a) + i
    <3>1. Len(b) - Len(a) + i \in 1..Len(b)
      BY <1>1
    <3> QED BY <3>1
  <2>2. a[i] = b[j]
    BY <1>1, <2>1 DEF AreNewest
  <2>3. b[j] = t[Len(t) - Len(b) + j]
    BY <1>1 DEF AreNewest
  <2>4. Len(t) - Len(b) + j = Len(t) - Len(a) + i
    BY <1>1, <2>1
  <2> QED BY <2>2, <2>3, <2>4
<1> QED BY <1>1, <1>2 DEF AreNewest

LEMMA EndAndMore ==
    ASSUME NEW S, NEW a \in Seq(S), NEW t \in Seq(S), NEW new \in Seq(S), AreNewest(a, t)
    PROVE  AreNewest(a \o new, t \o new)
<1> DEFINE x == a \o new
           y == t \o new
<1>1. /\ Len(a) \in Nat /\ Len(t) \in Nat /\ Len(new) \in Nat
      /\ DOMAIN a = 1..Len(a) /\ Len(a) <= Len(t)
  BY LenProperties DEF AreNewest
<1>2. /\ x \in Seq(S) /\ Len(x) = Len(a) + Len(new)
      /\ \A i \in 1..Len(a) + Len(new) : x[i] = IF i <= Len(a) THEN a[i] ELSE new[i - Len(a)]
      /\ y \in Seq(S) /\ Len(y) = Len(t) + Len(new)
      /\ \A i \in 1..Len(t) + Len(new) : y[i] = IF i <= Len(t) THEN t[i] ELSE new[i - Len(t)]
  BY ConcatProperties
<1> HIDE DEF x, y
<1>3. ASSUME NEW i \in 1..Len(a) + Len(new)
      PROVE  x[i] = y[Len(y) - Len(x) + i]
  <2>1. PICK j \in 1..Len(t) + Len(new) : j = Len(t) - Len(a) + i
    <3>1. Len(t) - Len(a) + i \in 1..Len(t) + Len(new)
      BY <1>1
    <3> QED BY <3>1
  <2>2. j = Len(y) - Len(x) + i
    BY <1>1, <1>2, <2>1
  <2>3. CASE i <= Len(a)
    <3>1. i \in 1..Len(a) /\ j <= Len(t)
      BY <1>1, <2>1, <2>3
    <3>2. a[i] = t[j]
      BY <1>1, <2>1, <3>1 DEF AreNewest
    <3> QED BY <1>2, <2>2, <2>3, <3>1, <3>2
  <2>4. CASE ~(i <= Len(a))
    <3>1. ~(j <= Len(t)) /\ j - Len(t) = i - Len(a)
      BY <1>1, <2>1, <2>4
    <3> QED BY <1>2, <2>2, <2>4, <3>1
  <2> QED BY <2>3, <2>4
<1>4. DOMAIN x = 1..Len(a) + Len(new) /\ Len(x) <= Len(y)
  BY <1>1, <1>2, LenProperties
<1>5. AreNewest(x, y)
  BY <1>3, <1>4 DEF AreNewest
<1> QED BY <1>5 DEF x, y

LEMMA NewestAreNewest ==
    ASSUME NEW S, NEW q \in Seq(S)
    PROVE  AreNewest(Newest(q), q)
<1>1. /\ Newest(q) \in Seq(S) /\ Len(q) \in Nat /\ MaxEvents \in Nat
      /\ Len(Newest(q)) = IF Len(q) > MaxEvents THEN MaxEvents ELSE Len(q)
      /\ \A i \in 1..Len(Newest(q)) : Newest(q)[i] = q[Len(q) - Len(Newest(q)) + i]
  BY NewestFacts, LenProperties, SdkAssumption
<1>2. DOMAIN Newest(q) = 1..Len(Newest(q))
  BY <1>1, LenProperties
<1>3. Len(Newest(q)) <= Len(q)
  BY <1>1
<1> QED BY <1>1, <1>2, <1>3 DEF AreNewest

LEMMA EndAndMoreOfIt ==
    ASSUME NEW S, NEW a \in Seq(S), NEW t \in Seq(S), NEW new \in Seq(S), AreNewest(a, t)
    PROVE  AreNewest(Newest(a \o new), t \o new)
<1>1. PICK x \in Seq(S), y \in Seq(S) : x = a \o new /\ y = t \o new
  BY ConcatProperties
<1>2. AreNewest(x, y)
  BY <1>1, EndAndMore
<1>3. Newest(x) \in Seq(S) /\ AreNewest(Newest(x), x)
  BY NewestFacts, NewestAreNewest
<1>4. AreNewest(Newest(x), y)
  BY <1>2, <1>3, EndOfEnd
<1> QED BY <1>1, <1>4

LEMMA TailIsEnd ==
    ASSUME NEW S, NEW a \in Seq(S), a # <<>>
    PROVE  Tail(a) \in Seq(S) /\ AreNewest(Tail(a), a)
<1>1. /\ Tail(a) \in Seq(S) /\ Len(Tail(a)) = Len(a) - 1 /\ Len(a) \in Nat
      /\ \A i \in 1..Len(Tail(a)) : Tail(a)[i] = a[i + 1]
  BY HeadTailProperties, LenProperties
<1>2. DOMAIN Tail(a) = 1..Len(Tail(a)) /\ Len(Tail(a)) \in Nat
  BY <1>1, LenProperties
<1>3. ASSUME NEW i \in DOMAIN Tail(a)
      PROVE  Tail(a)[i] = a[Len(a) - Len(Tail(a)) + i]
  <2>1. i \in 1..Len(Tail(a)) /\ Len(a) - Len(Tail(a)) + i = i + 1
    BY <1>1, <1>2
  <2> QED BY <1>1, <2>1
<1>4. Len(Tail(a)) <= Len(a)
  BY <1>1
<1> QED BY <1>1, <1>3, <1>4 DEF AreNewest

-----------------------------------------------------------------------------
(* The trace of the runs *)

Told == {"step", "sdk", "local", "answered"}

\* A run and its own events.
TraceFine(s, own) ==
    /\ s.pc = "idle" => own = <<>>
    /\ s.pc = "step" => s.spans = <<>>
    /\ s.pc \in Told => own = Traced(s)

\* What the monitoring layer holds.
Remembered ==
    /\ AreNewest(recent, trace)
    /\ ~cfg.shared => recent = Newest(trace)

TraceInv ==
    /\ SdkInv
    /\ \A r \in Run : TraceFine(run[r], Own(r, trace))
    /\ Remembered

Start(s) == IF s.req.kind = "workflow" THEN <<"handoff">> ELSE <<>>

LEMMA StartType == ASSUME NEW s PROVE Start(s) \in Seq(Kinds)
<1>1. <<"handoff">> \in Seq(Kinds) /\ <<>> \in Seq(Kinds)
  BY DEF Kinds
<1> QED BY <1>1 DEF Start

LEMMA TracedIs ==
    ASSUME NEW s \in RunState
    PROVE  /\ s.pc = "answered" => Traced(s) = Story(Start(s), s.results)
           /\ s.pc # "answered" => Traced(s) = Story(Start(s), s.results) \o (Start(s) \o s.spans)
           /\ Story(Start(s), s.results) \in Seq(Kinds)
<1>1. Story(Start(s), s.results) \in Seq(Kinds)
  <2>1. PICK g : /\ Iterates(g, Len(s.results), Seq(Kinds), <<>>, StoryTurns(Start(s), s.results))
                 /\ Story(Start(s), s.results) = g[Len(s.results)]
    BY StartType, StoryIterates DEF RunState
  <2>2. Len(s.results) \in 0..Len(s.results)
    BY DEF RunState
  <2> QED BY <2>1, <2>2 DEF Iterates
<1>2. Story(Start(s), s.results) \o <<>> = Story(Start(s), s.results)
  BY <1>1, ConcatEmptySeq
<1> QED BY <1>1, <1>2 DEF Traced, Start

\* Sequences that are put together in two ways, and the ways.  The provers take
\* one equation at a time, so neither is unfolded where the other is used.
AllIn(S, a, b, p, k, m, h) ==
    /\ a \in Seq(S) /\ b \in Seq(S) /\ p \in Seq(S)
    /\ k \in Seq(S) /\ m \in Seq(S) /\ h \in Seq(S)

Regrouped(a, b, p, k, m, h) ==
    /\ (a \o (b \o p)) \o k = a \o (b \o (p \o k))
    /\ (a \o (b \o p)) \o (k \o m) = a \o (b \o ((p \o k) \o m))
    /\ (a \o (b \o p)) \o (k \o (m \o h)) = (a \o (b \o ((p \o k) \o m))) \o h

LEMMA Regroup ==
    ASSUME NEW S, NEW a, NEW b, NEW p, NEW k, NEW m, NEW h, AllIn(S, a, b, p, k, m, h)
    PROVE  Regrouped(a, b, p, k, m, h)
<1>a. a \in Seq(S)
  BY DEF AllIn
<1>b. b \in Seq(S)
  BY DEF AllIn
<1>p. p \in Seq(S)
  BY DEF AllIn
<1>k. k \in Seq(S)
  BY DEF AllIn
<1>m. m \in Seq(S)
  BY DEF AllIn
<1>h. h \in Seq(S)
  BY DEF AllIn
<1>1. (b \o p) \o k = b \o (p \o k) /\ b \o p \in Seq(S)
  BY <1>b, <1>p, <1>k, Associates
<1>2. PICK bp : bp = b \o p
  OBVIOUS
<1>3. bp \in Seq(S)
  BY <1>1, <1>2
<1>4. (a \o bp) \o k = a \o (bp \o k) /\ a \o bp \in Seq(S)
  BY <1>a, <1>3, <1>k, Associates
<1>5. PICK abp : abp = a \o bp
  OBVIOUS
<1>6. abp \in Seq(S)
  BY <1>4, <1>5
<1>7. (abp \o k) \o m = abp \o (k \o m)
  BY <1>6, <1>k, <1>m, Associates
<1>8. (k \o m) \o h = k \o (m \o h) /\ k \o m \in Seq(S)
  BY <1>k, <1>m, <1>h, Associates
<1>9. PICK km : km = k \o m
  OBVIOUS
<1>10. km \in Seq(S)
  BY <1>8, <1>9
<1>11. (abp \o km) \o h = abp \o (km \o h)
  BY <1>6, <1>10, <1>h, Associates
<1>12. p \o k \in Seq(S)
  BY <1>p, <1>k, Associates
<1>13. PICK pk : pk = p \o k
  OBVIOUS
<1>14. pk \in Seq(S)
  BY <1>12, <1>13
<1>15. (b \o pk) \o m = b \o (pk \o m) /\ b \o pk \in Seq(S)
  BY <1>b, <1>14, <1>m, Associates
<1>16. PICK bpk : bpk = b \o pk
  OBVIOUS
<1>17. bpk \in Seq(S)
  BY <1>15, <1>16
<1>18. (a \o bpk) \o m = a \o (bpk \o m)
  BY <1>a, <1>17, <1>m, Associates
<1>19. abp \o k = a \o bpk
  BY <1>1, <1>2, <1>4, <1>5, <1>13, <1>16, Zenon
<1>20. abp \o km = a \o (b \o (pk \o m))
  BY <1>7, <1>9, <1>15, <1>16, <1>18, <1>19, Zenon
<1>21. abp \o (k \o (m \o h)) = (a \o (b \o (pk \o m))) \o h
  BY <1>8, <1>9, <1>11, <1>20, Zenon
<1>22. (a \o (b \o p)) \o k = a \o (b \o (p \o k))
  BY <1>2, <1>5, <1>13, <1>16, <1>19, Zenon
<1>23. (a \o (b \o p)) \o (k \o m) = a \o (b \o ((p \o k) \o m))
  BY <1>2, <1>5, <1>9, <1>13, <1>20, Zenon
<1>24. (a \o (b \o p)) \o (k \o (m \o h)) = (a \o (b \o ((p \o k) \o m))) \o h
  BY <1>2, <1>5, <1>13, <1>21, Zenon
<1> QED BY <1>22, <1>23, <1>24, Zenon DEF Regrouped

\* One run changes and records what becomes of it.
LEMMA OneTrace ==
    ASSUME TraceInv, SdkInv', UNCHANGED cfg, NEW r \in Run, NEW s \in RunState,
           run' = [run EXCEPT ![r] = s],
           NEW kinds \in Seq(Kinds), Record(r, kinds), TraceFine(s, Own(r, trace) \o kinds)
    PROVE  TraceInv'
<1> DEFINE new == [i \in DOMAIN kinds |-> [run |-> r, kind |-> kinds[i]]]
<1>1. trace' = trace \o new /\ recent' = Newest(recent \o new)
  BY DEF Record
<1>2. trace \in Seq(Event) /\ run \in [Run -> RunState]
  BY DEF TraceInv, SdkInv, TypeOK
<1>3. ASSUME NEW q \in Run PROVE TraceFine(run[q], Own(q, trace))'
  <2>1. Own(q, trace') = IF q = r THEN Own(q, trace) \o kinds ELSE Own(q, trace)
    <3>1. Own(q, trace \o new) = IF q = r THEN Own(q, trace) \o kinds ELSE Own(q, trace)
      BY <1>2, RecordOwn
    <3> QED BY <1>1, <3>1, Zenon
  <2>2. run'[q] = IF q = r THEN s ELSE run[q]
    BY <1>2
  <2>3. TraceFine(run'[q], Own(q, trace'))
    BY <2>1, <2>2 DEF TraceInv
  <2> QED BY <2>3 DEF TraceFine, Traced, Story, Own
<1>4. AreNewest(recent', trace') /\ (~cfg.shared => recent' = Newest(trace'))
  <2>1. new \in Seq(Event)
    <3>1. DOMAIN kinds = 1..Len(kinds) /\ Len(kinds) \in Nat
      BY LenProperties
    <3>2. \A i \in 1..Len(kinds) : kinds[i] \in Kinds
      BY ElementOfSeq
    <3>3. \A i \in 1..Len(kinds) : [run |-> r, kind |-> kinds[i]] \in Event
      BY <3>2 DEF Event
    <3>4. new \in [1..Len(kinds) -> Event]
      BY <3>1, <3>3
    <3> HIDE DEF new
    <3> QED BY <3>1, <3>4
  <2> HIDE DEF new
  <2>2. AreNewest(Newest(recent \o new), trace \o new)
    <3>1. recent \in Seq(Event) /\ AreNewest(recent, trace)
      BY DEF TraceInv, SdkInv, TypeOK, Remembered
    <3> QED BY <1>2, <2>1, <3>1, EndAndMoreOfIt
  <2>3. ~cfg.shared => Newest(recent \o new) = Newest(trace \o new)
    BY <1>2, <2>1, NewestOfNewest DEF TraceInv, Remembered
  <2> QED BY <1>1, <2>2, <2>3
<1> QED BY <1>3, <1>4 DEF TraceInv, Remembered, AreNewest, Newest

LEMMA SaveThenHandoff == <<"memory">> \o <<"handoff">> = <<"memory", "handoff">>
<1> DEFINE S == {"memory", "handoff"}
<1>1. <<"memory">> \in Seq(S) /\ <<"handoff">> \in Seq(S) /\ <<"memory", "handoff">> \in Seq(S)
  OBVIOUS
<1> HIDE DEF S
<1>2. /\ Len(<<"memory">>) = 1 /\ Len(<<"handoff">>) = 1 /\ Len(<<"memory", "handoff">>) = 2
      /\ <<"memory">>[1] = "memory" /\ <<"handoff">>[1] = "handoff"
      /\ <<"memory", "handoff">>[1] = "memory" /\ <<"memory", "handoff">>[2] = "handoff"
  OBVIOUS
<1> DEFINE q == <<"memory">> \o <<"handoff">>
<1>3. /\ q \in Seq(S) /\ Len(q) = 1 + 1
      /\ \A i \in 1..(1 + 1) : q[i] = IF i <= 1 THEN <<"memory">>[i] ELSE <<"handoff">>[i - 1]
  BY <1>1, <1>2, ConcatProperties
<1> HIDE DEF q
<1>4. q[1] = "memory" /\ q[2] = "handoff" /\ Len(q) = 2
  BY <1>2, <1>3
<1>5. \A i \in 1..2 : q[i] = <<"memory", "handoff">>[i]
  BY <1>2, <1>4
<1> QED BY <1>1, <1>2, <1>3, <1>4, <1>5, SeqEqual DEF q

\* A run whose result lists what it has recorded of the step, and that ends or goes on.
LEMMA ConcludeTraces ==
    ASSUME TraceInv, SdkInv', UNCHANGED cfg, NEW r \in Run, run[r].pc \in InProgress,
           NEW kinds \in Seq(Kinds), NEW result \in Result, NEW failed \in BOOLEAN,
           result.spans = run[r].spans \o kinds, Conclude(r, kinds, result, failed)
    PROVE  TraceInv'
<1> DEFINE own == Own(r, trace)
           past == Story(Start(run[r]), run[r].results)
           start == Start(run[r])
           spans == run[r].spans
           memory == <<"memory">>
           handoff == <<"handoff">>
           answer == IF failed THEN [result EXCEPT !.reason = "sdk_failed"] ELSE result
<1>1. /\ run[r] \in RunState /\ own = past \o (start \o spans) /\ run \in [Run -> RunState]
      /\ run[r].results \in Seq(Result)
  <2>1. run[r] \in RunState /\ run[r].pc \in Told /\ run[r].pc # "answered" /\ run \in [Run -> RunState]
    BY DEF InProgress, Told, TraceInv, SdkInv, TypeOK
  <2>2. own = Traced(run[r])
    BY <2>1 DEF TraceInv, TraceFine
  <2>3. run[r].results \in Seq(Result)
    BY <2>1 DEF RunState
  <2> QED BY <2>1, <2>2, <2>3, TracedIs
<1>2. /\ past \in Seq(Kinds) /\ start \in Seq(Kinds) /\ spans \in Seq(Kinds)
      /\ memory \in Seq(Kinds) /\ handoff \in Seq(Kinds)
  <2>1. spans \in Seq(Kinds)
    BY <1>1 DEF RunState
  <2>2. memory \in Seq(Kinds) /\ handoff \in Seq(Kinds)
    BY DEF Kinds
  <2> QED BY <1>1, <2>1, <2>2, TracedIs, StartType
<1>3. /\ own \o (kinds \o memory) = past \o (start \o (result.spans \o memory))
      /\ own \o (kinds \o (memory \o handoff))
           = (past \o (start \o (result.spans \o memory))) \o handoff
  <2>1. AllIn(Kinds, past, start, spans, kinds, memory, handoff)
    BY <1>2 DEF AllIn
  <2> HIDE DEF past, start, spans, memory, handoff, own
  <2>2. /\ (past \o (start \o spans)) \o (kinds \o memory) = past \o (start \o ((spans \o kinds) \o memory))
        /\ (past \o (start \o spans)) \o (kinds \o (memory \o handoff))
             = (past \o (start \o ((spans \o kinds) \o memory))) \o handoff
    <3>1. Regrouped(past, start, spans, kinds, memory, handoff)
      BY <2>1, Regroup
    <3> QED BY <3>1, Zenon DEF Regrouped
  <2>3. result.spans = spans \o kinds
    BY DEF spans
  <2> QED BY <1>1, <2>2, <2>3, Zenon
<1>4. memory \o handoff = <<"memory", "handoff">>
  BY SaveThenHandoff
<1>5. answer \in Result /\ answer.spans = result.spans
  BY DEF Result, Reasons
<1> HIDE DEF answer
<1>6. Story(start, Append(run[r].results, answer)) = past \o (start \o (result.spans \o memory))
  <2>1. Story(start, Append(run[r].results, answer))
          = Story(start, run[r].results) \o (start \o (answer.spans \o memory))
    <3> HIDE DEF start
    <3> QED BY <1>1, <1>2, <1>5, StoryAppend
  <2> QED BY <1>5, <2>1
<1>7. CASE Record(r, kinds \o Saved(r, result)) /\ Returns(r, result, failed)
  <2>1. CASE GoesOn(r, result)
    <3> DEFINE s == Continued(run[r], result, answer)
    <3>1. run' = [run EXCEPT ![r] = s]
      BY <1>7, <2>1 DEF Returns, answer
    <3>2. /\ s.pc = "step" /\ s.spans = <<>> /\ s.results = Append(run[r].results, answer)
          /\ s.req = run[r].req
      BY <1>1 DEF Continued, RunState
    <3>3. s \in RunState
      <4>1. run'[r] = s /\ run'[r] \in RunState' /\ UNCHANGED cfg
        <5> HIDE DEF s
        <5> QED BY <1>1, <3>1 DEF SdkInv, TypeOK
      <4> QED BY <4>1, Zenon DEF RunState
    <3> HIDE DEF s
    <3>4. Start(s) = start /\ start = handoff
      BY <2>1, <3>2 DEF Start, GoesOn, IsWorkflow
    <3>5. Traced(s) = (past \o (start \o (result.spans \o memory))) \o handoff
      <4>1. Traced(s) = Story(start, s.results) \o (start \o <<>>)
        BY <3>2, <3>3, <3>4, TracedIs
      <4>2. start \o <<>> = handoff
        BY <1>2, <3>4, ConcatEmptySeq
      <4> QED BY <1>6, <3>2, <4>1, <4>2
    <3>6. Saved(r, result) = memory \o handoff
      BY <1>4, <2>1 DEF Saved
    <3>7. kinds \o (memory \o handoff) \in Seq(Kinds)
      BY <1>2
    <3>8. TraceFine(s, own \o (kinds \o (memory \o handoff)))
      BY <1>3, <3>2, <3>5 DEF TraceFine
    <3> QED BY <1>7, <3>1, <3>3, <3>6, <3>7, <3>8, OneTrace
  <2>2. CASE ~GoesOn(r, result)
    <3> DEFINE s == Ended(run[r], answer)
    <3>1. run' = [run EXCEPT ![r] = s]
      BY <1>7, <2>2 DEF Returns, answer
    <3>2. /\ s.pc = "answered" /\ s.results = Append(run[r].results, answer) /\ s.req = run[r].req
      BY <1>1 DEF Ended, RunState
    <3>3. s \in RunState
      <4>1. run'[r] = s /\ run'[r] \in RunState' /\ UNCHANGED cfg
        <5> HIDE DEF s
        <5> QED BY <1>1, <3>1 DEF SdkInv, TypeOK
      <4> QED BY <4>1, Zenon DEF RunState
    <3> HIDE DEF s
    <3>4. Start(s) = start
      BY <3>2 DEF Start
    <3>5. Traced(s) = past \o (start \o (result.spans \o memory))
      BY <1>6, <3>2, <3>3, <3>4, TracedIs
    <3>6. Saved(r, result) = memory
      BY <2>2 DEF Saved
    <3>7. kinds \o memory \in Seq(Kinds)
      BY <1>2
    <3>8. TraceFine(s, own \o (kinds \o memory))
      BY <1>3, <3>2, <3>5 DEF TraceFine
    <3> QED BY <1>7, <3>1, <3>3, <3>6, <3>7, <3>8, OneTrace
  <2> QED BY <2>1, <2>2
<1>8. CASE Record(r, kinds) /\ Raises(r)
  <2> DEFINE s == [run[r] EXCEPT !.pc = "raised"]
  <2>1. run' = [run EXCEPT ![r] = s] /\ s \in RunState /\ s.pc = "raised"
    BY <1>1, <1>8 DEF Raises, RunState
  <2> HIDE DEF s
  <2>2. TraceFine(s, own \o kinds)
    BY <2>1 DEF TraceFine, Told
  <2> QED BY <1>8, <2>1, <2>2, OneTrace
<1> QED BY <1>7, <1>8 DEF Conclude

\* A run that suspends with what it has recorded among its spans.
LEMMA SuspendTraces ==
    ASSUME TraceInv, SdkInv', UNCHANGED cfg, NEW r \in Run, run[r].pc \in InProgress,
           NEW kinds \in Seq(Kinds), Record(r, kinds), NEW s, run' = [run EXCEPT ![r] = s],
           s.pc \in {"sdk", "local"}, s.req = run[r].req, s.results = run[r].results,
           s.spans = run[r].spans \o kinds
    PROVE  TraceInv'
<1>1. run[r] \in RunState /\ run \in [Run -> RunState] /\ run[r].spans \in Seq(Kinds)
  BY DEF TraceInv, SdkInv, TypeOK, RunState
<1>2. s \in RunState
  <2>1. run'[r] = s /\ run'[r] \in RunState'
    BY <1>1 DEF SdkInv, TypeOK
  <2> QED BY <2>1, Zenon DEF RunState
<1>3. Own(r, trace) = Story(Start(run[r]), run[r].results) \o (Start(run[r]) \o run[r].spans)
  <2>1. run[r].pc \in Told /\ run[r].pc # "answered"
    BY DEF InProgress, Told
  <2>2. Own(r, trace) = Traced(run[r])
    BY <2>1 DEF TraceInv, TraceFine
  <2> QED BY <1>1, <2>1, <2>2, TracedIs
<1>4. Start(s) = Start(run[r])
  BY DEF Start
<1>5. Traced(s) = Story(Start(run[r]), run[r].results)
                  \o (Start(run[r]) \o (run[r].spans \o kinds))
  BY <1>2, <1>4, TracedIs
<1>6. Own(r, trace) \o kinds = Traced(s)
  <2>1. /\ Story(Start(run[r]), run[r].results) \in Seq(Kinds) /\ Start(run[r]) \in Seq(Kinds)
    BY <1>1, TracedIs, StartType
  <2>2. (Story(Start(run[r]), run[r].results) \o (Start(run[r]) \o run[r].spans)) \o kinds
          = Story(Start(run[r]), run[r].results) \o (Start(run[r]) \o (run[r].spans \o kinds))
    <3> DEFINE past == Story(Start(run[r]), run[r].results)
               start == Start(run[r])
               spans == run[r].spans
    <3>1. AllIn(Kinds, past, start, spans, kinds, kinds, kinds)
      BY <1>1, <2>1 DEF AllIn
    <3> HIDE DEF past, start, spans
    <3>2. Regrouped(past, start, spans, kinds, kinds, kinds)
      BY <3>1, Regroup
    <3>3. (past \o (start \o spans)) \o kinds = past \o (start \o (spans \o kinds))
      BY <3>2, Zenon DEF Regrouped
    <3> QED BY <3>3 DEF past, start, spans
  <2> QED BY <1>3, <1>5, <2>2, Zenon
<1>7. TraceFine(s, Own(r, trace) \o kinds)
  BY <1>6 DEF TraceFine
<1> QED BY <1>2, <1>7, OneTrace

LEMMA FallbackTraces ==
    ASSUME TraceInv, SdkInv', UNCHANGED cfg, NEW r \in Run, run[r].pc \in InProgress,
           Current(r) \in Agent, Unflagged(Given(r)), NEW spans \in Seq(Kinds),
           NEW kinds \in Seq(Kinds), spans = run[r].spans \o kinds,
           NEW failed \in BOOLEAN, LocalFallback(r, spans, kinds, failed)
    PROVE  TraceInv'
<1> DEFINE listed == Append(spans, "fallback")
           more == Append(kinds, "fallback")
<1>1. /\ listed \in Seq(Kinds) /\ more \in Seq(Kinds) /\ run[r] \in RunState
      /\ run \in [Run -> RunState] /\ run[r].spans \in Seq(Kinds) /\ SdkInv
  <2>1. listed \in Seq(Kinds) /\ more \in Seq(Kinds)
    BY DEF Kinds
  <2>2. SdkInv /\ run \in [Run -> RunState]
    BY DEF TraceInv, SdkInv, TypeOK
  <2>3. run[r] \in RunState /\ run[r].spans \in Seq(Kinds)
    BY <2>2 DEF RunState
  <2> QED BY <2>1, <2>2, <2>3
<1>2. listed = run[r].spans \o more
  <2>1. "fallback" \in Kinds /\ <<"fallback">> \in Seq(Kinds)
    BY DEF Kinds
  <2>2. listed = (run[r].spans \o kinds) \o <<"fallback">> /\ more = kinds \o <<"fallback">>
    BY <2>1, AppendIsConcat
  <2>3. (run[r].spans \o kinds) \o <<"fallback">> = run[r].spans \o (kinds \o <<"fallback">>)
    <3> DEFINE own == run[r].spans
               last == <<"fallback">>
    <3>1. own \in Seq(Kinds) /\ last \in Seq(Kinds) /\ kinds \in Seq(Kinds)
      BY <1>1, <2>1
    <3> HIDE DEF own, last
    <3>2. (own \o kinds) \o last = own \o (kinds \o last)
      BY <3>1, Associates
    <3> QED BY <3>2 DEF own, last
  <2> HIDE DEF listed, more
  <2> QED BY <2>2, <2>3, Zenon
<1> HIDE DEF listed, more
<1>3. CASE /\ run' = [run EXCEPT ![r] = [@ EXCEPT !.pc = "local", !.failed = failed, !.spans = listed]]
           /\ Record(r, more)
  <2> DEFINE s == [run[r] EXCEPT !.pc = "local", !.failed = failed, !.spans = listed]
  <2>1. run' = [run EXCEPT ![r] = s]
    BY <1>1, <1>3
  <2>2. s.pc = "local" /\ s.req = run[r].req /\ s.results = run[r].results /\ s.spans = listed
    BY <1>1 DEF RunState
  <2> HIDE DEF s
  <2> QED BY <1>1, <1>2, <1>3, <2>1, <2>2, SuspendTraces
<1>4. CASE Conclude(r, more, ResultOf(r, listed, "mock", Repeated(r), "unavailable"), failed)
  <2>1. "mock" \in Runtimes /\ "unavailable" \in Reasons
    BY DEF Runtimes, Reasons
  <2>2. ResultOf(r, listed, "mock", Repeated(r), "unavailable") \in Result
    BY <1>1, <2>1, RequestFacts, ResultOfFacts
  <2>3. ResultOf(r, listed, "mock", Repeated(r), "unavailable").spans = listed
    BY DEF ResultOf
  <2> QED BY <1>1, <1>2, <1>4, <2>2, <2>3, ConcludeTraces
<1> QED BY <1>3, <1>4 DEF LocalFallback, listed, more

LEMMA RunAgentTraces ==
    ASSUME TraceInv, SdkInv', NEW r \in Run, RunAgent(r)
    PROVE  TraceInv'
<1> DEFINE q == run[r].req
           spans == <<"agent", "guardrail">>
           allowed == Allowed(Current(r), GuardedText(r), q.approved, q.dry)
<1>1. /\ run[r].pc = "step" /\ run[r].pc \in InProgress /\ Current(r) \in Agent /\ UNCHANGED cfg
      /\ spans \in Seq(Kinds) /\ (allowed => Unflagged(Given(r))) /\ SdkInv
  BY CurrentIsCur DEF RunAgent, InProgress, Kinds, Allowed, Unflagged, TraceInv
<1>2. "guardrail_blocked" \in Runtimes /\ "dry_run" \in Runtimes /\ "none" \in Reasons
      /\ {} \in SUBSET Marker /\ FALSE \in BOOLEAN
  BY DEF Runtimes, Reasons
<1> HIDE DEF spans
<1>3. run[r].spans = <<>> /\ spans = run[r].spans \o spans
  <2>1. run[r].spans = <<>>
    BY <1>1 DEF TraceInv, TraceFine
  <2>2. <<>> \o spans = spans
    BY <1>1, ConcatEmptySeq
  <2> QED BY <2>1, <2>2
<1>4. \A runtime, out, reason : ResultOf(r, spans, runtime, out, reason).spans = spans
  BY DEF ResultOf
<1>5. CASE Conclude(r, spans, ResultOf(r, spans, "guardrail_blocked", {}, "none"), FALSE)
  <2>1. ResultOf(r, spans, "guardrail_blocked", {}, "none") \in Result
    BY <1>1, <1>2, ResultOfFacts
  <2> QED BY <1>1, <1>2, <1>3, <1>4, <1>5, <2>1, ConcludeTraces
<1>6. CASE allowed /\ Conclude(r, spans, ResultOf(r, spans, "dry_run", Repeated(r), "none"), FALSE)
  <2>1. ResultOf(r, spans, "dry_run", Repeated(r), "none") \in Result
    BY <1>1, <1>2, <1>6, RequestFacts, ResultOfFacts
  <2> QED BY <1>1, <1>2, <1>3, <1>4, <1>6, <2>1, ConcludeTraces
<1>7. CASE /\ run' = [run EXCEPT ![r] = [@ EXCEPT !.pc = "sdk", !.spans = spans,
                                                  !.active = Current(r)]]
           /\ Record(r, spans)
  <2> DEFINE s == [run[r] EXCEPT !.pc = "sdk", !.spans = spans, !.active = Current(r)]
  <2>1. run[r] \in RunState /\ run' = [run EXCEPT ![r] = s]
    BY <1>7 DEF TraceInv, SdkInv, TypeOK
  <2>2. s.pc = "sdk" /\ s.req = run[r].req /\ s.results = run[r].results /\ s.spans = spans
    BY <2>1 DEF RunState
  <2> HIDE DEF s
  <2>3. /\ run[r].pc \in InProgress /\ UNCHANGED cfg /\ spans \in Seq(Kinds) /\ Record(r, spans)
        /\ run' = [run EXCEPT ![r] = s] /\ s.pc \in {"sdk", "local"} /\ s.req = run[r].req
        /\ s.results = run[r].results /\ s.spans = run[r].spans \o spans
    BY <1>1, <1>3, <1>7, <2>1, <2>2
  <2> QED BY <2>3, SuspendTraces
<1>8. CASE allowed /\ LocalFallback(r, spans, spans, FALSE)
  BY <1>1, <1>2, <1>3, <1>8, FallbackTraces
<1> QED BY <1>5, <1>6, <1>7, <1>8 DEF RunAgent, spans

LEMMA RunnerTraces ==
    ASSUME TraceInv, SdkInv', NEW r \in Run,
           RunnerReturns(r) \/ RunnerFails(r) \/ OllamaReturns(r)
    PROVE  TraceInv'
<1>1. /\ run[r] \in RunState /\ run[r].pc \in InProgress /\ UNCHANGED cfg /\ SdkInv
      /\ RunFine(run[r], rows[r]) /\ run[r].pc \in {"sdk", "local"}
  BY DEF RunnerReturns, RunnerFails, OllamaReturns, Resumes, InProgress, TraceInv, SdkInv, TypeOK
<1>2. /\ <<>> \in Seq(Kinds) /\ run[r].spans \in Seq(Kinds) /\ run[r].failed \in BOOLEAN
      /\ run[r].spans \o <<>> = run[r].spans
  <2>1. run[r].spans \in Seq(Kinds) /\ run[r].failed \in BOOLEAN
    BY <1>1 DEF RunState
  <2> QED BY <2>1, EmptyFacts, ConcatEmptySeq
<1>3. Current(r) \in Agent /\ Unflagged(Given(r))
  BY <1>1, CurrentIsCur DEF RunFine, WorkFine
<1>4. \A out \in Outputs \cup {Repeated(r)} : out \in SUBSET Marker
  BY <1>1, RequestFacts, SdkAssumption
<1>5. \A runtime, out, reason : ResultOf(r, run[r].spans, runtime, out, reason).spans = run[r].spans
  BY DEF ResultOf
<1>6. CASE RunnerReturns(r)
  <2>1. PICK out \in Outputs \cup {Repeated(r)} :
          Conclude(r, <<>>, ResultOf(r, run[r].spans, "openai_agents_sdk", out, "none"), FALSE)
    BY <1>6 DEF RunnerReturns
  <2>2. ~NeedsApproval(Current(r)) /\ run[r].pc = "sdk"
    BY <1>3, <1>6, CurrentIsCur DEF RunnerReturns, Resumes, Tripped, Allowed, Unflagged
  <2>3. CanUseOpenAI /\ InReach(Current(r), run[r].used)
    BY <1>1, <2>2, CurrentIsCur DEF RunFine, WorkFine
  <2>4. "openai_agents_sdk" \in Runtimes /\ "none" \in Reasons
    BY DEF Runtimes, Reasons
  <2>5. ResultOf(r, run[r].spans, "openai_agents_sdk", out, "none") \in Result
    BY <1>1, <1>2, <1>3, <1>4, <2>2, <2>3, <2>4, ResultOfFacts
  <2> QED BY <1>1, <1>2, <1>5, <2>1, <2>5, ConcludeTraces
<1>7. CASE RunnerFails(r)
  <2>1. "fallback" \in Kinds /\ <<"fallback">> \in Seq(Kinds)
    BY DEF Kinds
  <2>2. /\ Append(run[r].spans, "fallback") \in Seq(Kinds)
        /\ Append(run[r].spans, "fallback") = run[r].spans \o <<"fallback">>
    BY <1>2, <2>1, AppendProperties, AppendIsConcat
  <2> QED BY <1>1, <1>3, <1>7, <2>1, <2>2, FallbackTraces DEF RunnerFails
<1>8. CASE OllamaReturns(r)
  <2>1. PICK out \in Outputs \cup {Repeated(r)}, reason \in {"unavailable", "ollama_failed"} :
          Conclude(r, <<>>, ResultOf(r, run[r].spans, "ollama", out, reason), run[r].failed)
    BY <1>8 DEF OllamaReturns
  <2>2. "ollama" \in Runtimes /\ reason \in Reasons
    BY DEF Runtimes, Reasons
  <2>3. ResultOf(r, run[r].spans, "ollama", out, reason) \in Result
    BY <1>1, <1>2, <1>3, <1>4, <2>2, ResultOfFacts
  <2> QED BY <1>1, <1>2, <1>5, <2>1, <2>3, ConcludeTraces
<1> QED BY <1>6, <1>7, <1>8

\* The steps that record nothing.
LEMMA QuietTraces ==
    ASSUME TraceInv, SdkInv', NEW r \in Run,
           \/ OllamaRaises(r) \/ UnknownAgent(r)
           \/ \E call \in ToolCalls : CallTool(r, call[1], call[2])
           \/ \E a \in Agent : HandOff(r, a)
    PROVE  TraceInv'
<1>1. UNCHANGED <<trace, recent>> /\ run[r] \in RunState /\ run \in [Run -> RunState]
  BY DEF OllamaRaises, UnknownAgent, CallTool, HandOff, TraceInv, SdkInv, TypeOK
<1>2. ASSUME NEW q \in Run PROVE TraceFine(run'[q], Own(q, trace))
  <2>1. TraceFine(run[q], Own(q, trace)) /\ run[q] \in RunState
    BY <1>1 DEF TraceInv
  <2>2. CASE OllamaRaises(r) \/ UnknownAgent(r)
    <3>1. run'[q] = run[q] \/ run'[q].pc = "raised"
      BY <1>1, <2>1, <2>2 DEF OllamaRaises, UnknownAgent, Raises, RunState
    <3> QED BY <2>1, <3>1 DEF TraceFine, Told
  <2>3. CASE \/ \E call \in ToolCalls : CallTool(r, call[1], call[2])
             \/ \E a \in Agent : HandOff(r, a)
    <3>1. /\ run'[q].pc = run[q].pc /\ run'[q].req = run[q].req
          /\ run'[q].results = run[q].results /\ run'[q].spans = run[q].spans
      BY <1>1, <2>1, <2>3 DEF CallTool, HandOff, RunState
    <3> QED BY <2>1, <3>1 DEF TraceFine, Traced
  <2> QED BY <2>2, <2>3
<1>3. ASSUME NEW q \in Run PROVE TraceFine(run[q], Own(q, trace))'
  <2>1. TraceFine(run'[q], Own(q, trace'))
    BY <1>1, <1>2
  <2> QED BY <2>1 DEF TraceFine, Traced, Story, Own
<1>4. UNCHANGED cfg
  BY DEF OllamaRaises, UnknownAgent, CallTool, HandOff
<1> QED BY <1>1, <1>3, <1>4 DEF TraceInv, Remembered, AreNewest, Newest

LEMMA AcceptTraces ==
    ASSUME TraceInv, SdkInv', NEW r \in Run, NEW q \in Requests[cfg.load], Accept(r, q)
    PROVE  TraceInv'
<1> DEFINE s == [Free EXCEPT !.pc = "step", !.req = q, !.context = q.context]
           kinds == IF q.kind = "workflow" THEN <<"handoff">> ELSE <<>>
<1>1. /\ run[r].pc = "idle" /\ run \in [Run -> RunState] /\ UNCHANGED cfg
      /\ run' = [run EXCEPT ![r] = s] /\ Record(r, kinds)
  BY DEF Accept, TraceInv, SdkInv, TypeOK
<1>2. Own(r, trace) = <<>>
  BY <1>1 DEF TraceInv, TraceFine
<1>3. s.pc = "step" /\ s.req = q /\ s.results = <<>> /\ s.spans = <<>>
  BY DEF Free
<1> HIDE DEF s
<1>4. s \in RunState
  <2>1. run'[r] = s /\ run'[r] \in RunState'
    BY <1>1 DEF SdkInv, TypeOK
  <2> QED BY <1>1, <2>1, Zenon DEF RunState
<1>5. kinds \in Seq(Kinds) /\ Start(s) = kinds
  <2>1. <<>> \in Seq(Kinds) /\ <<"handoff">> \in Seq(Kinds)
    BY EmptyFacts DEF Kinds
  <2> QED BY <1>3, <2>1 DEF Start
<1> HIDE DEF kinds
<1>6. Traced(s) = <<>> \o (kinds \o <<>>)
  BY <1>3, <1>4, <1>5, TracedIs, StoryEmpty
<1>7. <<>> \o (kinds \o <<>>) = kinds /\ <<>> \o kinds = kinds
  BY <1>5, ConcatEmptySeq
<1>8. TraceFine(s, Own(r, trace) \o kinds)
  BY <1>2, <1>3, <1>6, <1>7 DEF TraceFine
<1> QED BY <1>1, <1>4, <1>5, <1>8, OneTrace

LEMMA RestartTraces ==
    ASSUME TraceInv, SdkInv', Restart
    PROVE  TraceInv'
<1>1. ASSUME NEW r \in Run PROVE TraceFine(run'[r], Own(r, trace'))
  <2>1. Own(r, trace') = <<>>
    BY OwnEmpty DEF Restart
  <2>2. run'[r].pc \in {"idle", "lost"}
    BY DEF Restart, TraceInv, SdkInv, TypeOK, RunState
  <2> QED BY <2>1, <2>2 DEF TraceFine, Told
<1>2. \A r \in Run : TraceFine(run[r], Own(r, trace))'
  BY <1>1 DEF TraceFine, Traced, Story, Own
<1>3. recent' = Newest(trace') /\ AreNewest(recent', trace')
  <2>1. Newest(<<>>) = <<>> /\ <<>> \in Seq(Event)
    BY NewestOfNone, EmptyFacts
  <2>2. AreNewest(<<>>, <<>>)
    BY <2>1, NewestAreNewest
  <2> QED BY <2>1, <2>2 DEF Restart
<1> QED BY <1>2, <1>3 DEF TraceInv, Remembered, AreNewest, Newest

LEMMA OthersTrace ==
    ASSUME TraceInv, SdkInv', OthersRecord
    PROVE  TraceInv'
<1>1. UNCHANGED <<cfg, run, trace>> /\ cfg.shared /\ recent # <<>> /\ recent' = Tail(recent)
  BY DEF OthersRecord
<1>2. ASSUME NEW r \in Run PROVE TraceFine(run[r], Own(r, trace))'
  <2>1. TraceFine(run'[r], Own(r, trace'))
    BY <1>1 DEF TraceInv
  <2> QED BY <2>1 DEF TraceFine, Traced, Story, Own
<1>3. AreNewest(recent', trace')
  <2>1. recent \in Seq(Event) /\ trace \in Seq(Event) /\ AreNewest(recent, trace)
    BY DEF TraceInv, Remembered, SdkInv, TypeOK
  <2>2. Tail(recent) \in Seq(Event) /\ AreNewest(Tail(recent), recent)
    BY <1>1, <2>1, TailIsEnd
  <2>3. AreNewest(Tail(recent), trace)
    BY <2>1, <2>2, EndOfEnd
  <2> QED BY <1>1, <2>3
<1>4. cfg'.shared
  BY <1>1
<1> QED BY <1>2, <1>3, <1>4 DEF TraceInv, Remembered, AreNewest, Newest

LEMMA InitTraceInv == Init => TraceInv
<1> SUFFICES ASSUME Init PROVE TraceInv
  OBVIOUS
<1>1. SdkInv
  BY InitSdkInv
<1>2. ASSUME NEW r \in Run PROVE TraceFine(run[r], Own(r, trace))
  <2>1. Own(r, trace) = <<>> /\ run[r].pc = "idle"
    BY OwnEmpty DEF Init, Free
  <2> QED BY <2>1 DEF TraceFine, Told
<1>3. recent = Newest(trace) /\ AreNewest(recent, trace)
  <2>1. Newest(<<>>) = <<>> /\ <<>> \in Seq(Event)
    BY NewestOfNone, EmptyFacts
  <2>2. AreNewest(<<>>, <<>>)
    BY <2>1, NewestAreNewest
  <2> QED BY <2>1, <2>2 DEF Init
<1> QED BY <1>1, <1>2, <1>3 DEF TraceInv, Remembered

LEMMA NextKeepsTraceInv == TraceInv /\ [Next]_sdkVars => TraceInv'
<1> SUFFICES ASSUME TraceInv, [Next]_sdkVars PROVE TraceInv'
  OBVIOUS
<1>1. SdkInv'
  BY NextKeepsSdkInv DEF TraceInv
<1>2. CASE UNCHANGED sdkVars
  <2>1. UNCHANGED <<cfg, run, trace, recent>>
    BY <1>2 DEF sdkVars
  <2>2. ASSUME NEW r \in Run PROVE TraceFine(run[r], Own(r, trace))'
    <3>1. TraceFine(run'[r], Own(r, trace'))
      BY <2>1 DEF TraceInv
    <3> QED BY <3>1 DEF TraceFine, Traced, Story, Own
  <2> QED BY <1>1, <2>1, <2>2 DEF TraceInv, Remembered, AreNewest, Newest
<1>3. CASE Restart
  BY <1>1, <1>3, RestartTraces
<1>4. ASSUME NEW r \in Run, NEW q \in Requests[cfg.load], Accept(r, q) PROVE TraceInv'
  BY <1>1, <1>4, AcceptTraces
<1>5. ASSUME NEW r \in Run, Advance(r) PROVE TraceInv'
  BY <1>1, <1>5, RunAgentTraces, RunnerTraces, QuietTraces DEF Advance
<1>6. ASSUME NEW r \in Run,
             \/ \E call \in ToolCalls : CallTool(r, call[1], call[2])
             \/ \E a \in Agent : HandOff(r, a)
      PROVE  TraceInv'
  BY <1>1, <1>6, QuietTraces
<1>7. CASE OthersRecord
  BY <1>1, <1>7, OthersTrace
<1> QED BY <1>2, <1>3, <1>4, <1>5, <1>6, <1>7 DEF Next

-----------------------------------------------------------------------------
(* The manager *)

\* The invariant holds, for any number of overlapping runs.
THEOREM SdkInvariant == Spec => []SdkInv
BY InitSdkInv, NextKeepsSdkInv, PTL DEF Spec

\* Type correctness.
THEOREM SdkTypes == Spec => []TypeOK
<1>1. SdkInv => TypeOK
  BY DEF SdkInv
<1> QED BY <1>1, SdkInvariant, PTL

\* No runtime works on a text that the guardrails would have blocked.
THEOREM SdkChecksText == Spec => []FlaggedNeverRuns
<1>1. SdkInv => FlaggedNeverRuns
  BY CurrentIsCur DEF SdkInv, RunFine, ResultFine, WorkFine, Unflagged, FlaggedNeverRuns
<1> QED BY <1>1, SdkInvariant, PTL

\* The SDK serves agents that need no approval, with the tools in their reach.
THEOREM SdkConfines == Spec => []SdkRunsAreConfined
<1>1. SdkInv => SdkRunsAreConfined
  BY DEF SdkInv, RunFine, ResultFine, InReach, SdkRunsAreConfined
<1> QED BY <1>1, SdkInvariant, PTL

\* What is persisted and what is answered agree, and workflows follow the plan.
THEOREM SdkRecordsAnswers == Spec => []RecordMatchesAnswer
<1>1. SdkInv => RecordMatchesAnswer
  <2> SUFFICES ASSUME SdkInv, NEW r \in Run
               PROVE  /\ Len(rows[r]) \in Len(run[r].results)
                            ..Len(run[r].results) + (IF run[r].pc \in {"raised", "lost"} THEN 1 ELSE 0)
                      /\ \A i \in DOMAIN run[r].results :
                           /\ Matches(rows[r][i], run[r].results[i])
                           /\ run[r].req.kind = "workflow" =>
                                /\ run[r].results[i].agent = Plan[i]
                                /\ i < Len(run[r].results) => run[r].results[i].ok
    BY DEF RecordMatchesAnswer, Matches, IsWorkflow
  <2>1. RunFine(run[r], rows[r]) /\ rows[r] \in Seq(Result) /\ run[r].results \in Seq(Result)
    BY DEF SdkInv, TypeOK, RunState
  <2>2. /\ Len(rows[r]) \in {Len(run[r].results), Len(run[r].results) + 1}
        /\ run[r].pc \notin {"raised", "lost"} => Len(rows[r]) = Len(run[r].results)
        /\ \A i \in DOMAIN run[r].results : Matches(rows[r][i], run[r].results[i])
    BY <2>1 DEF RunFine, RowsFine
  <2>3. PICK n \in Nat, m \in Nat : n = Len(run[r].results) /\ m = Len(rows[r])
    BY <2>1
  <2>4. run[r].req.kind = "workflow" => \A i \in DOMAIN run[r].results :
          run[r].results[i].agent = Plan[i] /\ (i < Len(run[r].results) => run[r].results[i].ok)
    BY <2>1 DEF RunFine, OrderFine
  <2> DEFINE extra == IF run[r].pc \in {"raised", "lost"} THEN 1 ELSE 0
  <2>5. extra \in Nat /\ m \in n..n + extra
    <3>1. CASE run[r].pc \in {"raised", "lost"}
      BY <2>2, <2>3, <3>1
    <3>2. CASE run[r].pc \notin {"raised", "lost"}
      BY <2>2, <2>3, <3>2
    <3> QED BY <3>1, <3>2
  <2> HIDE DEF extra
  <2>6. Len(rows[r]) \in Len(run[r].results)..Len(run[r].results) + extra
    BY <2>3, <2>5
  <2> QED BY <2>2, <2>4, <2>6 DEF extra
<1> QED BY <1>1, SdkInvariant, PTL

\* However the runs overlap, the trace holds the events of each run in its order,
\* those that its results list among them; the monitoring layer holds its end, as
\* much of it as there is room for unless other engines record too.
THEOREM SdkTraceIsComplete == Spec => []TraceIsComplete
<1>1. TraceInv => TraceIsComplete
  BY DEF TraceInv, TraceFine, Told, Remembered, TraceIsComplete
<1>2. Spec => []TraceInv
  BY InitTraceInv, NextKeepsTraceInv, PTL DEF Spec
<1> QED BY <1>1, <1>2, PTL
================================================================================
