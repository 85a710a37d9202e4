# Verification of SATURNIX-HARNESS

TLA+ models of the parts of `saturnix_harness` whose correctness depends on the
order of events, on failures or on a ranking, the TLC runs that check them on
small instances, and TLAPS proofs of their main properties for every instance.
`PROJECT.json` maps each definition to the lines it stands for.

## 1. The system

One uvicorn process runs one event loop. A request is a coroutine: the code
between two `await`s is atomic, and other requests run while it waits for a
provider. What survives a request is in SQLite, in ChromaDB (or, without it, in
a list of the process) and in a few attributes of objects that live as long as
the process. The command line is a second process on the same files.

| Component | State | Operations | Talks to | What is hard | What makes it correct |
|---|---|---|---|---|---|
| Voice cognitive agent (`voice/`) | pending-confirmation records in SQLite | a turn: stop, confirm, cancel, ask, run | memory manager, execution engine | turns of a session overlap; the record is marked after two suspensions; errors and crashes in between; a search window | a stopped command never starts again; a status tells the truth; a waiting client gets at-most-once |
| Memory manager (`memory/manager.py`, `sqlite_store.py`, `vector_store.py`) | a table and an index of it, chosen at each start | save, search, update, delete | called by everybody | two stores without a transaction; a second process; ChromaDB in one run and a list in the next; metadata that changes type or is replaced | index and table agree where the index was reached; a deletion ChromaDB has seen is final |
| Neural memory engine (`memory/neural_engine.py`) | links and access counts in metadata | store, recall, compress | memory manager | links in both directions are several writes; recall writes copies back | links that `store()` made are symmetric and only a client's metadata or an outdated copy drops them; recall works |
| Brain router and providers (`brains/`) | providers and their availability | `route_task`, `route`, `complete` | model APIs | fallback after failure; scores that decide | privacy survives the fallback; a preference is effective |
| Execution engine, verifier, agents (`core/execution_engine.py`, `verification_engine.py`, `agents/`) | one execution | plan, two steps, verify, improve, save | router, memory | each call may fail; the verdict is computed twice; six commits | verdict, text and store agree; every request is answered |
| Orchestrator (`core/orchestrator.py`) | the engines | `run` and delegation | all engines | as above | as above |
| Dashboard (`dashboard/`) | lockdown flag, custom agents, keys, audit records | execute agent, run workflow, scan, lockdown, save memory | orchestrator, memory | the service object lives for one request; a suspension between preflight and audit | lockdown holds; nothing runs unapproved; what an agent ran is audited |
| Middleware (`dashboard/security.py`) | a queue of times for each client | admit or refuse | all HTTP requests | window boundary, clock | no window exceeds the limit |
| Agents SDK manager (`agents_sdk/`) | saved results, trace events | run agent, handoff workflow, fallback | SDK, orchestrator, memory | guardrails are evaluated twice; fallback | approved runs are possible, refused ones have no effect |
| Consensus and Omega (`core/consensus_engine.py`, `omega_engine.py`) | one request | ask several brains; run all layers | router, every engine | partial failure, arrival order | the conclusion does not depend on the order of answers |
| Planner (`core/cognitive_workflow_planner.py`) | none | task graph, critical path, groups | router | graph algorithms on generated edges | acyclic, complete, longest path |
| Agent constructor (`core/agent_constructor.py`) | autonomous agents in memory | reuse or create | memory, router | look up, then save | no duplicate agents |
| Security sentinel (`core/security_sentinel.py`) | none | scan a request | called by dashboard, SDK guardrails, Omega | which part a check reads | what it blocks does not run through `execute_agent` (`ExecutionIsGated`) or the SDK (`FlaggedNeverRuns`); workflow goals are not scanned |
| Improvement engine, tools, forge, self-healing, distributed intelligence | memory records they save | analyse or generate text | memory | little: they are functions | not modelled |
| API, CLI, settings, schemas, monitoring, frontend | none of their own (monitoring: a bounded list) | hand over | the engines | error answers | in the models of the engines they call |

## 2. Plan

| Step | Modules | Abstract specification | Proofs | State |
|---|---|---|---|---|
| 1 | `VoiceConfirmation` | `ApprovalGate` | types, statuses, stops, refinement | done |
| 2 | `MemoryStore`, `NeuralMemory` (extends it) | | types, index, deletion, links kept and symmetric | done |
| 3 | `BrainRouter` (operators), `GoalExecution` (extends it) | | types, verdict, store, privacy, preference | done |
| 4 | `RateLimiter`, `Dashboard` (extends it) | `AdmissionWindow` | rate, window, audit, gate, credentials | done |
| 5 | `SecuritySentinel`, `AgentsSdk` (extends it) | | types, records, guardrails, confinement, trace | done |
| 6 | `WorkflowPlanner` (extends `BrainRouter`) | the set of all chains of dependencies | types, schedule, completeness, privacy, estimate | done |
| 7 | `Consensus` (extends `BrainRouter`) | | with 8 | done |
| 8 | `AgentConstructor`, and `Omega`, which composes 7 and 8 | | types, unique agents, confidence | done |
| 9 | `RecursionTheorems` | | induction, recursion, sums | done |

Modules that are proved about have parameters as CONSTANTs with named
assumptions, one action for each operation, and no RECURSIVE operator.

## 3. Modules

**ApprovalGate** is what the voice API promises: each confirmation request goes
from absent to pending, then to running and closed or to withdrawn.

**VoiceConfirmation** (`voice/cognitive_agent.py`). `status` is
`metadata.status` of the records, `fresher` their order by `updated_at`, `turn`
where each overlapping turn is suspended. A request is one of the utterance
classes the code tells apart (interrupt, affirmation, rejection, plain; each also
with a risky word), with its `confirmed` and `confirmation_token` fields. One
action stands for each branch of `run_turn` up to its answer or first `await`;
`MaybeSynthesize`, `FinishTurn`, `TurnRaises` and `Restart` for what happens to a
suspended turn. Both interrupts and cancellations may raise after their record is
committed (`AnswersOrRaises`); `stopped` keeps the records that a turn marked so.
`Pending` is `_pending_confirmation`: without a token the search
returns the latest `Window` records, resolved ones included, and then the first
pending one counts; with a token only one record's content contains it.

**MemoryStore** (`memory/manager.py` and both stores). `rows` is the table;
`chroma` is ChromaDB's collection, which outlives the processes, `list` the list
of the running API process, and `mode` the one of the two that it built when it
started (`StartProcess`, manager.py:34-41). `Store` is a write of both the table
and the index, `StoreTorn` one whose second half fails; in a list it cannot fail
but by the end of the process. `ChromaCopy` is what ChromaDB does to metadata: of
the links only the key is left, and an upsert merges keys. `SearchMemory` answers
from the index if any hit survives the filter, else from the table. `UpdateMemory`
is PATCH of any columns, metadata as a whole included: `ClientRows` are the rows
whose metadata the client sends too, the other `UpdatedRows` keep the row's links.
`gone`, `stale` and `altered` are history: deletions acknowledged, with the index
they were made on; ids whose latest write did not reach ChromaDB; ids whose links
something other than `store()` set. A client that repeats a deletion and is told
404 knows that the record is gone, so that counts as acknowledged. Contents are
equal or share no word; ids are never issued twice (uuid4); one namespace and no
limit on hits. The links a client sends are those of a memory it has read: they
name ids given out.

**NeuralMemory** (`memory/neural_engine.py`) extends it. `job` holds the links
that a running `store()` still has to write, so that a crash or the other process
can come between two of them. `Recall` writes the copies back, some of them or all.

**BrainRouter** (`brains/router.py`) has no state: `RouteTask`, `Capable`,
`Score` and `IsFirst` are the two routers, over sets of words and capabilities.

**GoalExecution** (`core/execution_engine.py`, `CoreOrchestrator.run`) is one
execution: `pc` is the running brain call, `rest` the providers it has not tried,
`checked` the validation and the text it is about, `stored` the committed writes,
`sent` who received the goal for which call. Each provider failure is a step.

**AdmissionWindow** is what "requests per minute" promises: within a window of
time a client is admitted at most `Limit` times, and it is refused only if its
last window is full. `early` and `late` say how exact the clock is.

**RateLimiter** (`dashboard/security.py`) is the middleware. `bucket` is
`self.requests`, filled with `clock`, which is what `time.time()` returns;
`SetClock` sets it forward or back, and `real`, the time that has passed, is what
the promise is about. `log` and `verdict` are history: when a client was
admitted, and what it was last told.

**Dashboard** (`dashboard/service.py`, `routes.py`, `doctrine.py`) extends
RateLimiter: `Arrive` is the middleware, then `Deny` or the handler of the
request's kind. A slot is a request together with its own service object, since
`get_dashboard_service` makes one for each request; its `lockdown`, `custom` and
`keys` fields are the attributes of that object. `WriteAndAnswer` performs the
writes of a handler in their order until one raises. Texts are the classes that
the scan, the data guardian and the redaction tell apart. `wrote` holds what a
request has written, each a `Place` (audit record, memory content, memory title
and tags, or the engine's own records of a goal) and the `Form` in which the text
appears there. `cfg.load` separates the workload in which the clock runs
from the one with all handlers, which multiply without meeting.

**SecuritySentinel** is the scan over markers, with the parts of a request that
each check reads.

**AgentsSdk** (`agents_sdk/manager.py`, `guardrails.py`, `registry.py`,
`handoffs.py`) extends it. `loop` is the run that has the event loop; it is given
away while the Runner or Ollama works. `RunAgent` is `run_agent` up to its first
suspension, `LocalFallback` and `Conclude` what follows it, `trace` and `recent`
the two lists of events, `rows` what was persisted. The bounded list is that of
the monitoring layer: with `cfg.shared` other engines record into it too
(`OthersRecord`) and push older events out. The Runner and Ollama are
environment: tools are called, runs are handed off, they answer or raise.

**WorkflowPlanner** (`core/cognitive_workflow_planner.py`) is one `plan()`: the
task graph from the keyword sets of a request, whose goal, speed and output format
are free texts in which the router may find any of its words (`OwnWords` says
which task is given which), one `FormRound` for each turn of
the loop of `_parallel_groups`, `Assemble` for the critical path, the estimate and
the brains, `Answer` for the save.

**Consensus** (`core/consensus_engine.py`) has no state: `SelectProviders`,
conflicts, agreement, confidence and synthesis over a sequence of answers, each
a set of claims, of marks that the scores count, and what the text is about, by
which answers without a claim are compared (`Topics`). **AgentConstructor**
(`core/agent_constructor.py`) has none either: `Construct` maps the saved agents
and a request to the saved agents, with the save at which it raises. A saved record
`defines` its agent for as long as its metadata hold the definition; `Hidden` are
those that no longer do and only take places in the look-up.

**Omega** (`core/omega_engine.py`) composes both. A run constructs agents and
plans (`Receive`), waits for its brains (`Hear`, `Conclude`) and for its execution
(`ExecutionEnds`), and stores; requests to the construction and consensus
endpoints run beside it. `DeleteAgent` and `PatchAgent` are a deletion and a PATCH
through the memory API. What clients ask for depends on the enabled providers
(`Requests[enabled]`).

**MC…** modules only give values to constants; **…_proofs** modules hold the
theorems. **RecursionTheorems** holds the induction and recursion that several of
them need. Operators whose comment begins with "Mutant" are not part of the models:
each is a plausible mistake in the definition after it, and the property it is
listed with in `PROJECT.json` fails when it takes that definition's place.

## 4. Runs

| Run | Instance | Shows |
|---|---|---|
| VoiceConcurrent | 2 turns, 3 records, window 2, 2 starts, 1 fault | StatusHasCause, StopIsFinal under overlap, errors and restarts |
| VoiceSerial | 1 turn, 3 records, window 5, no fault | AtMostOnce, StartedIsResolved, and ApprovalGate as a refinement (GateSpec) |
| VoiceStopOverlap | 2 turns, 1 record | finding 1 |
| NeuralMemory | 3 records, 2 contents, 1 fault, 1 restart, either index at each start | IndexAgrees, DeletedIsUnfindable, LinksSymmetric, LinksAreKept |
| NeuralRecall | 3 records, no fault | finding 2 |
| GoalExecution | 3 words, 3 deployments, 1 failing write | VerdictIsAboutOutput, CompletedIsBacked, VerifierStaysLocal, LocalCodingFirst, GoalIsAnswered |
| PrivateGoal | OpenAI beside Ollama | finding 3 |
| Dashboard | 2 slots, 1 client, limit 2 in a window of 1, clock set by ±1, time up to 3 | RateBound and AdmissionWindow as a refinement (WindowSpec), AnsweredIsAudited, ExecutionIsGated, CredentialsStayCovered, RequestIsAnswered |
| DashboardLockdown | the same | finding 4 |
| AgentsSdk | 2 runs of one agent, 1 run beside other engines, or 1 handoff workflow of 5; 4 events kept | TraceIsComplete under overlap, RecordMatchesAnswer, FlaggedNeverRuns, SdkRunsAreConfined, RunIsAnswered |
| WorkflowPlanner | all 128 task graphs at parallelism 1 to 12, all wordings of goal, speed and format on the largest graph | RoundsRespectDependencies, NoTaskIsLeftOut, EstimateIsTheSlowestChain, PrivatePlansStayLocal |
| Omega | 2 runs, 10 requests over 3 deployments, 3 answers of which 2 contradict each other, 1 fault, 2 records without a definition | OneAgentPerName, ConsensusIsEarned, OmegaIsAnswered |

Why the bounds are enough:

* Two turns are needed for an overlap; a third can only repeat what the second
  does to a record. Three records with a window of two let resolved records hide
  a pending one, in all orders; two starts let one command run twice.
* Three memories let one link to two, so that a crash, a deletion or another
  save falls between them; two contents are a match and a mismatch; the fault tears
  a write or cuts a recall. One restart changes the index once in either direction;
  the command line needs none, it fills ChromaDB while the API process runs on its
  list. `ClientSends` has plain memories, whose PATCH with metadata drops links;
  links that a client adds are covered by the proofs only, which hold for any set
  of rows.
* The deployments are: mock only (the default), a cloud beside both Ollama models,
  and two clouds that satisfy agents in part. The words trigger the voice,
  private and coding routes; failures of providers are not bounded, a run may
  wish for a local model.
* With a limit of two in a window of one second and a clock that runs to three, a
  window fills, expires exactly at its boundary and fills again; the clock set
  forward admits early, set back refuses late. Clients do not share anything but
  the clock, so one is enough.
* Two dashboard requests overlap only in their goals, each with its own service
  object; texts, approvals, settings and credentials cover each branch.
* SDK runs share the trace and the event list: two show every interleaving of
  two, and four kept events make the list drop some. Events of other engines only
  take places in the list, which one run shows. A workflow of five runs is checked
  alone because its runs only meet others in the trace.
* A plan depends on which of the seven specialist tasks it has and on the degree
  of parallelism (the schema's limit is 12, and no graph has more than 12 tasks):
  this run enumerates all of them.
* Omega's answers are the best possible and its contradiction, where confidence is
  highest; a failure is added to them. One fault tears one construction, and its
  retry meets what is left. There are four generated names, two of which occur.
  Agents are constructed without brains, brains are asked without new agents, and
  both meet with the mock provider. Two records that lost their definition
  (`MaxHidden`) show what they do to a look-up; the limit of ten is met by the
  proof, which allows six of them beside four definitions.
* Deadlock is checked except in Dashboard, DashboardLockdown, AgentsSdk,
  WorkflowPlanner and Omega: a plan ends when it is answered, and clients of the
  others may make no further request (in Dashboard the clock stops at MaxTime).

**Fairness.** Only steps of the program are fair, never users. In `VoiceSerial`
it is `FinishTurn`: the event loop resumes a coroutine whose await is over, and
all provider clients have timeouts (`brains/*_provider.py`, `voice/engine.py:72`
and `:106`). In `GoalExecution` it is `Continue`, the disjunction of all steps but
`Receive`, for the same reason. In `Dashboard` it is `Handle`, which does not
suspend, and the return or failure of the goal, whose liveness GoalExecution
shows. In `Omega` it is `Continue`: provider calls time out (`brains/*_provider.py`)
and `gather` resumes the run. In `AgentsSdk` it is strong fairness of `Advance`:
the event loop is shared, so a run that is ready is disabled whenever another one
has the loop, but asyncio's queue of ready coroutines passes none over for ever;
the Runner ends after `max_turns`, Ollama after its timeout. No fairness is
assumed for anything that fails, and none is assumed of users. The planner has no
liveness run: that every turn of its loop forms a round that is not empty (its
TypeOK) and that tasks leave `remaining` for good bounds the turns.

## 5. What is proved

All theorems hold for every value of the constants that satisfies the named
assumptions `VoiceAssumption`, `MemoryAssumption`, `GoalAssumption`,
`LimiterAssumption`, `DashboardAssumption`, `SdkAssumption`, `PlannerAssumption`
and `OmegaAssumption`, which say that the special values are distinct, the bounds
are numbers, the requests have the type that their operators expect (and, for
Omega, that there is a request), that rows with links have the key of links, that at
most six records lose their definition, and that an answer makes finitely many
claims: the code keeps at most eight. TLC evaluates them in the runs of
their modules.

* `VoiceConfirmation_proofs`: TypeOK, StatusHasCause and
  StopIsFinal. None of them is inductive alone: a suspended turn has a record
  whose command was started, and a record that is stopped is not pending, also
  when a later write of a stale copy turns it into "executed". For one turn
  without faults `SerialImplementsGate` shows that every step maps to a step of
  ApprovalGate or to none, and AtMostOnce follows from the same invariant.
* `NeuralMemory_proofs`: TypeOK, IndexAgrees, DeletedIsUnfindable, LinksAreKept,
  LinksSymmetric. IndexAgrees is about the records whose latest write reached
  ChromaDB and about the list of the running process; DeletedIsUnfindable about
  deletions acknowledged on ChromaDB, and of those acknowledged on a list about the
  processes that run on one. LinksAreKept names the two steps that drop links, a
  client's PATCH of metadata and a recall whose copy is outdated, and LinksSymmetric
  leaves out the memories they touched (`altered`) and those whose `store()` was
  cut short (`torn`). The invariant adds that ids not yet issued are in no store,
  that acknowledged deletions emptied SQLite and the index they were made on, that
  ChromaDB keeps of links only the key, that a process on ChromaDB has no list, and
  that the record of a running `store()` exists and has no links before its own are
  written. The id discipline is what keeps a write-back of `recall` from reviving a
  deleted record. For symmetry `LinkInv` adds that a link has its reverse or is one
  the running `store()` has yet to reverse (`LinksPaired`), that nothing links to a
  memory before its own links are written, which then hold all it has to reverse
  (`JobLinks`), and that links name ids given out (`LinksIssued`).
* `GoalExecution_proofs`: TypeOK, VerdictIsAboutOutput, CompletedIsBacked,
  VerifierStaysLocal, LocalCodingFirst. The invariant says that there is no
  answer while an execution runs, that what is saved has just been judged, that
  what is left to try is local when the call has to be, and that the local coding
  model waits until it is sent a private coding step. The last one rests on
  `CodingModelOutranks`: with two needs, a rival scores at most 65 and the
  preferred model at least 70.
* `Dashboard_proofs`, the limiter: RateBound and the refinement WindowSpec, for
  every limit, window and way of setting the clock. The invariant relates the
  queue to the history: the queue is the tail of the admissions; since each of
  them the clock has run as long as the real time, but for what it was set; and
  whatever has left the queue is older than the window, less what the clock was
  set forward. A queue need not be sorted, since the clock may be set back, and
  the code drops entries only up to the first fresh one: the invariant is therefore
  about each entry and never about their order.
* `Dashboard_proofs`, the whole: TypeOK, RateBound, WindowSpec, AnsweredIsAudited,
  ExecutionIsGated and CredentialsStayCovered. Rate and window carry over because
  every step of Dashboard is a step of RateLimiter or leaves it alone
  (the initial states map likewise). The gate is the lockdown setting, the dry run
  and the approval for every goal, and the scan and the class of data for an agent's
  goal; credentials are covered where the dashboard itself writes a text as content,
  which titles, tags and the engine's records of a goal are not. The gate needs to know, of a request that is
  still admitted, that nothing has been started or written.
* `AgentsSdk_proofs`: TypeOK, FlaggedNeverRuns, SdkRunsAreConfined,
  RecordMatchesAnswer and TraceIsComplete, for any number of runs, outputs and tool
  calls. The invariant says of a run on the SDK or on Ollama that its text has
  passed the guardrails, that its active agent is the first one or one of its
  handoffs, and that its rows and results are in step unless a save has raised.
  For the trace, `TraceInv` says at every step of a run which of its events the
  trace holds; lemmas `OwnAppend` and `StoryAppend` say what an event adds to the
  events of its own run and leaves alone in those of the others. The bounded list is
  some end of the trace (`AreNewest`), wherever the events of other engines have cut
  it; `EndOfEnd`, `EndAndMore` and `TailIsEnd` say that it stays one.
* `WorkflowPlanner_proofs`: TypeOK, RoundsRespectDependencies, NoTaskIsLeftOut,
  PrivatePlansStayLocal and EstimateIsTheSlowestChain. Privacy is stated as it
  is: of a private plan exactly those tasks leave the machine whose texts speak of
  voice, "realtime" as a speed included. The invariant says that the
  rounds, the completed tasks and the remaining ones partition the tasks; that
  nothing is left out rests on the graph being acyclic, shown by the order in which
  its tasks are built: a remaining task that is first in it is ready. The same
  order shows that the recursive functions of the critical path and of the chains
  have values (`BestPathsExist`, `ChainsExist`). `ChainPoints` and `ChainSeconds`
  are what the best chain to each task scores and takes; `ChainsGrow`, the heart of
  the estimate, shows that the dependency with the most points also has the most
  seconds, although points and seconds are not in proportion. That no schedule is
  faster follows by induction over the rounds: after each one, its tasks have had
  the time of the slowest chain to them.
* `Omega_proofs`: TypeOK, OneAgentPerName and ConsensusIsEarned, for any requests,
  deployments and answers. With one definition for each of the four generated names
  and at most `MaxHidden` records, six or less, that lost theirs, fewer than
  `LookupLimit` records are newer than the one that is looked for, so the
  constructor finds it. Of a run the invariant says that there is a place for the
  answer of each brain it asked, and that it goes on only when none is pending.
  Agreement and confidence are means: `SumBound` bounds the sum over the pairs of
  answers and the sum over the answers, and the limits follow by arithmetic.
* `RecursionTheorems`: what those proofs share. A property is the set of the
  elements that have it and the step of a recursion a function, so that induction
  over the naturals (`InductionUpTo`) or over a rank (`RankedInduction`), the existence
  of recursive functions (`RecursionUpTo`, `RankedRecursion`), the greatest of finitely
  many values (`GreatestValue`) and sums over finite sets (`SumTakesAny`, `SumBound`)
  need no operator as a parameter.

Every invariant and every action or refinement property that a passing run checks
is proved. Only model-checked are the liveness properties StartedIsResolved,
GoalIsAnswered, RequestIsAnswered, RunIsAnswered and OmegaIsAnswered: liveness under
fairness and ENABLED are out of the prover's reach. The four findings are
counterexamples that TLC shows.

## 6. Findings

1. *A stop that comes too late says it came in time* (VoiceStopOverlap). While a
   confirmed command executes its record is still "pending", so stop and cancel
   answer that no workflow was executed (`cognitive_agent.py:470`, `:508`). That
   README.md:1187 speaks of stopping "before execution" is what the run refutes.
2. *Recall raises on ChromaDB* (NeuralRecall). Metadata values come back as text
   (`vector_store.py:89`), and `neural_engine.py:277` reads links out of it.
3. *A private goal leaves the device* (PrivateGoal). `AgentRuntime.run` does not
   pass `local_only` on, and the architect needs a capability that no Ollama model
   has (`agents/base.py:37`, `router.py:109`).

4. *A lockdown lasts for one request* (DashboardLockdown). `lockdown()` sets a flag
   of a service object that `get_dashboard_service` (`dashboard/routes.py:25`) makes
   for that request, and answers "tool execution stopped"
   (`dashboard/service.py:261`, README.md:653); the next request starts a goal.

Further disagreements with the documents that the models contain. No run is spent
on them; the properties say exactly how far the code goes instead.

* The doctrine says "Scan prompts, workflows, commands, paths, and secrets before
  execution" (`dashboard/doctrine.py:105`) and "Record sensitive dashboard, memory,
  security, agent, and workflow actions" (`:145`). `run_workflow`
  (`dashboard/service.py:324-336`) does neither: its goal is not scanned and its run
  leaves no audit record. ExecutionIsGated and AnsweredIsAudited name the exception.
* "Sensitive classes are encrypted before storage" (README.md:682, and
  `dashboard/doctrine.py:110`): the execution engine keeps the goal it was given in
  clear, in a memory's metadata and in its own tables
  (`core/execution_engine.py:184-211`, `agents/base.py:43-48`), and titles and tags
  are saved in clear beside an encrypted content (`dashboard/service.py:205-206`).
  CredentialsStayCovered speaks of the rest.
* "Run local/private tasks through Ollama" (README.md:23): the router's list of voice
  words contains "realtime" (`brains/router.py:268`), and a plan's speed goes to its
  implementation (`core/cognitive_workflow_planner.py:181`), so a private plan in
  "realtime" has its code written in the cloud, as does one that speaks of voice.
  PrivatePlansStayLocal says which tasks leave.
* "SQLite is the source of truth" (`memory/manager.py:24`): a record that was deleted
  while ChromaDB was not available is found again when it is, and hides what SQLite
  has. IndexAgrees and DeletedIsUnfindable say what holds in spite of it.

Behaviour that the models show and no document excludes: two overlapping
confirmations execute a command twice; an error after an execution leaves it
confirmable; a confirmation without a token takes the newest pending command, and
newer resolved ones hide it; a failed goal's answer reports nothing saved although
earlier writes are committed.
In memory: a PATCH of metadata drops a memory's links and leaves those that lead to
it; a hit of the index hides the rows that only SQLite has, saved by another process
or before a restart.
In the dashboard: custom agents and API keys are lost with the request that made
them; a bare `sk-…` is audited in clear; `execute_agent` answers ok although the
engine answered with a failure; the limiter never frees the queue of a client.
In the SDK manager: an approved run of an agent that needs approval always trips
the guardrail and falls back; the agents that are handed to carry no guardrails;
the reason of a failed SDK run is set after it was persisted; events of other
engines push a run's events out of the list before the run is over.
In Omega: a run with `local_only` still consults cloud brains; a claim that two
brains contradict each other on is also listed as agreed; strategies are stored
twice when the run executes; a generated agent is reused with the brain it was
made for, whatever the privacy of the new request; ten records that lost their
definition to a PATCH would hide a definition, and the agent would be made again.

## 7. What is not modelled

* Wording, formatting, embeddings and distances, provider protocols, token
  signatures and encryption: conversions that no property is about.
* The text analysis of the improvement engine, the forge, self-healing and
  distributed intelligence: functions of a request without state of their own.
  The one memory record that some of them save is a `Store` of MemoryStore.
* Single-agent constructors and blueprints, which produce texts; tools and tool
  routers, which keep no state and which no plan contains.
* The reading endpoints (`sdk_status`, `trace_summary`, dashboard pages), security
  headers and CORS, and the frontend.
* In memory: namespaces, the limit on hits and ranking by distance; in Omega: agent
  definitions that clients write into records themselves.
* Two processes in Omega: agents constructed by the API and the command line at
  once may be saved twice, because the look-up and the save are two commits.
  Within the API process the two are in one piece, which Omega relies on.
