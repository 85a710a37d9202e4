------------------------------ MODULE NeuralMemory ------------------------------
(***************************************************************************)
(* The neural memory engine on top of the memory manager                   *)
(* (saturnix_harness/memory/neural_engine.py): storing links a memory to   *)
(* related ones in both directions, one record at a time; recalling writes *)
(* an access count back from the copy the search returned.                 *)
(***************************************************************************)
EXTENDS MemoryStore

VARIABLES
    job,            \* the links a running store() has yet to write
    torn,           \* history: memories whose store() was cut short
    recallFailed    \* history: a recall raised although nothing had failed

vars == <<memoryVars, job, torn, recallFailed>>

Job == [rec : Rec \cup {None}, own : BOOLEAN, todo : SUBSET Rec]

NoJob == [rec |-> None, own |-> FALSE, todo |-> {}]

TypeOK ==
    /\ MemoryTypeOK
    /\ job \in Job
    /\ torn \subseteq Rec
    /\ recallFailed \in BOOLEAN

Init == MemoryInit /\ job = NoJob /\ torn = {} /\ recallFailed = FALSE

-----------------------------------------------------------------------------
\* store(): search for related memories, then save the new one.
NeuralStore(r, c) ==
    /\ job = NoJob
    /\ r \notin issued
    /\ LET found   == SearchMemory(c, TRUE)
           related == {x \in DOMAIN found : found[x].content = c}
       IN  \/ /\ Store(r, NewRow(c, TRUE, TRUE))
              /\ job' = IF related = {} THEN NoJob
                        ELSE [rec |-> r, own |-> TRUE, todo |-> related]
           \/ /\ StoreTorn(r, NewRow(c, TRUE, TRUE))
              /\ job' = NoJob
    /\ issued' = issued \cup {r}
    /\ UNCHANGED <<mode, gone, altered, starts, torn, recallFailed>>

\* The rest of store() is given up with an exception.
Abandon == job' = NoJob /\ torn' = torn \cup {job.rec}

\* _persist_links: all links of the new memory in one update.
PersistLinks ==
    /\ job.own
    /\ LET row == [rows[job.rec] EXCEPT !.links = job.todo]
       IN  \/ Store(job.rec, row) /\ job' = [job EXCEPT !.own = FALSE] /\ UNCHANGED torn
           \/ StoreTorn(job.rec, row) /\ Abandon
    /\ UNCHANGED <<mode, issued, gone, altered, starts, recallFailed>>

\* Mutants: a target that has links already is left alone; its links are
\* replaced, not extended.
ReverseLinkOnce(x) ==
    /\ job.rec # None /\ ~ job.own /\ x \in job.todo
    /\ job' = IF job.todo = {x} THEN NoJob ELSE [job EXCEPT !.todo = @ \ {x}]
    /\ IF rows[x] = None \/ rows[x].keyed THEN UNCHANGED stores
       ELSE Store(x, [rows[x] EXCEPT !.links = {job.rec}, !.keyed = TRUE])
    /\ UNCHANGED <<mode, issued, gone, altered, starts, torn, recallFailed>>

ReverseLinkReplaces(x) ==
    /\ job.rec # None /\ ~ job.own /\ x \in job.todo
    /\ job' = IF job.todo = {x} THEN NoJob ELSE [job EXCEPT !.todo = @ \ {x}]
    /\ IF rows[x] = None THEN UNCHANGED stores
       ELSE Store(x, [rows[x] EXCEPT !.links = {job.rec}, !.keyed = TRUE])
    /\ UNCHANGED <<mode, issued, gone, altered, starts, torn, recallFailed>>

\* _persist_reverse_links, one target: it is read again from SQLite.
ReverseLink(x) ==
    /\ job.rec # None /\ ~ job.own /\ x \in job.todo
    /\ LET row == [rows[x] EXCEPT !.links = @ \cup {job.rec}, !.keyed = TRUE]
           rest == IF job.todo = {x} THEN NoJob ELSE [job EXCEPT !.todo = @ \ {x}]
       IN  \/ rows[x] # None /\ Store(x, row) /\ job' = rest /\ UNCHANGED torn
           \/ rows[x] # None /\ StoreTorn(x, row) /\ Abandon
           \/ /\ rows[x] = None
              /\ job' = rest
              /\ UNCHANGED <<stores, torn>>
    /\ UNCHANGED <<mode, issued, gone, altered, starts, recallFailed>>

-----------------------------------------------------------------------------
(* recall() *)

\* _candidate_records: the search, or else the latest rows.
Candidates(q) ==
    LET found == SearchMemory(q, FALSE)
    IN  IF DOMAIN found # {} THEN found
        ELSE [r \in {s \in Rec : rows[s] # None} |-> rows[r]]

\* Ranking reads item.get("target_id") of each link; in a ChromaDB hit the links
\* are the characters of a text, and it raises.
RankRaises(q, r) == mode = "chroma" /\ r \in IndexHits(q) /\ chroma[r].keyed

\* The memories ranked are written back from the copies, in order, content and
\* tags excepted; `done` are those written before an error or a crash, and the
\* index half of the last of them may be lost with it.
Recall(q) ==
    /\ job = NoJob
    /\ \E ranked \in SUBSET DOMAIN Candidates(q) : \E done \in SUBSET ranked :
       \E lost \in {{}} \cup {{r} : r \in done} :
         LET copy    == Candidates(q)
             kept    == {r \in done : rows[r] # None}
             reached == IF mode = "chroma" THEN kept \ lost ELSE {}
         IN  /\ \A r \in ranked : ~ RankRaises(q, r)
             /\ kept # {}
             /\ lost # {} => mode = "chroma"
             /\ rows' = [r \in Rec |-> IF r \in kept
                            THEN [rows[r] EXCEPT !.links = copy[r].links,
                                                 !.keyed = copy[r].keyed]
                            ELSE rows[r]]
             /\ chroma' = [r \in Rec |-> IF r \in reached
                              THEN ChromaCopy(rows'[r], chroma[r]) ELSE chroma[r]]
             /\ list' = [r \in Rec |-> IF r \in kept /\ mode = "memory"
                            THEN rows'[r] ELSE list[r]]
             /\ stale' = (stale \cup kept) \ reached
             /\ altered' = altered \cup {r \in kept : rows'[r].links # rows[r].links}
             /\ \/ done = ranked /\ lost = {} /\ UNCHANGED faults
                \/ /\ done # ranked \/ lost # {}
                   /\ faults < MaxFaults
                   /\ faults' = faults + 1
    /\ UNCHANGED <<mode, issued, gone, starts, job, torn, recallFailed>>

RecallRaises(q) ==
    /\ job = NoJob
    /\ \E r \in DOMAIN Candidates(q) : RankRaises(q, r)
    /\ recallFailed' = TRUE
    /\ UNCHANGED <<memoryVars, job, torn>>

-----------------------------------------------------------------------------
Manager == job = NoJob /\ MemoryNext /\ UNCHANGED <<job, torn, recallFailed>>

\* The other process does not wait for a running store().
Cli == \E r \in Rec, c \in Content :
          CliRemember(r, c) /\ UNCHANGED <<job, torn, recallFailed>>

Restart ==
    /\ StartProcess
    /\ job' = NoJob
    /\ torn' = IF job = NoJob THEN torn ELSE torn \cup {job.rec}
    /\ UNCHANGED recallFailed

Neural ==
    \/ \E r \in Rec, c \in Content : NeuralStore(r, c)
    \/ PersistLinks
    \/ \E x \in Rec : ReverseLink(x)
    \/ \E q \in Content : Recall(q) \/ RecallRaises(q)

Next == Manager \/ Cli \/ Neural \/ Restart

Spec == Init /\ [][Next]_vars

-----------------------------------------------------------------------------
(* Properties *)

\* Links run both ways between memories whose store() was completed and whose
\* links were set by store() alone: not by a client's metadata, nor by a recall
\* that wrote an outdated ChromaDB copy back.
LinksSymmetric ==
    job = NoJob =>
        \A a, b \in Rec \ (torn \cup altered) :
            rows[a] # None /\ rows[b] # None /\ b \in rows[a].links => a \in rows[b].links

\* A step that drops a link of a memory is a client's PATCH of its metadata, or
\* a recall on ChromaDB whose copy of the memory is outdated.
LinksAreKept ==
    [][\A r \in Rec : rows[r] # None /\ rows'[r] # None =>
          \/ rows[r].links \subseteq rows'[r].links
          \/ mode = "chroma" /\ r \in stale
          \/ \E row \in UpdatedRows(r) : UpdateMemory(r, row)]_vars

\* Recall works on what was stored.
RecallAnswers == ~ recallFailed
================================================================================
