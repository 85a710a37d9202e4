-------------------------- MODULE NeuralMemory_proofs --------------------------
(***************************************************************************)
(* Proofs about NeuralMemory, for every set of records and contents, every *)
(* set of rows a client may send, and every number of faults and restarts. *)
(*                                                                         *)
(* IndexAgrees and DeletedIsUnfindable are not inductive: an id must not   *)
(* be used before it is issued, a deleted one must have left the stores,   *)
(* the list must be empty while ChromaDB is used, and the record a running *)
(* store() still has to link must be there.  LinksSymmetric needs more, at *)
(* the end of the module: what holds of the links while a store() runs.    *)
(***************************************************************************)
EXTENDS NeuralMemory, TLAPS

\* An id that was not issued is in no store.
Unissued == \A r \in Rec \ issued : rows[r] = None /\ chroma[r] = None

\* An acknowledged deletion emptied SQLite, and ChromaDB if that was its index.
GoneIsEmpty ==
    \A d \in gone : /\ d[1] \in issued
                    /\ rows[d[1]] = None
                    /\ d[2] = "chroma" => chroma[d[1]] = None

\* Links are kept under a key; of the links ChromaDB keeps only the key.
LinksKeyed ==
    \A r \in Rec : /\ rows[r] # None /\ rows[r].links # {} => rows[r].keyed
                   /\ chroma[r] # None => chroma[r].links = {}

\* A process on ChromaDB has no list.
ListIdle == mode = "chroma" => \A r \in Rec : list[r] = None

\* The record of a running store() exists, and has no links before its own are
\* written; from then on its metadata has the key.
JobHasRow ==
    /\ job # NoJob => job.rec # None /\ job.rec \in issued /\ rows[job.rec] # None
    /\ job.own => job # NoJob /\ rows[job.rec].links = {} /\ rows[job.rec].keyed

IInv == TypeOK /\ IndexAgrees /\ Unissued /\ GoneIsEmpty /\ LinksKeyed /\ ListIdle /\ JobHasRow

-----------------------------------------------------------------------------
(* The stores *)

\* A copy in ChromaDB is a row without links, and agrees with what it copies.
LEMMA CopyIsRow ==
    ASSUME NEW row \in Row \cup {None}, NEW old \in Row \cup {None}
    PROVE  /\ ChromaCopy(row, old) \in Row \cup {None}
           /\ Agrees(ChromaCopy(row, old), row)
           /\ row = None => ChromaCopy(row, old) = None
           /\ row # None => ChromaCopy(row, old).links = {}
<1>1. CASE row = None
  BY <1>1 DEF ChromaCopy, Agrees
<1>2. CASE row # None
  <2>1. (old # None /\ old.keyed) \in BOOLEAN
    OBVIOUS
  <2>2. row \in Row
    BY <1>2
  <2>3. ChromaCopy(row, old) =
          [content |-> row.content, tag |-> row.tag,
           keyed |-> row.keyed \/ (old # None /\ old.keyed), links |-> {}]
    BY <1>2, <2>2 DEF ChromaCopy, Row
  <2>4. ChromaCopy(row, old) \in Row
    BY <2>1, <2>2, <2>3 DEF Row
  <2>5. /\ ChromaCopy(row, old).content = row.content /\ ChromaCopy(row, old).tag = row.tag
        /\ ChromaCopy(row, old).links = {}
    BY <2>3
  <2>6. ChromaCopy(row, old).keyed = (row.keyed \/ (old # None /\ old.keyed))
    BY <2>3
  <2>7. row.keyed => ChromaCopy(row, old).keyed
    BY <2>6, Zenon
  <2>8. ChromaCopy(row, old) # None
    BY <2>4, MemoryAssumption
  <2>9. Agrees(ChromaCopy(row, old), row)
    BY <1>2, <2>5, <2>7, <2>8 DEF Agrees
  <2> QED BY <1>2, <2>4, <2>5, <2>9
<1> QED BY <1>1, <1>2

\* What a write leaves true, whether or not its second half happens.
LEMMA WriteStep ==
    ASSUME MemoryTypeOK, IndexAgrees, LinksKeyed, ListIdle,
           NEW r \in Rec, NEW row \in Row \cup {None},
           row # None => (row.links # {} => row.keyed),
           Store(r, row) \/ StoreTorn(r, row)
    PROVE  /\ rows' = [rows EXCEPT ![r] = row]
           /\ rows' \in [Rec -> Row \cup {None}]
           /\ chroma' \in [Rec -> Row \cup {None}]
           /\ list' \in [Rec -> Row \cup {None}]
           /\ \A x \in Rec : x # r => rows'[x] = rows[x] /\ chroma'[x] = chroma[x]
                                        /\ list'[x] = list[x]
           /\ rows'[r] = row
           /\ row = None => chroma'[r] \in {chroma[r], None}
           /\ mode = "chroma" => list' = list
           /\ stale' \subseteq Rec
           /\ faults' \in Nat
           /\ IndexAgrees'
           /\ LinksKeyed'
<1> DEFINE copy == ChromaCopy(row, chroma[r])
<1>1. /\ copy \in Row \cup {None} /\ Agrees(copy, row)
      /\ row = None => copy = None
      /\ row # None => copy.links = {}
  BY CopyIsRow DEF MemoryTypeOK
<1>2. CASE Store(r, row) /\ mode = "chroma"
  <2>1. /\ rows' = [rows EXCEPT ![r] = row] /\ chroma' = [chroma EXCEPT ![r] = copy]
        /\ stale' = stale \ {r} /\ list' = list /\ faults' = faults
    BY <1>2 DEF Store
  <2>2. list[r] = None
    BY <1>2 DEF ListIdle
  <2> HIDE DEF copy
  <2>3. /\ rows'[r] = row /\ chroma'[r] = copy
        /\ \A x \in Rec : x # r => rows'[x] = rows[x] /\ chroma'[x] = chroma[x]
    BY <2>1 DEF MemoryTypeOK
  <2>4. IndexAgrees'
    BY <1>1, <2>1, <2>2, <2>3 DEF IndexAgrees, Agrees
  <2>5. LinksKeyed'
    BY <1>1, <2>3, MemoryAssumption DEF LinksKeyed
  <2> QED BY <1>1, <2>1, <2>3, <2>4, <2>5 DEF MemoryTypeOK
<1>3. CASE Store(r, row) /\ mode = "memory"
  <2>1. /\ rows' = [rows EXCEPT ![r] = row] /\ list' = [list EXCEPT ![r] = row]
        /\ stale' = stale \cup {r} /\ chroma' = chroma /\ faults' = faults
    BY <1>3 DEF Store
  <2>2. IndexAgrees' /\ LinksKeyed'
    BY <2>1 DEF IndexAgrees, Agrees, LinksKeyed, MemoryTypeOK
  <2> QED BY <1>3, <2>1, <2>2 DEF MemoryTypeOK
<1>4. CASE StoreTorn(r, row)
  <2>1. /\ rows' = [rows EXCEPT ![r] = row] /\ list' = list /\ list[r] = None
        /\ stale' = stale \cup {r} /\ chroma' = chroma /\ faults' = faults + 1
    BY <1>4 DEF StoreTorn, ListIdle
  <2>2. IndexAgrees' /\ LinksKeyed'
    BY <2>1 DEF IndexAgrees, Agrees, LinksKeyed, MemoryTypeOK
  <2> QED BY <2>1, <2>2 DEF MemoryTypeOK
<1> QED BY <1>2, <1>3, <1>4 DEF MemoryTypeOK, Mode

\* Both halves of a deletion happen.
LEMMA EraseStep ==
    ASSUME MemoryTypeOK, NEW r \in Rec, Store(r, None)
    PROVE  rows'[r] = None /\ (mode = "chroma" => chroma'[r] = None)
BY DEF Store, MemoryTypeOK, ChromaCopy, Mode

\* What a search finds is a row of SQLite or an entry of the index; on ChromaDB
\* an entry is a hit.
LEMMA SearchRows ==
    ASSUME MemoryTypeOK, NEW q, NEW tagged
    PROVE  /\ DOMAIN SearchMemory(q, tagged) \subseteq Rec
           /\ \A r \in DOMAIN SearchMemory(q, tagged) :
                /\ SearchMemory(q, tagged)[r] \in Row
                /\ SearchMemory(q, tagged)[r] # None
                /\ \/ SearchMemory(q, tagged)[r] = rows[r]
                   \/ r \in IndexHits(q) /\ SearchMemory(q, tagged)[r] = Entry(r)
<1> DEFINE hits == {r \in IndexHits(q) : tagged => Entry(r).tag}
           found == {s \in RowHits(q) : tagged => rows[s].tag}
<1>1. hits \subseteq Rec /\ \A r \in hits : Entry(r) # None /\ Entry(r) \in Row
  BY DEF IndexHits, Entry, MemoryTypeOK
<1>2. found \subseteq Rec /\ \A r \in found : rows[r] # None /\ rows[r] \in Row
  BY DEF RowHits, MemoryTypeOK
<1>3. SearchMemory(q, tagged) = IF hits # {} THEN [r \in hits |-> Entry(r)]
                                ELSE [r \in found |-> rows[r]]
  BY DEF SearchMemory
<1>4. CASE hits # {}
  <2>1. SearchMemory(q, tagged) = [r \in hits |-> Entry(r)]
    BY <1>3, <1>4
  <2> QED BY <2>1, <1>1
<1>5. CASE hits = {}
  <2>1. SearchMemory(q, tagged) = [r \in found |-> rows[r]]
    BY <1>3, <1>5
  <2> QED BY <2>1, <1>2
<1> QED BY <1>4, <1>5

\* The same for the records a recall ranks.
LEMMA CandidateRows ==
    ASSUME MemoryTypeOK, NEW q
    PROVE  /\ DOMAIN Candidates(q) \subseteq Rec
           /\ \A r \in DOMAIN Candidates(q) :
                /\ Candidates(q)[r] \in Row
                /\ \/ Candidates(q)[r] = rows[r]
                   \/ r \in IndexHits(q) /\ Candidates(q)[r] = Entry(r)
<1> DEFINE found == SearchMemory(q, FALSE)
           latest == {s \in Rec : rows[s] # None}
<1>1. Candidates(q) = IF DOMAIN found # {} THEN found ELSE [r \in latest |-> rows[r]]
  BY DEF Candidates
<1>2. CASE DOMAIN found # {}
  BY <1>1, <1>2, SearchRows
<1>3. CASE DOMAIN found = {}
  <2>1. Candidates(q) = [r \in latest |-> rows[r]]
    BY <1>1, <1>3
  <2> QED BY <2>1 DEF MemoryTypeOK
<1> QED BY <1>2, <1>3

\* The values a running store() takes.
LEMMA JobFields ==
    /\ NoJob \in Job /\ NoJob.rec = None /\ NoJob.own = FALSE /\ NoJob.todo = {}
    /\ \A r \in Rec, S \in SUBSET Rec : [rec |-> r, own |-> TRUE, todo |-> S] \in Job
    /\ \A j \in Job : /\ [j EXCEPT !.own = FALSE] \in Job
                      /\ [j EXCEPT !.own = FALSE].rec = j.rec
                      /\ [j EXCEPT !.own = FALSE].own = FALSE
                      /\ [j EXCEPT !.own = FALSE].todo = j.todo
    /\ \A j \in Job, x \in Rec : /\ [j EXCEPT !.todo = @ \ {x}] \in Job
                                /\ [j EXCEPT !.todo = @ \ {x}].rec = j.rec
                                /\ [j EXCEPT !.todo = @ \ {x}].own = j.own
                                /\ [j EXCEPT !.todo = @ \ {x}].todo = j.todo \ {x}
<1>1. NoJob \in Job /\ NoJob.rec = None /\ NoJob.own = FALSE /\ NoJob.todo = {}
  <2>1. {} \in SUBSET Rec
    OBVIOUS
  <2> QED BY <2>1 DEF NoJob, Job
<1> QED BY <1>1 DEF Job

-----------------------------------------------------------------------------
(* The invariant, action by action *)

\* The invariant holds initially.
LEMMA InitIInv == Init => IInv
<1> SUFFICES ASSUME Init PROVE IInv
  OBVIOUS
<1> USE DEF Init, MemoryInit, NoJob
<1>1. TypeOK
  BY DEF TypeOK, MemoryTypeOK, Job
<1>2. IndexAgrees /\ LinksKeyed /\ ListIdle
  BY DEF IndexAgrees, Agrees, LinksKeyed, ListIdle
<1>3. Unissued /\ GoneIsEmpty /\ JobHasRow
  BY DEF Unissued, GoneIsEmpty, JobHasRow
<1> QED BY <1>1, <1>2, <1>3 DEF IInv

\* A write of record r keeps the invariant, if the histories only grow, a deleted
\* id stays empty, and the running store() keeps its record.
LEMMA WriteInv ==
    ASSUME IInv, NEW r \in Rec, NEW row \in Row \cup {None},
           Store(r, row) \/ StoreTorn(r, row),
           row # None => (row.links # {} => row.keyed),
           issued \subseteq issued', issued' \subseteq Rec, r \in issued',
           \/ gone' = gone /\ (row = None \/ rows[r] # None \/ r \notin issued)
           \/ gone' = gone \cup {<<r, mode>>} /\ Store(r, None),
           mode' = mode, starts' = starts, altered' \subseteq Rec, torn' \subseteq Rec,
           recallFailed' = recallFailed, job' \in Job, JobHasRow'
    PROVE  IInv'
<1>1. MemoryTypeOK /\ IndexAgrees /\ LinksKeyed /\ ListIdle
  BY DEF IInv, TypeOK
<1>2. /\ rows' \in [Rec -> Row \cup {None}]
      /\ chroma' \in [Rec -> Row \cup {None}]
      /\ list' \in [Rec -> Row \cup {None}]
      /\ \A x \in Rec : x # r => rows'[x] = rows[x] /\ chroma'[x] = chroma[x]
      /\ rows'[r] = row
      /\ row = None => chroma'[r] \in {chroma[r], None}
      /\ mode = "chroma" => list' = list
      /\ stale' \subseteq Rec
      /\ faults' \in Nat
      /\ IndexAgrees'
      /\ LinksKeyed'
  BY <1>1, WriteStep
<1>3. TypeOK'
  <2>1. gone' \subseteq Rec \X Mode
    <3>1. <<r, mode>> \in Rec \X Mode /\ gone \subseteq Rec \X Mode
      BY <1>1 DEF MemoryTypeOK
    <3> QED BY <3>1
  <2> QED BY <1>2, <2>1 DEF IInv, TypeOK, MemoryTypeOK
<1>4. Unissued'
  BY <1>2 DEF IInv, Unissued
<1>5. GoneIsEmpty'
  <2>0. ASSUME NEW d \in gone, d[1] # r \/ row = None
        PROVE  /\ d[1] \in issued' /\ rows'[d[1]] = None
               /\ d[2] = "chroma" => chroma'[d[1]] = None
    <3>1. /\ d[1] \in issued /\ rows[d[1]] = None /\ d[1] \in Rec
          /\ d[2] = "chroma" => chroma[d[1]] = None
      BY DEF IInv, TypeOK, MemoryTypeOK, GoneIsEmpty
    <3>2. CASE d[1] # r
      BY <1>2, <3>1, <3>2
    <3>3. CASE d[1] = r
      BY <1>2, <2>0, <3>1, <3>3
    <3> QED BY <3>2, <3>3
  <2>1. CASE gone' = gone /\ (row = None \/ rows[r] # None \/ r \notin issued)
    <3>1. ASSUME NEW d \in gone PROVE d[1] # r \/ row = None
      BY <2>1 DEF IInv, GoneIsEmpty
    <3> QED BY <2>0, <2>1, <3>1 DEF GoneIsEmpty
  <2>2. CASE gone' = gone \cup {<<r, mode>>} /\ Store(r, None)
    <3>1. rows'[r] = None /\ (mode = "chroma" => chroma'[r] = None)
      BY <1>1, <2>2, EraseStep
    <3>2. row = None
      BY <1>2, <3>1
    <3>3. <<r, mode>>[1] = r /\ <<r, mode>>[2] = mode
      OBVIOUS
    <3> QED BY <2>0, <2>2, <3>1, <3>2, <3>3 DEF GoneIsEmpty
  <2> QED BY <2>1, <2>2
<1>6. ListIdle'
  BY <1>1, <1>2 DEF ListIdle
<1> QED BY <1>2, <1>3, <1>4, <1>5, <1>6 DEF IInv

\* Rows that store() and a client send.
LEMMA SentRows ==
    /\ \A c \in Content, a, b \in BOOLEAN :
         /\ NewRow(c, a, b) \in Row /\ NewRow(c, a, b).links = {}
         /\ NewRow(c, a, b).keyed = b
    /\ \A row \in ClientRows : /\ row \in Row /\ row.links \subseteq issued
                               /\ row.links # {} => row.keyed
<1>1. \A row \in ClientRows : row \in Row /\ row.links \subseteq issued
                              /\ (row.links # {} => row.keyed)
  BY MemoryAssumption DEF ClientRows, Row
<1> QED BY <1>1 DEF NewRow, Row

\* Rows a client's update leads to.
LEMMA UpdatedAreRows ==
    ASSUME IInv, NEW r \in Rec, rows[r] # None, NEW row \in UpdatedRows(r)
    PROVE  /\ row \in Row /\ (row.links # {} => row.keyed)
           /\ row.links \subseteq issued \/ row.links = rows[r].links
<1>1. CASE row \in ClientRows
  BY <1>1, SentRows
<1>2. ASSUME NEW sent \in ClientSends,
             row = [sent EXCEPT !.keyed = rows[r].keyed, !.links = rows[r].links]
      PROVE  /\ row \in Row /\ (row.links # {} => row.keyed)
             /\ row.links = rows[r].links
  <2>1. rows[r].links # {} => rows[r].keyed
    BY DEF IInv, LinksKeyed
  <2>2. sent \in Row /\ rows[r] \in Row
    BY MemoryAssumption DEF IInv, TypeOK, MemoryTypeOK
  <2>3. row \in Row /\ row.links = rows[r].links /\ row.keyed = rows[r].keyed
    BY <1>2, <2>2 DEF Row
  <2> QED BY <2>1, <2>3, Zenon
<1> QED BY <1>1, <1>2 DEF UpdatedRows

\* What an operation of the manager writes.
ManagerWrites(r, row) ==
    /\ Store(r, row) \/ StoreTorn(r, row)
    /\ row # None => /\ row.links # {} => row.keyed
                     /\ \/ row.links \subseteq issued'
                        \/ rows[r] # None /\ row.links = rows[r].links
    /\ issued' \in {issued, issued \cup {r}} /\ r \in issued'
    /\ \/ gone' = gone /\ (row = None \/ rows[r] # None \/ r \notin issued)
       \/ gone' = gone \cup {<<r, mode>>} /\ Store(r, None)
    /\ row # None /\ rows[r] = None => r \notin issued
    /\ altered' \in {altered, altered \cup {r}}
    /\ \/ row = None
       \/ r \in altered'
       \/ rows[r] = None /\ row.links = {}
       \/ rows[r] # None /\ row.links = rows[r].links
    /\ UNCHANGED <<mode, starts>>

\* Every operation of the manager is such a write.
LEMMA ManagerIsWrite ==
    ASSUME IInv, MemoryNext
    PROVE  \E r \in Rec, row \in Row \cup {None} : ManagerWrites(r, row)
<1>1. ASSUME NEW r \in Rec, NEW row \in ClientRows, SaveMemory(r, row)
      PROVE  row \in Row /\ ManagerWrites(r, row)
  <2>1. row \in Row /\ row.links \subseteq issued /\ (row.links # {} => row.keyed)
    BY SentRows
  <2>2. r \notin issued /\ rows[r] = None
    BY <1>1 DEF SaveMemory, IInv, Unissued
  <2> QED BY <1>1, <2>1, <2>2 DEF SaveMemory, ManagerWrites
<1>2. ASSUME NEW r \in Rec, NEW c \in Content, Compress(r, c)
      PROVE  NewRow(c, TRUE, FALSE) \in Row /\ ManagerWrites(r, NewRow(c, TRUE, FALSE))
  <2>1. NewRow(c, TRUE, FALSE) \in Row /\ NewRow(c, TRUE, FALSE).links = {}
    BY SentRows
  <2>2. r \notin issued /\ rows[r] = None
    BY <1>2 DEF Compress, IInv, Unissued
  <2> QED BY <1>2, <2>1, <2>2 DEF Compress, ManagerWrites
<1>3. ASSUME NEW r \in Rec, rows[r] # None, NEW row \in UpdatedRows(r), UpdateMemory(r, row)
      PROVE  row \in Row /\ ManagerWrites(r, row)
  <2>1. /\ row \in Row /\ (row.links # {} => row.keyed)
        /\ row.links \subseteq issued \/ row.links = rows[r].links
    BY <1>3, UpdatedAreRows
  <2>2. r \in issued
    BY <1>3 DEF IInv, Unissued
  <2> QED BY <1>3, <2>1, <2>2 DEF UpdateMemory, ManagerWrites
<1>4. ASSUME NEW r \in Rec, DeleteMemory(r) PROVE ManagerWrites(r, None)
  BY <1>4 DEF DeleteMemory, ManagerWrites
<1> QED BY <1>1, <1>2, <1>3, <1>4 DEF MemoryNext

\* Each operation of the manager keeps the invariant.
LEMMA ManagerStep == ASSUME IInv, Manager PROVE IInv'
<1>1. job = NoJob /\ MemoryNext /\ UNCHANGED <<job, torn, recallFailed>>
  BY DEF Manager
<1>2. PICK r \in Rec, row \in Row \cup {None} : ManagerWrites(r, row)
  BY <1>1, ManagerIsWrite
<1>3. issued' \subseteq Rec /\ altered' \subseteq Rec /\ torn' \subseteq Rec /\ issued \subseteq issued'
  BY <1>1, <1>2 DEF ManagerWrites, IInv, TypeOK, MemoryTypeOK
<1>4. job' \in Job /\ JobHasRow'
  BY <1>1, JobFields DEF JobHasRow
<1>5. /\ Store(r, row) \/ StoreTorn(r, row)
      /\ row # None => (row.links # {} => row.keyed)
      /\ r \in issued'
      /\ \/ gone' = gone /\ (row = None \/ rows[r] # None \/ r \notin issued)
         \/ gone' = gone \cup {<<r, mode>>} /\ Store(r, None)
      /\ mode' = mode /\ starts' = starts
  BY <1>2 DEF ManagerWrites
<1> QED BY <1>1, <1>3, <1>4, <1>5, WriteInv

\* A save of the other process keeps the invariant, whatever store() runs.
LEMMA CliStep == ASSUME IInv, Cli PROVE IInv'
<1> PICK r \in Rec, c \in Content : CliRemember(r, c) /\ UNCHANGED <<job, torn, recallFailed>>
  BY DEF Cli
<1> DEFINE row == NewRow(c, FALSE, FALSE)
           copy == ChromaCopy(row, chroma[r])
<1>1. row \in Row /\ row # None /\ row.links = {}
  BY SentRows, MemoryAssumption
<1>2. /\ r \notin issued /\ rows[r] = None /\ chroma[r] = None
      /\ rows' = [rows EXCEPT ![r] = row]
      /\ \/ chroma' = [chroma EXCEPT ![r] = copy] /\ stale' = stale
         \/ stale' = stale \cup {r} /\ chroma' = chroma
      /\ issued' = issued \cup {r} /\ UNCHANGED <<mode, list, gone, altered, faults, starts>>
  BY DEF CliRemember, IInv, Unissued
<1>3. copy \in Row \cup {None} /\ Agrees(copy, row) /\ copy.links = {}
  BY <1>1, CopyIsRow DEF IInv, TypeOK, MemoryTypeOK
<1> HIDE DEF row, copy
<1>4. /\ rows'[r] = row /\ chroma'[r] \in {copy, None} /\ (r \notin stale' => chroma'[r] = copy)
      /\ \A x \in Rec : x # r => rows'[x] = rows[x] /\ chroma'[x] = chroma[x]
                                   /\ (x \notin stale' => x \notin stale)
  BY <1>2 DEF IInv, TypeOK, MemoryTypeOK
<1>5. TypeOK'
  BY <1>1, <1>2, <1>3 DEF IInv, TypeOK, MemoryTypeOK
<1>6. IndexAgrees'
  <2>1. list[r] = None
    BY <1>2 DEF IInv, IndexAgrees
  <2>2. \A x \in Rec : (x \notin stale => Agrees(chroma[x], rows[x])) /\ list[x] \in {None, rows[x]}
    BY DEF IInv, IndexAgrees
  <2>3. list' = list
    BY <1>2
  <2>4. ASSUME NEW x \in Rec
        PROVE  (x \notin stale' => Agrees(chroma'[x], rows'[x])) /\ list'[x] \in {None, rows'[x]}
    BY <1>3, <1>4, <2>1, <2>2, <2>3
  <2> QED BY <2>4 DEF IndexAgrees, Agrees
<1>7. LinksKeyed' /\ ListIdle'
  BY <1>1, <1>2, <1>3, <1>4 DEF IInv, LinksKeyed, ListIdle
<1>8. Unissued'
  BY <1>2, <1>4 DEF IInv, Unissued
<1>9. GoneIsEmpty'
  <2> SUFFICES ASSUME NEW d \in gone
               PROVE  /\ d[1] \in issued' /\ rows'[d[1]] = None
                      /\ d[2] = "chroma" => chroma'[d[1]] = None
    BY <1>2 DEF GoneIsEmpty
  <2>1. /\ d[1] \in issued /\ rows[d[1]] = None /\ d[1] \in Rec
        /\ d[2] = "chroma" => chroma[d[1]] = None
    BY DEF IInv, TypeOK, MemoryTypeOK, GoneIsEmpty
  <2> QED BY <1>2, <1>4, <2>1
<1>10. JobHasRow'
  <2>1. job # NoJob => job.rec \in Rec /\ job.rec # r
    BY <1>2 DEF IInv, TypeOK, MemoryTypeOK, JobHasRow
  <2>2. job' = job
    OBVIOUS
  <2> QED BY <1>2, <1>4, <2>1, <2>2 DEF IInv, JobHasRow
<1> QED BY <1>5, <1>6, <1>7, <1>8, <1>9, <1>10 DEF IInv

\* store() of a new memory.
LEMMA StoreStep ==
    ASSUME IInv, NEW r \in Rec, NEW c \in Content, NeuralStore(r, c)
    PROVE  IInv'
<1> DEFINE row == NewRow(c, TRUE, TRUE)
           found == SearchMemory(c, TRUE)
           related == {x \in DOMAIN found : found[x].content = c}
<1>1. row \in Row /\ row # None /\ row.links = {} /\ row.keyed = TRUE
  BY SentRows, MemoryAssumption
<1>2. MemoryTypeOK /\ IndexAgrees /\ LinksKeyed /\ ListIdle /\ r \notin issued
  BY DEF IInv, TypeOK, NeuralStore
<1>3. related \subseteq Rec
  BY <1>2, SearchRows
<1>4. /\ Store(r, row) \/ StoreTorn(r, row)
      /\ job' \in {NoJob, [rec |-> r, own |-> TRUE, todo |-> related]}
      /\ issued' = issued \cup {r}
      /\ UNCHANGED <<mode, gone, altered, starts, torn, recallFailed>>
  BY DEF NeuralStore
<1> HIDE DEF row, related
<1>5. rows'[r] = row
  BY <1>1, <1>2, <1>4, WriteStep
<1>6. job' \in Job
  BY <1>3, <1>4, JobFields
<1>7. JobHasRow'
  <2>1. CASE job' = NoJob
    BY <2>1, JobFields DEF JobHasRow
  <2>2. CASE job' = [rec |-> r, own |-> TRUE, todo |-> related]
    <3>1. job'.rec = r /\ r \in issued' /\ r # None
      BY <1>4, <2>2, MemoryAssumption
    <3>2. job' # NoJob
      BY <3>1, JobFields
    <3> QED BY <1>1, <1>5, <3>1, <3>2 DEF JobHasRow
  <2> QED BY <1>4, <2>1, <2>2
<1>8. issued' \subseteq Rec /\ altered' \subseteq Rec /\ torn' \subseteq Rec
  BY <1>4 DEF IInv, TypeOK, MemoryTypeOK
<1> QED BY <1>1, <1>2, <1>4, <1>6, <1>7, <1>8, WriteInv

\* A link written for the running store(): no id is issued or deleted, and no
\* row appears or disappears.
LEMMA LinkWrite ==
    ASSUME IInv, NEW r \in Rec, NEW row \in Row, rows[r] # None, job.rec # None,
           Store(r, row) \/ StoreTorn(r, row), row.keyed,
           UNCHANGED <<mode, issued, gone, altered, starts, recallFailed>>,
           job' = NoJob \/ (job' \in Job /\ job'.rec = job.rec /\ job'.own = FALSE),
           torn' \subseteq Rec
    PROVE  IInv'
<1>1. MemoryTypeOK /\ IndexAgrees /\ LinksKeyed /\ ListIdle /\ row # None
  BY MemoryAssumption DEF IInv, TypeOK
<1>2. r \in issued
  BY DEF IInv, Unissued
<1>3. rows'[r] = row /\ \A x \in Rec : x # r => rows'[x] = rows[x]
  BY <1>1, WriteStep
<1>4. job' \in Job
  BY JobFields
<1>5. JobHasRow'
  <2>1. job.rec \in Rec /\ job.rec \in issued /\ rows[job.rec] # None
    BY JobFields DEF IInv, TypeOK, Job, JobHasRow
  <2>2. rows'[job.rec] # None
    BY <1>1, <1>3, <2>1
  <2>3. CASE job' = NoJob
    BY <2>3, JobFields DEF JobHasRow
  <2>4. CASE job'.rec = job.rec /\ job'.own = FALSE
    BY <2>1, <2>2, <2>4 DEF JobHasRow
  <2> QED BY <2>3, <2>4
<1>6. issued' \subseteq Rec /\ altered' \subseteq Rec /\ issued \subseteq issued' /\ r \in issued'
  BY <1>1, <1>2 DEF MemoryTypeOK
<1> QED BY <1>1, <1>4, <1>5, <1>6, WriteInv

\* The links of the new memory are written.
LEMMA PersistStep == ASSUME IInv, PersistLinks PROVE IInv'
<1> DEFINE row == [rows[job.rec] EXCEPT !.links = job.todo]
<1>1. job.rec \in Rec /\ job.rec # None /\ rows[job.rec] \in Row /\ rows[job.rec] # None
      /\ rows[job.rec].keyed /\ job \in Job
  BY MemoryAssumption DEF IInv, TypeOK, MemoryTypeOK, Job, JobHasRow, PersistLinks
<1>2. row \in Row /\ row.keyed = rows[job.rec].keyed
  BY <1>1 DEF Job, Row
<1>3. /\ Store(job.rec, row) \/ StoreTorn(job.rec, row)
      /\ UNCHANGED <<mode, issued, gone, altered, starts, recallFailed>>
      /\ job' \in {NoJob, [job EXCEPT !.own = FALSE]}
      /\ torn' \in {torn, torn \cup {job.rec}}
  BY DEF PersistLinks, Abandon
<1>4. torn' \subseteq Rec
  BY <1>1, <1>3 DEF IInv, TypeOK
<1>5. job' = NoJob \/ (job' \in Job /\ job'.rec = job.rec /\ job'.own = FALSE)
  BY <1>1, <1>3, JobFields
<1>6. row.keyed
  BY <1>1, <1>2, Zenon
<1> HIDE DEF row
<1> QED BY <1>1, <1>2, <1>3, <1>4, <1>5, <1>6, LinkWrite

\* A reverse link is written, or its target is gone.
LEMMA ReverseStep == ASSUME IInv, NEW x \in Rec, ReverseLink(x) PROVE IInv'
<1> DEFINE row == [rows[x] EXCEPT !.links = @ \cup {job.rec}, !.keyed = TRUE]
           rest == IF job.todo = {x} THEN NoJob ELSE [job EXCEPT !.todo = @ \ {x}]
<1>1. job.rec \in Rec /\ job.rec # None /\ job \in Job /\ job.own = FALSE
  BY MemoryAssumption DEF IInv, TypeOK, Job, ReverseLink
<1>2. rest = NoJob \/ (rest \in Job /\ rest.rec = job.rec /\ rest.own = FALSE)
  BY <1>1, JobFields
<1>3. CASE rows[x] # None
  <2>1. rows[x] \in Row
    BY <1>3 DEF IInv, TypeOK, MemoryTypeOK
  <2>2. row \in Row /\ row.keyed
    BY <1>1, <2>1 DEF Row
  <2>3. /\ Store(x, row) \/ StoreTorn(x, row)
        /\ UNCHANGED <<mode, issued, gone, altered, starts, recallFailed>>
        /\ job' \in {rest, NoJob}
        /\ torn' \in {torn, torn \cup {job.rec}}
    BY <1>3 DEF ReverseLink, Abandon
  <2>4. torn' \subseteq Rec
    BY <1>1, <2>3 DEF IInv, TypeOK
  <2> HIDE DEF rest, row
  <2>5. job' = NoJob \/ (job' \in Job /\ job'.rec = job.rec /\ job'.own = FALSE)
    BY <1>2, <2>3
  <2> QED BY <1>1, <1>3, <2>2, <2>3, <2>4, <2>5, LinkWrite
<1>4. CASE rows[x] = None
  <2>1. job' = rest /\ UNCHANGED <<memoryVars, torn, recallFailed>>
    BY <1>4 DEF ReverseLink, memoryVars
  <2> HIDE DEF rest
  <2>2. job.rec \in issued /\ rows[job.rec] # None /\ job.rec # None
    BY <1>1, JobFields DEF IInv, JobHasRow, ReverseLink
  <2>3. JobHasRow'
    BY <1>2, <2>1, <2>2, JobFields DEF JobHasRow, memoryVars, stores
  <2>4. TypeOK'
    BY <1>2, <2>1, JobFields DEF IInv, TypeOK, MemoryTypeOK, memoryVars, stores
  <2> QED BY <2>1, <2>3, <2>4 DEF IInv, memoryVars, stores, IndexAgrees, Agrees, Unissued,
          GoneIsEmpty, LinksKeyed, ListIdle
<1> QED BY <1>3, <1>4

\* What a recall leaves of record r: its row is kept, or written back.
RecallKeeps(r) ==
    /\ rows'[r] = rows[r] /\ chroma'[r] = chroma[r] /\ list'[r] = list[r]
    /\ r \notin stale' => r \notin stale

RecallWrites(r) ==
    /\ rows[r] # None
    /\ rows'[r] \in Row
    /\ rows'[r].links # {} => rows'[r].keyed
    /\ rows'[r].links \in {rows[r].links, {}}
    /\ rows'[r].links # rows[r].links => mode = "chroma" /\ r \in stale /\ r \in altered'
    /\ chroma'[r] = ChromaCopy(rows'[r], chroma[r]) \/ (chroma'[r] = chroma[r] /\ r \in stale')
    /\ list'[r] = IF mode = "memory" THEN rows'[r] ELSE list[r]

\* Every record is kept or written back.
LEMMA RecallEffect ==
    ASSUME IInv, NEW q \in Content, Recall(q)
    PROVE  /\ \A r \in Rec : RecallKeeps(r) \/ RecallWrites(r)
           /\ rows' = [r \in Rec |-> rows'[r]]
           /\ chroma' = [r \in Rec |-> chroma'[r]]
           /\ list' = [r \in Rec |-> list'[r]]
           /\ stale' \subseteq Rec /\ altered' \subseteq Rec /\ altered \subseteq altered'
           /\ faults' \in Nat
           /\ UNCHANGED <<mode, issued, gone, starts, job, torn, recallFailed>>
<1> DEFINE copy == Candidates(q)
           Effect(ranked, done, lost) ==
             LET kept    == {r \in done : rows[r] # None}
                 reached == IF mode = "chroma" THEN kept \ lost ELSE {}
             IN  /\ \A r \in ranked : ~ RankRaises(q, r)
                 /\ kept # {}
                 /\ lost # {} => mode = "chroma"
                 /\ rows' = [r \in Rec |-> IF r \in kept
                                THEN [rows[r] EXCEPT !.links = copy[r].links,
                                                     !.keyed = copy[r].keyed]
                                ELSE rows[r]]
                 /\ chroma' = [r \in Rec |-> IF r \in reached
                                  THEN ChromaCopy(rows'[r], chroma[r]) ELSE chroma[r]]
                 /\ list' = [r \in Rec |-> IF r \in kept /\ mode = "memory"
                                THEN rows'[r] ELSE list[r]]
                 /\ stale' = (stale \cup kept) \ reached
                 /\ altered' = altered \cup {r \in kept : rows'[r].links # rows[r].links}
                 /\ \/ done = ranked /\ lost = {} /\ UNCHANGED faults
                    \/ /\ done # ranked \/ lost # {}
                       /\ faults < MaxFaults
                       /\ faults' = faults + 1
<1>1. PICK ranked, done, lost \in SUBSET DOMAIN copy :
        done \subseteq ranked /\ lost \subseteq done /\ Effect(ranked, done, lost)
  <2>1. PICK ranked \in SUBSET DOMAIN copy : \E done \in SUBSET ranked :
             \E lost \in {{}} \cup {{r} : r \in done} : Effect(ranked, done, lost)
    BY DEF Recall
  <2>2. PICK done \in SUBSET ranked :
             \E lost \in {{}} \cup {{r} : r \in done} : Effect(ranked, done, lost)
    BY <2>1
  <2>3. PICK lost \in {{}} \cup {{r} : r \in done} : Effect(ranked, done, lost)
    BY <2>2
  <2>4. lost \in SUBSET done
    BY <2>3
  <2> HIDE DEF Effect
  <2> QED BY <2>3, <2>4
<1> DEFINE kept == {r \in done : rows[r] # None}
           reached == IF mode = "chroma" THEN kept \ lost ELSE {}
<1>2. /\ \A r \in ranked : ~ RankRaises(q, r)
      /\ rows' = [r \in Rec |-> IF r \in kept
                     THEN [rows[r] EXCEPT !.links = copy[r].links, !.keyed = copy[r].keyed]
                     ELSE rows[r]]
      /\ chroma' = [r \in Rec |-> IF r \in reached
                       THEN ChromaCopy(rows'[r], chroma[r]) ELSE chroma[r]]
      /\ list' = [r \in Rec |-> IF r \in kept /\ mode = "memory" THEN rows'[r] ELSE list[r]]
      /\ stale' = (stale \cup kept) \ reached
      /\ altered' = altered \cup {r \in kept : rows'[r].links # rows[r].links}
      /\ faults' = faults \/ faults' = faults + 1
  BY <1>1
<1>3. MemoryTypeOK /\ IndexAgrees /\ LinksKeyed
  BY DEF IInv, TypeOK
<1>4. /\ DOMAIN copy \subseteq Rec
      /\ \A r \in DOMAIN copy :
           /\ copy[r] \in Row
           /\ copy[r] = rows[r] \/ (r \in IndexHits(q) /\ copy[r] = Entry(r))
  BY <1>3, CandidateRows
<1>5. kept \subseteq Rec /\ kept \subseteq ranked /\ kept \subseteq DOMAIN copy
      /\ reached \subseteq kept /\ \A r \in kept : rows[r] # None
  BY <1>1, <1>4
<1> HIDE DEF copy, Effect
<1>6. ASSUME NEW r \in Rec, r \notin kept PROVE RecallKeeps(r)
  BY <1>2, <1>5, <1>6 DEF RecallKeeps
<1>7. ASSUME NEW r \in kept PROVE RecallWrites(r)
  <2>1. r \in Rec /\ rows[r] \in Row /\ rows[r] # None /\ copy[r] \in Row
    BY <1>3, <1>4, <1>5 DEF MemoryTypeOK
  <2>2. \/ copy[r] = rows[r]
        \/ mode = "chroma" /\ ~ chroma[r].keyed /\ copy[r] = chroma[r] /\ chroma[r] # None
    <3>1. copy[r] = rows[r] \/ (r \in IndexHits(q) /\ copy[r] = Entry(r))
      BY <1>4, <1>5
    <3>2. CASE mode = "memory"
      <4>1. Entry(r) = list[r] /\ list[r] \in {None, rows[r]}
        BY <1>3, <2>1, <3>2 DEF Entry, IndexAgrees
      <4> QED BY <2>1, <3>1, <4>1, MemoryAssumption
    <3>3. CASE mode = "chroma"
      <4>1. ~ (r \in IndexHits(q) /\ chroma[r].keyed)
        BY <1>2, <1>5, <3>3 DEF RankRaises
      <4>2. r \in IndexHits(q) => chroma[r] # None /\ Entry(r) = chroma[r]
        BY <3>3 DEF IndexHits, Entry
      <4> QED BY <3>1, <3>3, <4>1, <4>2
    <3> QED BY <1>3, <3>2, <3>3 DEF MemoryTypeOK, Mode
  <2>3. rows'[r] = [rows[r] EXCEPT !.links = copy[r].links, !.keyed = copy[r].keyed]
    BY <1>2, <2>1
  <2>4. rows'[r] \in Row /\ rows'[r].links = copy[r].links /\ rows'[r].keyed = copy[r].keyed
    BY <2>1, <2>3 DEF Row
  <2>5. rows'[r].links # {} => rows'[r].keyed
    <3>1. CASE copy[r] = rows[r]
      <4>1. rows[r].links # {} => rows[r].keyed
        BY <1>3, <2>1 DEF LinksKeyed
      <4> QED BY <2>4, <3>1, <4>1, Zenon
    <3>2. CASE copy[r] = chroma[r] /\ chroma[r] # None
      <4>1. chroma[r].links = {}
        BY <1>3, <2>1, <3>2 DEF LinksKeyed
      <4> QED BY <2>4, <3>2, <4>1
    <3> QED BY <2>2, <3>1, <3>2
  <2>6. rows'[r].links \in {rows[r].links, {}}
    BY <1>3, <2>1, <2>2, <2>4 DEF LinksKeyed
  <2>7. ASSUME rows'[r].links # rows[r].links PROVE mode = "chroma" /\ r \in stale /\ r \in altered'
    <3>1. copy[r] # rows[r]
      BY <2>4, <2>7
    <3>2. mode = "chroma" /\ ~ chroma[r].keyed /\ rows'[r].links = {}
      BY <1>3, <2>1, <2>2, <2>4, <3>1 DEF LinksKeyed
    <3>3. rows[r].links # {}
      BY <2>7, <3>2
    <3>4. rows[r].keyed
      BY <1>3, <2>1, <3>3 DEF LinksKeyed
    <3>5. r \in stale
      BY <1>3, <2>1, <3>2, <3>4 DEF IndexAgrees, Agrees
    <3> QED BY <1>2, <2>7, <3>2, <3>5
  <2>8. chroma'[r] = ChromaCopy(rows'[r], chroma[r]) \/ (chroma'[r] = chroma[r] /\ r \in stale')
    <3> HIDE DEF kept, reached
    <3> QED BY <1>2, <1>7, <2>1
  <2>9. list'[r] = IF mode = "memory" THEN rows'[r] ELSE list[r]
    <3> HIDE DEF kept, reached
    <3> QED BY <1>2, <1>7, <2>1
  <2> QED BY <2>1, <2>4, <2>5, <2>6, <2>7, <2>8, <2>9 DEF RecallWrites
<1>8. stale' \subseteq Rec /\ altered' \subseteq Rec /\ altered \subseteq altered' /\ faults' \in Nat
  <2>1. faults' \in Nat
    <3>1. faults \in Nat /\ (faults' = faults \/ faults' = faults + 1)
      BY <1>2, <1>3 DEF MemoryTypeOK
    <3> QED BY ONLY <3>1
  <2>2. {r \in kept : rows'[r].links # rows[r].links} \subseteq Rec
    BY <1>5
  <2> HIDE DEF kept, reached
  <2> QED BY <1>2, <1>3, <1>5, <2>1, <2>2 DEF MemoryTypeOK
<1>9. UNCHANGED <<mode, issued, gone, starts, job, torn, recallFailed>>
  BY DEF Recall
<1> HIDE DEF kept, reached
<1> QED BY <1>2, <1>6, <1>7, <1>8, <1>9

\* A recall keeps the invariant.
LEMMA RecallStep == ASSUME IInv, NEW q \in Content, Recall(q) PROVE IInv'
<1>1. /\ \A r \in Rec : RecallKeeps(r) \/ RecallWrites(r)
      /\ rows' = [r \in Rec |-> rows'[r]]
      /\ chroma' = [r \in Rec |-> chroma'[r]]
      /\ list' = [r \in Rec |-> list'[r]]
      /\ stale' \subseteq Rec /\ altered' \subseteq Rec
      /\ faults' \in Nat
      /\ UNCHANGED <<mode, issued, gone, starts, job, torn, recallFailed>>
  BY RecallEffect
<1>2. MemoryTypeOK /\ IndexAgrees /\ LinksKeyed /\ ListIdle
  BY DEF IInv, TypeOK
<1>3. ASSUME NEW r \in Rec
      PROVE  /\ rows'[r] \in Row \cup {None} /\ chroma'[r] \in Row \cup {None}
             /\ list'[r] \in Row \cup {None}
             /\ rows'[r] = None <=> rows[r] = None
             /\ rows[r] = None => chroma'[r] = chroma[r]
             /\ r \notin stale' => Agrees(chroma'[r], rows'[r])
             /\ list'[r] \in {None, rows'[r]}
             /\ rows'[r] # None /\ rows'[r].links # {} => rows'[r].keyed
             /\ chroma'[r] # None => chroma'[r].links = {}
             /\ mode = "chroma" => list'[r] = None
  <2>1. CASE RecallKeeps(r)
    BY <1>2, <2>1 DEF RecallKeeps, MemoryTypeOK, IndexAgrees, LinksKeyed, ListIdle
  <2>2. CASE RecallWrites(r)
    <3>1. rows'[r] \in Row /\ rows'[r] # None /\ rows[r] # None /\ chroma[r] \in Row \cup {None}
      BY <1>2, <2>2, MemoryAssumption DEF RecallWrites, MemoryTypeOK
    <3>2. ChromaCopy(rows'[r], chroma[r]) \in Row \cup {None}
          /\ Agrees(ChromaCopy(rows'[r], chroma[r]), rows'[r])
          /\ ChromaCopy(rows'[r], chroma[r]).links = {}
      BY <3>1, CopyIsRow
    <3>3. /\ chroma'[r] \in Row \cup {None}
          /\ r \notin stale' => Agrees(chroma'[r], rows'[r])
          /\ chroma'[r] # None => chroma'[r].links = {}
      <4>1. chroma[r] # None => chroma[r].links = {}
        BY <1>2 DEF LinksKeyed
      <4> QED BY <2>2, <3>1, <3>2, <4>1 DEF RecallWrites
    <3>4. /\ list'[r] \in {None, rows'[r]} /\ (mode = "chroma" => list'[r] = None)
      BY <1>2, <2>2 DEF RecallWrites, ListIdle, MemoryTypeOK, Mode
    <3>5. rows'[r].links # {} => rows'[r].keyed
      BY <2>2 DEF RecallWrites
    <3> QED BY <3>1, <3>3, <3>4, <3>5
  <2> QED BY <1>1, <2>1, <2>2
<1>4. TypeOK'
  BY <1>1, <1>3 DEF IInv, TypeOK, MemoryTypeOK
<1>5. IndexAgrees' /\ LinksKeyed' /\ ListIdle'
  <2>1. IndexAgrees'
    BY <1>3 DEF IndexAgrees, Agrees
  <2> QED BY <1>1, <1>3, <2>1 DEF LinksKeyed, ListIdle
<1>6. Unissued'
  BY <1>1, <1>3 DEF IInv, Unissued
<1>7. GoneIsEmpty'
  <2> SUFFICES ASSUME NEW d \in gone
               PROVE  /\ d[1] \in issued' /\ rows'[d[1]] = None
                      /\ d[2] = "chroma" => chroma'[d[1]] = None
    BY <1>1 DEF GoneIsEmpty
  <2>1. /\ d[1] \in issued /\ rows[d[1]] = None /\ d[1] \in Rec
        /\ d[2] = "chroma" => chroma[d[1]] = None
    BY DEF IInv, TypeOK, MemoryTypeOK, GoneIsEmpty
  <2> QED BY <1>1, <1>3, <2>1
<1>8. JobHasRow'
  BY <1>1, JobFields DEF Recall, JobHasRow
<1> QED BY <1>4, <1>5, <1>6, <1>7, <1>8 DEF IInv

\* The process starts again, on either index.
LEMMA RestartStep == ASSUME IInv, Restart PROVE IInv'
<1>1. /\ list' = [r \in Rec |-> None] /\ mode' \in Mode /\ starts' = starts + 1
      /\ job' = NoJob /\ torn' \in {torn, torn \cup {job.rec}}
      /\ job = NoJob => torn' = torn
      /\ UNCHANGED <<rows, chroma, issued, gone, stale, altered, faults, recallFailed>>
  BY DEF Restart, StartProcess
<1>2. torn' \subseteq Rec
  BY <1>1 DEF IInv, TypeOK, Job, JobHasRow
<1>3. TypeOK'
  <2>1. starts' \in Nat
    BY <1>1 DEF IInv, TypeOK, MemoryTypeOK
  <2> QED BY <1>1, <1>2, <2>1, JobFields DEF IInv, TypeOK, MemoryTypeOK
<1>4. IndexAgrees' /\ LinksKeyed' /\ ListIdle'
  BY <1>1 DEF IInv, IndexAgrees, Agrees, LinksKeyed, ListIdle
<1>5. Unissued' /\ GoneIsEmpty'
  BY <1>1 DEF IInv, Unissued, GoneIsEmpty
<1>6. JobHasRow'
  BY <1>1, JobFields DEF JobHasRow
<1> QED BY <1>3, <1>4, <1>5, <1>6 DEF IInv

\* Next, as the operations the lemmas above are about.
LEMMA NextIsSteps ==
    ASSUME Next
    PROVE  \/ Manager
           \/ Cli
           \/ \E r \in Rec, c \in Content : NeuralStore(r, c)
           \/ PersistLinks
           \/ \E x \in Rec : ReverseLink(x)
           \/ \E q \in Content : Recall(q)
           \/ \E q \in Content : RecallRaises(q)
           \/ Restart
BY DEF Next, Neural

\* Every step keeps the invariant.
LEMMA NextIInv == IInv /\ [Next]_vars => IInv'
<1> SUFFICES ASSUME IInv, [Next]_vars PROVE IInv'
  OBVIOUS
<1> USE DEF memoryVars, stores, IInv, TypeOK, MemoryTypeOK, IndexAgrees, Agrees,
       Unissued, GoneIsEmpty, LinksKeyed, ListIdle, JobHasRow
<1>1. ASSUME NEW q \in Content, RecallRaises(q) PROVE IInv'
  BY <1>1 DEF RecallRaises
<1>2. CASE UNCHANGED vars
  BY <1>2 DEF vars
<1> HIDE DEF IInv
<1>3. CASE Next
  BY <1>1, <1>3, NextIsSteps, ManagerStep, CliStep, StoreStep, PersistStep, ReverseStep,
     RecallStep, RestartStep
<1> QED BY <1>2, <1>3

\* The strengthened invariant holds of every behaviour.
LEMMA Invariance == Spec => []IInv
BY InitIInv, NextIInv, PTL DEF Spec

-----------------------------------------------------------------------------
\* TypeOK: the state of the stores and of a running store() is well formed.
THEOREM TypeCorrect == Spec => []TypeOK
<1>1. IInv => TypeOK
  BY DEF IInv
<1> QED BY <1>1, Invariance, PTL

\* IndexAgrees: whatever is saved, updated, linked, recalled or cut short, and
\* whichever index each process chose, ChromaDB and SQLite differ only in
\* records whose latest write did not reach ChromaDB.
THEOREM IndexFollowsRows == Spec => []IndexAgrees
<1>1. IInv => IndexAgrees
  BY DEF IInv
<1> QED BY <1>1, Invariance, PTL

\* DeletedIsUnfindable: no operation, no failed one and no change of the index
\* brings a memory back whose deletion was acknowledged on ChromaDB; on the
\* list, one whose deletion was acknowledged at all.
THEOREM DeletedStaysUnfindable == Spec => []DeletedIsUnfindable
<1>1. IInv => DeletedIsUnfindable
  <2> SUFFICES ASSUME IInv, NEW d \in gone, d[2] = "chroma" \/ mode = "memory",
                      NEW q \in Content, NEW tagged \in BOOLEAN
               PROVE  d[1] \notin DOMAIN SearchMemory(q, tagged)
    BY DEF DeletedIsUnfindable
  <2> DEFINE r == d[1]
             hits == {x \in IndexHits(q) : tagged => Entry(x).tag}
             found == {s \in RowHits(q) : tagged => rows[s].tag}
  <2>1. r \in Rec /\ rows[r] = None /\ (d[2] = "chroma" => chroma[r] = None)
    BY DEF IInv, GoneIsEmpty, TypeOK, MemoryTypeOK
  <2>2. list[r] = None
    BY <2>1 DEF IInv, IndexAgrees
  <2>3. r \notin IndexHits(q)
    BY <2>1, <2>2 DEF IndexHits
  <2>4. r \notin RowHits(q)
    BY <2>1 DEF RowHits
  <2>5. SearchMemory(q, tagged) = IF hits # {} THEN [x \in hits |-> Entry(x)]
                                  ELSE [x \in found |-> rows[x]]
    BY DEF SearchMemory
  <2>6. DOMAIN SearchMemory(q, tagged) \in {hits, found}
    BY <2>5
  <2>7. r \notin hits /\ r \notin found
    BY <2>3, <2>4
  <2> HIDE DEF hits, found, r
  <2> QED BY <2>6, <2>7 DEF r
<1> QED BY <1>1, Invariance, PTL

-----------------------------------------------------------------------------
\* LinksAreKept, of one step.
KeepsLinks ==
    \A r \in Rec : rows[r] # None /\ rows'[r] # None =>
        \/ rows[r].links \subseteq rows'[r].links
        \/ mode = "chroma" /\ r \in stale
        \/ \E row \in UpdatedRows(r) : UpdateMemory(r, row)

\* Writing one row with at least its former links keeps the links.
LEMMA WriteKeepsLinks ==
    ASSUME IInv, NEW r \in Rec, NEW row, Store(r, row) \/ StoreTorn(r, row),
           rows[r] # None /\ row # None => rows[r].links \subseteq row.links
    PROVE  KeepsLinks
<1>1. rows' = [rows EXCEPT ![r] = row]
  BY DEF Store, StoreTorn
<1>2. rows'[r] = row /\ \A x \in Rec : x # r => rows'[x] = rows[x]
  BY <1>1 DEF IInv, TypeOK, MemoryTypeOK
<1>3. ASSUME NEW x \in Rec, rows[x] # None, rows'[x] # None
      PROVE  rows[x].links \subseteq rows'[x].links
  BY <1>2, <1>3
<1> QED BY <1>3 DEF KeepsLinks

\* Every step keeps the links.
LEMMA StepKeepsLinks == IInv /\ [Next]_vars => KeepsLinks \/ UNCHANGED vars
<1> SUFFICES ASSUME IInv, Next PROVE KeepsLinks
  OBVIOUS
<1>0. MemoryTypeOK /\ job \in Job /\ \A r \in Rec : rows[r] \in Row \cup {None}
  BY DEF IInv, TypeOK, MemoryTypeOK
<1>1. ASSUME rows' = rows PROVE KeepsLinks
  BY <1>1 DEF KeepsLinks
<1>2. CASE Manager
  <2>1. ASSUME NEW r \in Rec, r \notin issued, NEW row, Store(r, row) \/ StoreTorn(r, row)
        PROVE  KeepsLinks
    <3>1. rows[r] = None
      BY <2>1 DEF IInv, Unissued
    <3> QED BY <2>1, <3>1, WriteKeepsLinks
  <2>2. ASSUME NEW r \in Rec, NEW row \in UpdatedRows(r), UpdateMemory(r, row)
        PROVE  KeepsLinks
    <3>1. \A x \in Rec : x # r => rows'[x] = rows[x]
      BY <1>0, <2>2 DEF UpdateMemory, Store, StoreTorn, MemoryTypeOK
    <3>2. \E s \in UpdatedRows(r) : UpdateMemory(r, s)
      BY <2>2
    <3>3. ASSUME NEW x \in Rec, x # r PROVE rows[x].links \subseteq rows'[x].links
      BY <3>1, <3>3
    <3> QED BY <3>2, <3>3 DEF KeepsLinks
  <2>3. ASSUME NEW r \in Rec, DeleteMemory(r) PROVE KeepsLinks
    BY <2>3, WriteKeepsLinks DEF DeleteMemory
  <2>4. ASSUME NEW r \in Rec, NEW row \in ClientRows, SaveMemory(r, row) PROVE KeepsLinks
    BY <2>1, <2>4 DEF SaveMemory
  <2>5. ASSUME NEW r \in Rec, NEW c \in Content, Compress(r, c) PROVE KeepsLinks
    BY <2>1, <2>5 DEF Compress
  <2> QED BY <1>2, <2>2, <2>3, <2>4, <2>5 DEF Manager, MemoryNext
<1>3. CASE Cli
  <2> PICK r \in Rec, c \in Content : CliRemember(r, c)
    BY <1>3 DEF Cli
  <2>1. rows[r] = None /\ rows' = [rows EXCEPT ![r] = NewRow(c, FALSE, FALSE)]
    BY DEF CliRemember, IInv, Unissued
  <2>2. ASSUME NEW x \in Rec, rows[x] # None PROVE rows'[x] = rows[x]
    BY <1>0, <2>1, <2>2 DEF MemoryTypeOK
  <2>3. ASSUME NEW x \in Rec, rows[x] # None PROVE rows[x].links \subseteq rows'[x].links
    BY <2>2, <2>3
  <2> QED BY <2>3 DEF KeepsLinks
<1>4. ASSUME NEW r \in Rec, NEW c \in Content, NeuralStore(r, c) PROVE KeepsLinks
  <2>1. rows[r] = None /\ \E row : Store(r, row) \/ StoreTorn(r, row)
    BY <1>4 DEF NeuralStore, IInv, Unissued
  <2> QED BY <2>1, WriteKeepsLinks
<1>5. CASE PersistLinks
  <2> DEFINE r == job.rec
             row == [rows[r] EXCEPT !.links = job.todo]
  <2>1. r \in Rec /\ rows[r] \in Row /\ rows[r].links = {}
    BY <1>0, <1>5 DEF IInv, JobHasRow, PersistLinks, TypeOK, MemoryTypeOK
  <2>2. Store(r, row) \/ StoreTorn(r, row)
    BY <1>5 DEF PersistLinks
  <2> HIDE DEF row, r
  <2> QED BY <2>1, <2>2, WriteKeepsLinks
<1>6. ASSUME NEW x \in Rec, ReverseLink(x) PROVE KeepsLinks
  <2> DEFINE row == [rows[x] EXCEPT !.links = @ \cup {job.rec}, !.keyed = TRUE]
  <2>1. CASE rows[x] = None
    BY <1>1, <1>6, <2>1 DEF ReverseLink, stores
  <2>2. CASE rows[x] # None
    <3>1. rows[x] \in Row /\ job.rec \in Rec
      BY <1>0, <1>6, <2>2 DEF ReverseLink, Job
    <3>2. rows[x].links \subseteq row.links
      BY <3>1 DEF Row
    <3>3. Store(x, row) \/ StoreTorn(x, row)
      BY <1>6, <2>2 DEF ReverseLink
    <3> HIDE DEF row
    <3> QED BY <3>2, <3>3, WriteKeepsLinks
  <2> QED BY <2>1, <2>2
<1>7. ASSUME NEW q \in Content, Recall(q) PROVE KeepsLinks
  <2>1. \A r \in Rec : RecallKeeps(r) \/ RecallWrites(r)
    BY <1>7, RecallEffect
  <2>2. ASSUME NEW r \in Rec, rows[r] # None, ~ (mode = "chroma" /\ r \in stale)
        PROVE  rows[r].links \subseteq rows'[r].links
    <3>1. CASE RecallKeeps(r)
      BY <3>1 DEF RecallKeeps
    <3>2. CASE RecallWrites(r)
      BY <2>2, <3>2 DEF RecallWrites
    <3> QED BY <2>1, <3>1, <3>2
  <2> QED BY <2>2 DEF KeepsLinks
<1>8. ASSUME NEW q \in Content, RecallRaises(q) PROVE KeepsLinks
  BY <1>1, <1>8 DEF RecallRaises, memoryVars, stores
<1>9. CASE Restart
  BY <1>1, <1>9 DEF Restart, StartProcess
<1> QED BY <1>2, <1>3, <1>4, <1>5, <1>6, <1>7, <1>8, <1>9, NextIsSteps

\* LinksAreKept: a step that drops a link of a memory is a client's PATCH of its
\* metadata, or a recall on ChromaDB whose copy of it is outdated; store(), an
\* update of other columns, a deletion of another memory and a restart never are.
THEOREM LinksStay == Spec => LinksAreKept
<1>1. IInv /\ [Next]_vars => [KeepsLinks]_vars
  BY StepKeepsLinks
<1>2. LinksAreKept <=> [][KeepsLinks]_vars
  BY DEF LinksAreKept, KeepsLinks
<1> QED BY <1>1, <1>2, Invariance, PTL DEF Spec

-----------------------------------------------------------------------------
(* LinksSymmetric is about a store() that has finished; the invariant it     *)
(* needs says what holds while one runs.                                     *)

\* Links, written or still to be written, lead to ids given out.
LinksIssued ==
    /\ \A r \in Rec : rows[r] # None => rows[r].links \subseteq issued
    /\ job.todo \subseteq issued

\* Nothing links to the new memory before its own links are written; what is
\* still to be reversed is among them.
JobLinks ==
    /\ job.own => \A r \in Rec : rows[r] # None => job.rec \notin rows[r].links
    /\ job # NoJob /\ ~ job.own => job.todo \subseteq rows[job.rec].links

\* A link has its reverse, or the running store() has yet to write it.
LinksPaired ==
    \A a, b \in Rec \ (torn \cup altered) :
        rows[a] # None /\ rows[b] # None /\ b \in rows[a].links
            => \/ a \in rows[b].links
               \/ job # NoJob /\ ~ job.own /\ a = job.rec /\ b \in job.todo

LinkInv == LinksIssued /\ JobLinks /\ LinksPaired

-----------------------------------------------------------------------------
\* A row without links for an id nothing links to yet, by the other process or
\* by a store() whose links are still to come.
LEMMA NewRowLinks ==
    ASSUME IInv, LinkInv, NEW r \in Rec, NEW row \in Row,
           r \notin issued, row.links = {}, issued' = issued \cup {r}, torn' = torn,
           altered' = altered, rows' = [rows EXCEPT ![r] = row],
           \/ job' = job
           \/ job = NoJob /\ job'.rec = r /\ job'.own /\ job'.todo \subseteq issued
    PROVE  LinkInv'
<1>1. /\ rows[r] = None /\ row # None
      /\ rows'[r] = row /\ \A x \in Rec : x # r => rows'[x] = rows[x]
  BY MemoryAssumption DEF IInv, TypeOK, MemoryTypeOK, Unissued
<1>2. \A x \in Rec : rows[x] # None => r \notin rows[x].links
  BY DEF LinkInv, LinksIssued
<1>b. job'.todo \subseteq issued
  BY JobFields DEF LinkInv, LinksIssued
<1>3. LinksIssued'
  BY <1>1, <1>b DEF LinkInv, LinksIssued
<1>5. JobLinks'
  <2>1. CASE job' = job
    <3>1. job # NoJob => job.rec \in issued
      BY DEF IInv, JobHasRow
    <3>2. job # NoJob => rows'[job.rec] = rows[job.rec]
      BY <1>1, <3>1 DEF IInv, TypeOK, MemoryTypeOK
    <3>3. job.own => \A x \in Rec : rows'[x] # None => job.rec \notin rows'[x].links
      BY <1>1 DEF LinkInv, JobLinks
    <3> QED BY <2>1, <3>2, <3>3 DEF LinkInv, JobLinks
  <2>2. CASE job'.rec = r /\ job'.own
    BY <1>1, <1>2, <2>2 DEF JobLinks
  <2> QED BY <2>1, <2>2
<1>6. LinksPaired'
  <2> SUFFICES ASSUME NEW a \in Rec \ (torn \cup altered), NEW b \in Rec \ (torn \cup altered),
                      rows'[a] # None, rows'[b] # None, b \in rows'[a].links
               PROVE  \/ a \in rows'[b].links
                      \/ job' # NoJob /\ ~ job'.own /\ a = job'.rec /\ b \in job'.todo
    BY DEF LinksPaired
  <2>1. a # r /\ b # r /\ rows'[a] = rows[a] /\ rows'[b] = rows[b]
    BY <1>1, <1>2
  <2>2. \/ a \in rows[b].links
        \/ job # NoJob /\ ~ job.own /\ a = job.rec /\ b \in job.todo
    BY <2>1 DEF LinkInv, LinksPaired
  <2>3. CASE job' = job
    BY <2>1, <2>2, <2>3
  <2>4. CASE job' # job /\ job = NoJob
    BY <2>1, <2>2, <2>4
  <2> QED BY <2>3, <2>4
<1> QED BY <1>3, <1>5, <1>6 DEF LinkInv

\* No store() runs afterwards, and each row that is left was carried over with
\* its links, was added without links, or is one whose links are not store()'s.
LEMMA CarriedLinks ==
    ASSUME IInv, LinkInv, job' = NoJob, issued \subseteq issued',
           torn \subseteq torn', altered \subseteq altered',
           job # NoJob => job.rec \in torn',
           \A x \in Rec : rows'[x] # None =>
               /\ rows'[x].links \subseteq issued'
               /\ \/ x \in altered'
                  \/ rows[x] # None /\ rows'[x].links = rows[x].links
                  \/ x \notin issued /\ rows'[x].links = {}
    PROVE  LinkInv'
<1>1. LinksIssued'
  BY JobFields DEF LinksIssued
<1>3. JobLinks'
  BY JobFields DEF JobLinks
<1>4. LinksPaired'
  <2> SUFFICES ASSUME NEW a \in Rec \ (torn' \cup altered'), NEW b \in Rec \ (torn' \cup altered'),
                      rows'[a] # None, rows'[b] # None, b \in rows'[a].links
               PROVE  a \in rows'[b].links
    BY DEF LinksPaired
  <2>1. rows[a] # None /\ rows'[a].links = rows[a].links /\ b \in rows[a].links
    OBVIOUS
  <2>2. b \in issued
    BY <2>1 DEF LinkInv, LinksIssued
  <2>3. rows[b] # None /\ rows'[b].links = rows[b].links
    BY <2>2
  <2>4. a \notin torn \cup altered /\ b \notin torn \cup altered
    OBVIOUS
  <2>5. a \in rows[b].links
    BY <2>1, <2>3, <2>4 DEF LinkInv, LinksPaired
  <2> QED BY <2>3, <2>5
<1> QED BY <1>1, <1>3, <1>4 DEF LinkInv

\* The operations of the manager.
LEMMA ManagerLinkStep == ASSUME IInv, LinkInv, Manager PROVE LinkInv'
<1>1. job = NoJob /\ MemoryNext /\ UNCHANGED <<job, torn, recallFailed>>
  BY DEF Manager
<1>2. PICK r \in Rec, row \in Row \cup {None} : ManagerWrites(r, row)
  BY <1>1, ManagerIsWrite
<1>3. /\ rows' = [rows EXCEPT ![r] = row]
      /\ issued \subseteq issued' /\ altered \subseteq altered'
  BY <1>2 DEF ManagerWrites, Store, StoreTorn
<1>4. rows'[r] = row /\ \A x \in Rec : x # r => rows'[x] = rows[x]
  BY <1>3 DEF IInv, TypeOK, MemoryTypeOK
<1>5. \A x \in Rec : rows[x] # None => rows[x].links \subseteq issued
  BY DEF LinkInv, LinksIssued
<1>6. ASSUME NEW x \in Rec, rows'[x] # None
      PROVE  /\ rows'[x].links \subseteq issued'
             /\ \/ x \in altered'
                \/ rows[x] # None /\ rows'[x].links = rows[x].links
                \/ x \notin issued /\ rows'[x].links = {}
  <2>1. CASE x # r
    BY <1>3, <1>4, <1>5, <1>6, <2>1
  <2>2. CASE x = r
    <3>1. row # None
      BY <1>4, <1>6, <2>2
    <3>2. row.links \subseteq issued'
      BY <1>2, <1>3, <1>5, <3>1 DEF ManagerWrites
    <3>3. \/ r \in altered'
          \/ rows[r] # None /\ row.links = rows[r].links
          \/ r \notin issued /\ row.links = {}
      BY <1>2, <3>1 DEF ManagerWrites
    <3> QED BY <1>4, <2>2, <3>2, <3>3
  <2> QED BY <2>1, <2>2
<1> QED BY <1>1, <1>3, <1>6, CarriedLinks

\* A save of the other process.
LEMMA CliLinkStep == ASSUME IInv, LinkInv, Cli PROVE LinkInv'
<1> PICK r \in Rec, c \in Content : CliRemember(r, c) /\ UNCHANGED <<job, torn, recallFailed>>
  BY DEF Cli
<1>1. NewRow(c, FALSE, FALSE) \in Row /\ NewRow(c, FALSE, FALSE).links = {}
  BY SentRows
<1>2. /\ r \notin issued /\ issued' = issued \cup {r} /\ altered' = altered
      /\ rows' = [rows EXCEPT ![r] = NewRow(c, FALSE, FALSE)]
  BY DEF CliRemember
<1> QED BY <1>1, <1>2, NewRowLinks

\* store() of a new memory: what it will link to is in a store already.
LEMMA StoreLinkStep ==
    ASSUME IInv, LinkInv, NEW r \in Rec, NEW c \in Content, NeuralStore(r, c)
    PROVE  LinkInv'
<1> DEFINE row == NewRow(c, TRUE, TRUE)
           found == SearchMemory(c, TRUE)
           related == {x \in DOMAIN found : found[x].content = c}
<1>1. row \in Row /\ row.links = {}
  BY SentRows
<1>2. /\ MemoryTypeOK /\ job = NoJob
      /\ r \notin issued /\ issued' = issued \cup {r} /\ torn' = torn /\ altered' = altered
      /\ Store(r, row) \/ StoreTorn(r, row)
      /\ job' \in {NoJob, [rec |-> r, own |-> TRUE, todo |-> related]}
  BY DEF NeuralStore, IInv, TypeOK
<1>3. related \subseteq issued
  <2> SUFFICES ASSUME NEW x \in DOMAIN found PROVE x \in issued
    OBVIOUS
  <2>1. x \in Rec /\ found[x] # None /\ (found[x] = rows[x] \/ x \in IndexHits(c))
    BY <1>2, SearchRows
  <2> HIDE DEF found
  <2>2. rows[x] # None \/ chroma[x] # None \/ list[x] # None
    BY <2>1 DEF IndexHits
  <2>3. list[x] \in {None, rows[x]}
    BY <2>1 DEF IInv, IndexAgrees
  <2> QED BY <2>1, <2>2, <2>3 DEF IInv, Unissued
<1> HIDE DEF row, related
<1>4. \/ job' = job
      \/ job = NoJob /\ job'.rec = r /\ job'.own /\ job'.todo \subseteq issued
  BY <1>2, <1>3
<1>5. rows' = [rows EXCEPT ![r] = row]
  BY <1>2 DEF Store, StoreTorn
<1> QED BY <1>1, <1>2, <1>4, <1>5, NewRowLinks

\* The links of the new memory are written: each still lacks its reverse.
LEMMA PersistLinkStep == ASSUME IInv, LinkInv, PersistLinks PROVE LinkInv'
<1> DEFINE r == job.rec
           row == [rows[r] EXCEPT !.links = job.todo]
<1>0. MemoryTypeOK /\ job \in Job /\ job.own
  BY DEF PersistLinks, IInv, TypeOK
<1>1. r \in Rec /\ r # None /\ r \in issued /\ rows[r] \in Row /\ rows[r] # None
  BY <1>0, MemoryAssumption DEF MemoryTypeOK, IInv, Job, JobHasRow
<1>2. row \in Row /\ row.links = job.todo /\ job.todo \subseteq issued
  BY <1>0, <1>1 DEF Row, Job, LinkInv, LinksIssued
<1>3. /\ Store(r, row) \/ StoreTorn(r, row)
      /\ \/ job' = [job EXCEPT !.own = FALSE] /\ torn' = torn
         \/ job' = NoJob /\ torn' = torn \cup {r}
      /\ issued' = issued /\ altered' = altered
  BY DEF PersistLinks, Abandon
<1> HIDE DEF row
<1>4. rows'[r] = row /\ \A x \in Rec : x # r => rows'[x] = rows[x]
  BY <1>0, <1>1, <1>3 DEF Store, StoreTorn, MemoryTypeOK
<1>5. /\ job'.todo \in {{}, job.todo} /\ ~ job'.own
      /\ job' # NoJob => job'.rec = r /\ job'.todo = job.todo /\ torn' = torn
      /\ job' = NoJob => r \in torn'
      /\ torn \subseteq torn'
  <2>1. CASE job' = [job EXCEPT !.own = FALSE] /\ torn' = torn
    <3>1. job'.rec = r /\ ~ job'.own /\ job'.todo = job.todo
      BY <1>0, <2>1, JobFields
    <3>2. job' # NoJob
      BY <1>1, <3>1, JobFields
    <3> QED BY <2>1, <3>1, <3>2
  <2>2. CASE job' = NoJob /\ torn' = torn \cup {r}
    BY <2>2, JobFields
  <2> QED BY <1>3, <2>1, <2>2
<1>6. LinksIssued'
  BY <1>2, <1>3, <1>4, <1>5 DEF LinkInv, LinksIssued
<1>7. JobLinks'
  BY <1>2, <1>4, <1>5 DEF JobLinks
<1>8. LinksPaired'
  <2> SUFFICES ASSUME NEW a \in Rec \ (torn' \cup altered), NEW b \in Rec \ (torn' \cup altered),
                      rows'[a] # None, rows'[b] # None, b \in rows'[a].links
               PROVE  \/ a \in rows'[b].links
                      \/ job' # NoJob /\ ~ job'.own /\ a = job'.rec /\ b \in job'.todo
    BY <1>3 DEF LinksPaired
  <2>1. CASE a = r
    <3>1. b \in job.todo /\ job' # NoJob
      BY <1>2, <1>4, <1>5, <2>1
    <3> QED BY <1>5, <2>1, <3>1
  <2>2. CASE a # r
    <3>1. rows'[a] = rows[a] /\ a \notin torn \cup altered /\ b \notin torn \cup altered
      BY <1>4, <1>5, <2>2
    <3>2. b # r
      BY <1>0, <3>1 DEF LinkInv, JobLinks
    <3>3. a \in rows[b].links
      BY <1>0, <1>4, <3>1, <3>2 DEF LinkInv, LinksPaired
    <3> QED BY <1>4, <3>2, <3>3
  <2> QED BY <2>1, <2>2
<1> QED BY <1>6, <1>7, <1>8 DEF LinkInv

\* A reverse link is written, or its target is gone.
LEMMA ReverseLinkStep == ASSUME IInv, LinkInv, NEW x \in Rec, ReverseLink(x) PROVE LinkInv'
<1> DEFINE r == job.rec
           row == [rows[x] EXCEPT !.links = @ \cup {r}, !.keyed = TRUE]
           rest == IF job.todo = {x} THEN NoJob ELSE [job EXCEPT !.todo = @ \ {x}]
           own == torn \cup altered
<1>0. /\ MemoryTypeOK /\ job \in Job
      /\ r \in Rec /\ job # NoJob /\ ~ job.own /\ x \in job.todo
      /\ issued' = issued /\ altered' = altered
  BY JobFields DEF ReverseLink, IInv, TypeOK, Job
<1>1. r \in issued /\ rows[r] # None /\ job.todo \subseteq rows[r].links
  BY <1>0 DEF IInv, JobHasRow, LinkInv, JobLinks
<1>2. /\ rest.todo = job.todo \ {x} /\ ~ rest.own
      /\ rest # NoJob => rest.rec = r
      /\ rest = NoJob => job.todo = {x}
  <2>1. CASE job.todo = {x}
    BY <2>1, JobFields
  <2>2. CASE job.todo # {x}
    <3>1. rest = [job EXCEPT !.todo = @ \ {x}]
      BY <2>2
    <3>2. rest.todo = job.todo \ {x} /\ rest.own = job.own /\ rest.rec = r
      BY <1>0, <3>1, JobFields
    <3>3. rest # NoJob
      BY <1>0, <3>2, JobFields, MemoryAssumption
    <3> QED BY <1>0, <3>2, <3>3
  <2> QED BY <2>1, <2>2
<1>3. CASE rows[x] = None
  <2>1. job' = rest /\ UNCHANGED <<rows, issued, altered, torn>>
    BY <1>3 DEF ReverseLink, stores
  <2> HIDE DEF rest
  <2>2. LinksIssued'
    BY <1>2, <2>1 DEF LinkInv, LinksIssued
  <2>3. JobLinks'
    BY <1>1, <1>2, <2>1 DEF JobLinks
  <2>4. LinksPaired'
    <3> SUFFICES ASSUME NEW a \in Rec \ own, NEW b \in Rec \ own,
                        rows[a] # None, rows[b] # None, b \in rows[a].links
                 PROVE  \/ a \in rows[b].links
                        \/ rest # NoJob /\ ~ rest.own /\ a = rest.rec /\ b \in rest.todo
      BY <2>1 DEF LinksPaired
    <3>1. a \in rows[b].links \/ (a = r /\ b \in job.todo)
      BY DEF LinkInv, LinksPaired
    <3> QED BY <1>2, <1>3, <3>1
  <2> QED BY <2>2, <2>3, <2>4 DEF LinkInv
<1>4. CASE rows[x] # None
  <2>1. rows[x] \in Row
    BY <1>0, <1>4 DEF MemoryTypeOK
  <2>a. row \in Row /\ row.links = rows[x].links \cup {r}
    BY <1>0, <2>1 DEF Row
  <2>2. row \in Row /\ row.links = rows[x].links \cup {r} /\ row # None
    BY <2>a, MemoryAssumption
  <2>3. /\ Store(x, row) \/ StoreTorn(x, row)
        /\ \/ job' = rest /\ torn' = torn
           \/ job' = NoJob /\ torn' = torn \cup {r}
    BY <1>4 DEF ReverseLink, Abandon
  <2> HIDE DEF row, rest
  <2>4. rows'[x] = row /\ \A y \in Rec : y # x => rows'[y] = rows[y]
    BY <1>0, <2>3 DEF Store, StoreTorn, MemoryTypeOK
  <2>5. \A y \in Rec : rows'[y] # None =>
          /\ rows[y] # None
          /\ rows[y].links \subseteq rows'[y].links
          /\ rows'[y].links \subseteq rows[y].links \cup {r}
          /\ y # x => rows'[y].links = rows[y].links
    BY <1>4, <2>2, <2>4
  <2>6. LinksIssued'
    <3>1. row.links \subseteq issued
      BY <1>1, <1>4, <2>2 DEF LinkInv, LinksIssued
    <3>2. job'.todo \subseteq issued
      BY <1>2, <2>3, JobFields DEF LinkInv, LinksIssued
    <3> QED BY <1>0, <2>4, <3>1, <3>2 DEF LinkInv, LinksIssued
  <2>7. JobLinks'
    <3>1. ~ job'.own
      BY <1>2, <2>3, JobFields
    <3>2. CASE job' = rest
      <4>1. rows'[r] # None /\ rows[r].links \subseteq rows'[r].links
        BY <1>0, <1>1, <2>2, <2>4, <2>5
      <4> QED BY <1>1, <1>2, <3>1, <3>2, <4>1 DEF JobLinks
    <3>3. CASE job' = NoJob
      BY <3>1, <3>3 DEF JobLinks
    <3> QED BY <2>3, <3>2, <3>3
  <2>8. LinksPaired'
    <3> SUFFICES ASSUME NEW a \in Rec \ (torn' \cup altered), NEW b \in Rec \ (torn' \cup altered),
                        rows'[a] # None, rows'[b] # None, b \in rows'[a].links
                 PROVE  \/ a \in rows'[b].links
                        \/ job' # NoJob /\ ~ job'.own /\ a = job'.rec /\ b \in job'.todo
      BY <1>0 DEF LinksPaired
    <3>1. /\ a \notin own /\ b \notin own /\ rows[a] # None /\ rows[b] # None
          /\ rows[b].links \subseteq rows'[b].links
      BY <2>3, <2>5
    <3>2. CASE b \notin rows[a].links
      <4>1. b = r /\ a = x
        BY <2>5, <3>2
      <4>2. x \in rows[r].links
        BY <1>0, <1>1
      <4> QED BY <3>1, <4>1, <4>2
    <3>3. CASE b \in rows[a].links
      <4>1. a \in rows[b].links \/ (a = r /\ b \in job.todo)
        BY <3>1, <3>3 DEF LinkInv, LinksPaired
      <4>2. CASE b = x /\ a = r
        BY <2>2, <2>4, <4>2
      <4>3. CASE a = r /\ b \in job.todo /\ b # x
        <5>1. job' = rest
          BY <2>3, <4>3
        <5> QED BY <1>2, <4>3, <5>1
      <4> QED BY <3>1, <4>1, <4>2, <4>3
    <3> QED BY <3>2, <3>3
  <2> QED BY <2>6, <2>7, <2>8 DEF LinkInv
<1> QED BY <1>3, <1>4

\* A recall keeps the links of a row, or writes an outdated copy without links.
LEMMA RecallLinkStep == ASSUME IInv, LinkInv, NEW q \in Content, Recall(q) PROVE LinkInv'
<1>1. /\ \A r \in Rec : RecallKeeps(r) \/ RecallWrites(r)
      /\ UNCHANGED <<issued, job, torn>> /\ altered \subseteq altered' /\ job = NoJob
  BY RecallEffect DEF Recall
<1>2. ASSUME NEW x \in Rec, rows'[x] # None
      PROVE  /\ rows'[x].links \subseteq issued
             /\ x \in altered' \/ (rows[x] # None /\ rows'[x].links = rows[x].links)
  <2>1. CASE RecallKeeps(x)
    BY <1>2, <2>1 DEF RecallKeeps, LinkInv, LinksIssued
  <2>2. CASE RecallWrites(x)
    BY <2>2 DEF RecallWrites, LinkInv, LinksIssued
  <2> QED BY <1>1, <2>1, <2>2
<1> QED BY <1>1, <1>2, CarriedLinks

\* The process starts again: a store() it was running is cut short.
LEMMA RestartLinkStep == ASSUME IInv, LinkInv, Restart PROVE LinkInv'
<1>1. /\ rows' = rows /\ issued' = issued /\ altered' = altered
      /\ job' = NoJob /\ torn \subseteq torn'
      /\ job # NoJob => job.rec \in torn'
  BY DEF Restart, StartProcess
<1>2. \A x \in Rec : rows[x] # None => rows[x].links \subseteq issued
  BY DEF LinkInv, LinksIssued
<1> QED BY <1>1, <1>2, CarriedLinks

\* Every step keeps the links paired.
LEMMA NextLinkInv == IInv /\ LinkInv /\ [Next]_vars => LinkInv'
<1> SUFFICES ASSUME IInv, LinkInv, [Next]_vars PROVE LinkInv'
  OBVIOUS
<1>1. ASSUME UNCHANGED <<rows, issued, altered, job, torn>> PROVE LinkInv'
  BY <1>1 DEF LinkInv, LinksIssued, JobLinks, LinksPaired
<1>2. CASE UNCHANGED vars
  BY <1>1, <1>2 DEF vars, memoryVars, stores
<1>3. ASSUME NEW q \in Content, RecallRaises(q) PROVE LinkInv'
  BY <1>1, <1>3 DEF RecallRaises, memoryVars, stores
<1>4. CASE Next
  BY <1>3, <1>4, NextIsSteps, ManagerLinkStep, CliLinkStep, StoreLinkStep, PersistLinkStep,
     ReverseLinkStep, RecallLinkStep, RestartLinkStep
<1> QED BY <1>2, <1>4

\* LinksSymmetric: whatever store() calls complete, fail or are cut short by a
\* restart, and whatever is saved, updated, recalled and deleted between them,
\* links run both ways among the memories whose store() was completed and whose
\* links no client's metadata and no outdated copy has replaced.
THEOREM LinksRunBothWays == Spec => []LinksSymmetric
<1>1. Init => LinkInv
  BY DEF Init, MemoryInit, NoJob, LinkInv, LinksIssued, JobLinks, LinksPaired
<1>2. LinkInv => LinksSymmetric
  BY DEF LinkInv, LinksPaired, LinksSymmetric
<1> QED BY <1>1, <1>2, NextLinkInv, Invariance, PTL DEF Spec
================================================================================
