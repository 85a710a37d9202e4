------------------------------ MODULE MemoryStore ------------------------------
(***************************************************************************)
(* The memory manager: a SQLite table, the source of truth, and a search   *)
(* index beside it (saturnix_harness/memory/manager.py).                   *)
(*                                                                         *)
(* Every change is written to SQLite first and to the index second; there  *)
(* is no transaction over both.  Every process chooses its index when it   *)
(* starts: ChromaDB, persistent, or a list of its own when ChromaDB is     *)
(* disabled or raises.  So one SQLite file meets both kinds over its life, *)
(* and what is written on the list never reaches ChromaDB.  The manager's  *)
(* code is synchronous, so within the API process an operation is one      *)
(* step; a command-line process may save records into the same files.      *)
(***************************************************************************)
EXTENDS Naturals

CONSTANTS
    Rec,        \* record ids; each is issued at most once (uuid4)
    Content,    \* contents, equal when they share words; a query is a content
    None,       \* "no record"
    ClientSends, \* bound: the rows that a client sends
    MaxFaults,  \* bound: failed index writes and cut recalls in one behaviour
    MaxStarts   \* bound: restarts of the API process in one behaviour

(* A stored record: its content; it carries the neural_memory tag; its metadata
   has neural_links; those links. *)
Row == [content : Content, tag : BOOLEAN, keyed : BOOLEAN, links : SUBSET Rec]

ASSUME MemoryAssumption ==
    /\ None \notin Row
    /\ None \notin Rec
    /\ ClientSends \subseteq Row
    /\ \A row \in ClientSends : row.links # {} => row.keyed
    /\ MaxFaults \in Nat /\ MaxStarts \in Nat

VARIABLES
    mode,       \* which index the running API process built
    rows,       \* the SQLite table
    chroma,     \* ChromaDB's collection, which outlives the processes
    list,       \* the list of the running API process
    issued,     \* history: ids given out
    gone,       \* history: <<id, mode>> of the deletions acknowledged
    stale,      \* history: ids whose latest write did not reach ChromaDB
    altered,    \* history: ids whose links something other than store() set
    faults,     \* history: failed writes so far
    starts      \* history: restarts so far

stores == <<rows, chroma, list, stale, faults>>
memoryVars == <<stores, mode, issued, gone, altered, starts>>

Mode == {"chroma", "memory"}

MemoryTypeOK ==
    /\ mode \in Mode
    /\ rows \in [Rec -> Row \cup {None}]
    /\ chroma \in [Rec -> Row \cup {None}]
    /\ list \in [Rec -> Row \cup {None}]
    /\ issued \subseteq Rec
    /\ gone \subseteq Rec \X Mode
    /\ stale \subseteq Rec
    /\ altered \subseteq Rec
    /\ faults \in Nat
    /\ starts \in Nat

MemoryInit ==
    /\ mode \in Mode
    /\ rows = [r \in Rec |-> None]
    /\ chroma = [r \in Rec |-> None]
    /\ list = [r \in Rec |-> None]
    /\ issued = {}
    /\ gone = {}
    /\ stale = {}
    /\ altered = {}
    /\ faults = 0
    /\ starts = 0

-----------------------------------------------------------------------------
(* The two writes of save_memory, update_memory and delete_memory. *)

\* Mutant: the document is not written, only its metadata.
ChromaCopyBare(row, old) ==
    IF row = None THEN None
    ELSE [row EXCEPT !.content = None, !.links = {},
                     !.keyed = @ \/ (old # None /\ old.keyed)]

\* ChromaVectorStore.add keeps str(value) of each metadata value, so of the
\* links only the key is left; an upsert merges the metadata into the entry's.
ChromaCopy(row, old) ==
    IF row = None THEN None
    ELSE [row EXCEPT !.links = {}, !.keyed = @ \/ (old # None /\ old.keyed)]

\* Mutant: the manager returns after the SQLite write.
StoreRowOnly(r, row) ==
    /\ rows' = [rows EXCEPT ![r] = row]
    /\ UNCHANGED <<chroma, list, stale, faults>>

\* Both writes succeed.  row = None deletes.
Store(r, row) ==
    /\ rows' = [rows EXCEPT ![r] = row]
    /\ \/ /\ mode = "chroma"
          /\ chroma' = [chroma EXCEPT ![r] = ChromaCopy(row, @)]
          /\ stale' = stale \ {r}
          /\ UNCHANGED list
       \/ /\ mode = "memory"
          /\ list' = [list EXCEPT ![r] = row]
          /\ stale' = stale \cup {r}
          /\ UNCHANGED chroma
    /\ UNCHANGED faults

\* SQLite has committed, then ChromaDB raises or the process dies: the caller
\* sees an error.
StoreTorn(r, row) ==
    /\ mode = "chroma"
    /\ faults < MaxFaults
    /\ faults' = faults + 1
    /\ rows' = [rows EXCEPT ![r] = row]
    /\ stale' = stale \cup {r}
    /\ UNCHANGED <<chroma, list>>

NewRow(c, tagged, hasLinks) ==
    [content |-> c, tag |-> tagged, keyed |-> hasLinks, links |-> {}]

\* What a client may send now: its metadata names links to ids given out only.
ClientRows == {row \in ClientSends : row.links \subseteq issued}

-----------------------------------------------------------------------------
(* search_memory: hits of the index if any survives the filter, else SQLite. *)

\* ChromaDB returns the nearest records whatever their distance; the list
\* returns those that share a word with the query.
IndexHits(q) ==
    IF mode = "chroma" THEN {r \in Rec : chroma[r] # None}
    ELSE {r \in Rec : list[r] # None /\ list[r].content = q}

RowHits(q) == {r \in Rec : rows[r] # None /\ rows[r].content = q}

Entry(r) == IF mode = "chroma" THEN chroma[r] ELSE list[r]

SearchMemory(q, tagged) ==
    LET hits == {r \in IndexHits(q) : tagged => Entry(r).tag}
    IN  IF hits # {} THEN [r \in hits |-> Entry(r)]
        ELSE [r \in {s \in RowHits(q) : tagged => rows[s].tag} |-> rows[r]]

-----------------------------------------------------------------------------
(* Operations. *)

\* POST: the client chooses tags and metadata.
SaveMemory(r, row) ==
    /\ r \notin issued
    /\ Store(r, row) \/ StoreTorn(r, row)
    /\ issued' = issued \cup {r}
    /\ altered' = IF row.links = {} THEN altered ELSE altered \cup {r}
    /\ UNCHANGED <<mode, gone, starts>>

\* NeuralMemoryEngine.compress: a tagged summary without links.
Compress(r, c) ==
    /\ r \notin issued
    /\ Store(r, NewRow(c, TRUE, FALSE)) \/ StoreTorn(r, NewRow(c, TRUE, FALSE))
    /\ issued' = issued \cup {r}
    /\ UNCHANGED <<mode, gone, altered, starts>>

\* PATCH of any columns; metadata is replaced as a whole, and with it the
\* links.  An unknown id is answered without a write.
UpdateMemory(r, row) ==
    /\ rows[r] # None
    /\ row # rows[r]
    /\ Store(r, row) \/ StoreTorn(r, row)
    /\ altered' = IF row.links = rows[r].links THEN altered ELSE altered \cup {r}
    /\ UNCHANGED <<mode, issued, gone, starts>>

\* A PATCH without metadata keeps the links.
UpdatedRows(r) ==
    ClientRows \cup
    {[row EXCEPT !.keyed = rows[r].keyed, !.links = rows[r].links] : row \in ClientSends}

\* Mutant: the index is cleaned only when SQLite had the row.
DeleteMemoryOnce(r) ==
    /\ r \in issued
    /\ \/ rows[r] # None /\ Store(r, None) /\ gone' = gone \cup {<<r, mode>>}
       \/ rows[r] # None /\ StoreTorn(r, None) /\ UNCHANGED gone
       \/ rows[r] = None /\ gone' = gone \cup {<<r, mode>>} /\ UNCHANGED stores
    /\ UNCHANGED <<mode, issued, altered, starts>>

\* Both deletions run whether or not the row was there, so a retry heals.
DeleteMemory(r) ==
    /\ r \in issued
    /\ \/ Store(r, None) /\ gone' = gone \cup {<<r, mode>>}
       \/ StoreTorn(r, None) /\ UNCHANGED gone
    /\ UNCHANGED <<mode, issued, altered, starts>>

\* `saturnix remember` in another process, with a list of its own or ChromaDB.
CliRemember(r, c) ==
    /\ r \notin issued
    /\ LET row == NewRow(c, FALSE, FALSE) IN
         /\ rows' = [rows EXCEPT ![r] = row]
         /\ \/ chroma' = [chroma EXCEPT ![r] = ChromaCopy(row, @)] /\ UNCHANGED stale
            \/ stale' = stale \cup {r} /\ UNCHANGED chroma
    /\ issued' = issued \cup {r}
    /\ UNCHANGED <<mode, list, gone, altered, faults, starts>>

\* The API process starts again and chooses its index anew.
StartProcess ==
    /\ mode' \in Mode
    /\ list' = [r \in Rec |-> None]
    /\ starts < MaxStarts
    /\ starts' = starts + 1
    /\ UNCHANGED <<rows, chroma, issued, gone, stale, altered, faults>>

MemoryNext ==
    \/ \E r \in Rec, row \in ClientRows : SaveMemory(r, row)
    \/ \E r \in Rec, c \in Content : Compress(r, c)
    \/ \E r \in Rec : rows[r] # None /\ \E row \in UpdatedRows(r) : UpdateMemory(r, row)
    \/ \E r \in Rec : DeleteMemory(r)

-----------------------------------------------------------------------------
(* Properties *)

\* A copy in ChromaDB: the document and the tags of the row, and its
\* neural_links if the row has them.
Agrees(copy, row) ==
    IF row = None THEN copy = None
    ELSE /\ copy # None
         /\ copy.content = row.content
         /\ copy.tag = row.tag
         /\ row.keyed => copy.keyed

\* ChromaDB agrees with SQLite on every record whose latest write reached it,
\* whichever processes wrote, on either index, and however they ended; and the
\* list of the running process holds no record that differs from its row.
IndexAgrees ==
    \A r \in Rec :
        /\ r \notin stale => Agrees(chroma[r], rows[r])
        /\ list[r] \in {None, rows[r]}

\* A deletion acknowledged on ChromaDB is never undone, by no later write,
\* recall or failure and on neither index; one acknowledged on the list holds
\* for every process that runs on a list.
DeletedIsUnfindable ==
    \A d \in gone : d[2] = "chroma" \/ mode = "memory" =>
        \A q \in Content, tagged \in BOOLEAN : d[1] \notin DOMAIN SearchMemory(q, tagged)
================================================================================
