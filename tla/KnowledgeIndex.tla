--------------------------- MODULE KnowledgeIndex ---------------------------
(***************************************************************************)
(* The local documentation index: knowledge/lanceStore.ts and the three    *)
(* operations of knowledge/teamviewerDocs.ts that write to it.  A question *)
(* answered just in time appends what it fetched, un-awaited (enrich);     *)
(* `docs refresh` appends the pages it does not know; `docs reindex`       *)
(* replaces everything.  They run in any number of processes and, in a     *)
(* REPL, side by side in one; every await lets the others in.              *)
(*                                                                         *)
(* LanceDB is outside src/.  As the code uses it: a commit (createTable,   *)
(* add) is atomic, a query sees the table as it was opened, and an append  *)
(* to a table that was overwritten since it was opened may be refused.     *)
(* A page stands for all its chunks: they are fetched, embedded and        *)
(* committed together, under ids that only depend on the page and on who   *)
(* fetched it ("jit-<sha1>#i" or "kb-<sha1>#i").                           *)
(***************************************************************************)
EXTENDS Integers, FiniteSets

CONSTANTS
  Page,        (* the pages of the knowledge base                          *)
  Enrich,      (* runs of enrichLocalIndex                                 *)
  Refresh,     (* runs of refreshIndex                                     *)
  Reindex,     (* runs of reindexOfficialDocs                              *)
  Legacy,      (* the ids in a rag-index.json of an older version          *)
  Initial      (* the ids in the table at first, if there is a table       *)

Op == Enrich \cup Refresh \cup Reindex
Id == {"jit", "kb"} \X Page
Kb(P) == {"kb"} \X P
Jit(P) == {"jit"} \X P

ASSUME IndexAssumption ==
  /\ Enrich \cap Refresh = {} /\ Enrich \cap Reindex = {} /\ Refresh \cap Reindex = {}
  /\ Legacy \subseteq Id /\ Initial \subseteq Id

VARIABLES
  built,      (* the table exists                                          *)
  rows,       (* rows[i]: how many rows (chunk sets) have id i             *)
  epoch,      (* how often the table was overwritten                       *)
  stamp,      (* who wrote lance-meta.json last; "nobody" at first         *)
  pc,         (* where each run is                                         *)
  purpose,    (* "scan" while refresh asks for the known pages, else "add" *)
  incoming,   (* incoming[o]: the ids o wants to store                     *)
  handle,     (* handle[o]: the epoch of the table o has open              *)
  collided,   (* history: a run wrote while another was about to append     *)
              (* what it had found missing before                          *)
  blind       (* history: some run was told that there is no table         *)

vars == <<built, rows, epoch, stamp, pc, purpose, incoming, handle, collided, blind>>

Present == { i \in Id : rows[i] > 0 }
InFlight == {"names", "migrate", "open", "fetch", "create", "add", "stamp"}

Exactly(I) == [i \in Id |-> IF i \in I THEN 1 ELSE 0]

Init ==
  /\ \/ built = TRUE /\ rows = Exactly(Initial)
     \/ built = FALSE /\ rows = Exactly({})
  /\ epoch = 0
  /\ stamp = "nobody"
  /\ pc = [o \in Op |-> "idle"]
  /\ purpose = [o \in Op |-> "add"]
  /\ incoming = [o \in Op |-> {}]
  /\ handle = [o \in Op |-> 0]
  /\ collided = FALSE
  /\ blind = FALSE

Goto(o, from, to) ==
  /\ pc[o] = from
  /\ pc' = [pc EXCEPT ![o] = to]
-----------------------------------------------------------------------------
(***************************************************************************)
(* The callers                                                             *)
(***************************************************************************)
\* retrieveJustInTime has fetched and embedded some pages, and does not wait.
StartEnrich(o) ==
  /\ o \in Enrich
  /\ Goto(o, "idle", "names")
  /\ \E P \in (SUBSET Page) \ {{}} : incoming' = [incoming EXCEPT ![o] = Jit(P)]
  /\ UNCHANGED <<built, rows, epoch, stamp, purpose, handle, collided, blind>>

\* refreshIndex begins with existingDocIds.
StartRefresh(o) ==
  /\ o \in Refresh
  /\ Goto(o, "idle", "names")
  /\ purpose' = [purpose EXCEPT ![o] = "scan"]
  /\ UNCHANGED <<built, rows, epoch, stamp, incoming, handle, collided, blind>>

\* reindexOfficialDocs begins with the crawl.
StartReindex(o) ==
  /\ o \in Reindex
  /\ Goto(o, "idle", "fetch")
  /\ incoming' = [incoming EXCEPT ![o] = Kb(Page)]
  /\ UNCHANGED <<built, rows, epoch, stamp, purpose, handle, collided, blind>>

\* Fetching and embedding: some of the wanted pages arrive.  None (or the
\* embedder failing) ends the run before it touches the table.
FetchPages(o) ==
  /\ \E I \in SUBSET incoming[o] :
       IF I = {}
       THEN Goto(o, "fetch", "done") /\ UNCHANGED <<purpose, incoming>>
       ELSE /\ Goto(o, "fetch", IF o \in Reindex THEN "create" ELSE "names")
            /\ purpose' = [purpose EXCEPT ![o] = "add"]
            /\ incoming' = [incoming EXCEPT ![o] = I]
  /\ UNCHANGED <<built, rows, epoch, stamp, handle, collided, blind>>
-----------------------------------------------------------------------------
(***************************************************************************)
(* openTable, with ensureMigrated                                          *)
(***************************************************************************)
\* What a run does when openTable returned null: to existingDocIds it means no
\* page is known, to addChunks that there is no core table yet.
NoTable(o, from) ==
  /\ blind' = TRUE
  /\ IF purpose[o] = "scan"
     THEN Goto(o, from, "fetch") /\ incoming' = [incoming EXCEPT ![o] = Kb(Page)]
     ELSE Goto(o, from, "create") /\ UNCHANGED incoming

TableNames(o) ==
  /\ \/ built /\ Goto(o, "names", "open") /\ UNCHANGED <<incoming, blind>>
     \/ ~built /\ Legacy # {} /\ Goto(o, "names", "migrate") /\ blind' = TRUE /\ UNCHANGED incoming
     \/ ~built /\ Legacy = {} /\ NoTable(o, "names")
  /\ UNCHANGED <<built, rows, epoch, stamp, purpose, handle, collided>>

\* The history of a write by o: whoever is about to append has not seen it.
Writes(o) == collided' = (collided \/ \E q \in Op \ {o} : pc[q] = "add")

\* createTable of the legacy rows, in mode overwrite, and their meta.
MigrateLegacy(o) ==
  /\ Goto(o, "migrate", "open")
  /\ built' = TRUE
  /\ rows' = Exactly(Legacy)
  /\ epoch' = epoch + 1
  /\ stamp' = o
  /\ Writes(o)
  /\ UNCHANGED <<purpose, incoming, handle, blind>>

\* openTable throws somewhere; the catch turns that into null as well.
OpenThrows(o) ==
  /\ NoTable(o, "names") \/ NoTable(o, "open")
  /\ UNCHANGED <<built, rows, epoch, stamp, purpose, handle, collided>>
-----------------------------------------------------------------------------
\* Mutant of OpenTable: addChunks forgets to filter.
OpenUnfiltered(o) ==
  /\ handle' = [handle EXCEPT ![o] = epoch]
  /\ IF purpose[o] = "scan"
     THEN /\ Goto(o, "open", "fetch")
          /\ incoming' = [incoming EXCEPT ![o] = Kb(Page) \ Present]
     ELSE Goto(o, "open", "add") /\ UNCHANGED incoming
  /\ UNCHANGED <<built, rows, epoch, stamp, purpose, collided, blind>>

\* openTable and the query for the ids.  refreshIndex keeps the pages whose docId
\* is not among them, addChunks the rows whose id is not; nothing left is the end.
OpenTable(o) ==
  /\ handle' = [handle EXCEPT ![o] = epoch]
  /\ LET fresh == (IF purpose[o] = "scan" THEN Kb(Page) ELSE incoming[o]) \ Present IN
     IF fresh = {}
     THEN Goto(o, "open", "done") /\ UNCHANGED incoming
     ELSE /\ Goto(o, "open", IF purpose[o] = "scan" THEN "fetch" ELSE "add")
          /\ incoming' = [incoming EXCEPT ![o] = fresh]
  /\ UNCHANGED <<built, rows, epoch, stamp, purpose, collided, blind>>

\* Mutant of AddRows: the rows are written with createTable.
AddAsOverwrite(o) ==
  /\ Goto(o, "add", "stamp")
  /\ rows' = Exactly(incoming[o])
  /\ epoch' = epoch + 1
  /\ Writes(o)
  /\ UNCHANGED <<built, stamp, purpose, incoming, handle, blind>>

\* tbl.add.
AddRows(o) ==
  /\ Goto(o, "add", "stamp")
  /\ rows' = [i \in Id |-> IF i \in incoming[o] THEN rows[i] + 1 ELSE rows[i]]
  /\ Writes(o)
  /\ UNCHANGED <<built, epoch, stamp, purpose, incoming, handle, blind>>

\* tbl.add throws: the table was overwritten since it was opened.
AddConflicts(o) ==
  /\ handle[o] # epoch
  /\ Goto(o, "add", "done")
  /\ UNCHANGED <<built, rows, epoch, stamp, purpose, incoming, handle, collided, blind>>

\* createTable in mode overwrite, of replaceAllChunks and of addChunks.
CreateTable(o) ==
  /\ Goto(o, "create", "stamp")
  /\ built' = TRUE
  /\ rows' = Exactly(incoming[o])
  /\ epoch' = epoch + 1
  /\ Writes(o)
  /\ UNCHANGED <<stamp, purpose, incoming, handle, blind>>

\* writeMeta.
WriteMeta(o) ==
  /\ Goto(o, "stamp", "done")
  /\ stamp' = o
  /\ UNCHANGED <<built, rows, epoch, purpose, incoming, handle, collided, blind>>

\* The process is killed: what it has committed stays.
Crash(o) ==
  /\ pc[o] \in InFlight
  /\ pc' = [pc EXCEPT ![o] = "dead"]
  /\ UNCHANGED <<built, rows, epoch, stamp, purpose, incoming, handle, collided, blind>>

Step(o) ==
  \/ FetchPages(o) \/ TableNames(o) \/ MigrateLegacy(o) \/ OpenThrows(o) \/ OpenTable(o)
  \/ AddRows(o) \/ AddConflicts(o) \/ CreateTable(o) \/ WriteMeta(o)

Next ==
  \E o \in Op :
    StartEnrich(o) \/ StartRefresh(o) \/ StartReindex(o) \/ Step(o) \/ Crash(o)

Spec == Init /\ [][Next]_vars
-----------------------------------------------------------------------------
(***************************************************************************)
(* Properties                                                              *)
(***************************************************************************)
\* Types of the table and of every run.
TypeOK ==
  /\ built \in BOOLEAN
  /\ rows \in [Id -> Nat]
  /\ epoch \in Nat
  /\ stamp \in Op \cup {"nobody"}
  /\ pc \in [Op -> {"idle", "done", "dead"} \cup InFlight]
  /\ purpose \in [Op -> {"scan", "add"}]
  /\ incoming \in [Op -> SUBSET Id]
  /\ handle \in [Op -> Nat]
  /\ collided \in BOOLEAN /\ blind \in BOOLEAN

\* No chunk is stored twice: addChunks filters by id, as the comment of
\* enrichLocalIndex says (teamviewerDocs.ts 644).  It holds for runs side by side,
\* killed anywhere or failing to open the table, and however old the scan of a refresh
\* is when it appends: until a run writes between another's filter and its append.
Deduped == ~collided => \A i \in Id : rows[i] <= 1

Replaces(o) == o \in Reindex /\ pc[o] = "create" /\ pc'[o] = "stamp"

\* Appending removes nothing: rows disappear only when `docs reindex` replaces the
\* table.  It holds whoever runs at once, until some run is told that there is no
\* table.
NothingWiped ==
  [][~blind => \A i \in Present : rows'[i] = 0 => \E o \in Op : Replaces(o)]_vars

\* The same without the precondition: what addChunks says of itself ("Incrementally
\* append", lanceStore.ts 182) and README.md 110 of `docs refresh`.
Incremental ==
  [][\A i \in Present : rows'[i] = 0 => \E o \in Op : Replaces(o)]_vars
-----------------------------------------------------------------------------
(***************************************************************************)
(* The inductive invariants behind the theorems of KnowledgeIndexProofs.   *)
(***************************************************************************)
\* Only `docs reindex` creates a table, until somebody is told there is none.
CoreInv ==
  ~blind => \A o \in Op : pc[o] # "migrate" /\ (pc[o] = "create" => o \in Reindex)

\* Until writes collide, what a run is about to append is not stored.
FreshInv ==
  ~collided =>
    /\ \A i \in Id : rows[i] <= 1
    /\ \A o \in Op : pc[o] = "add" => incoming[o] \cap Present = {}

IndexInv == CoreInv /\ FreshInv
=============================================================================
