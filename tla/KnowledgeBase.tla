--------------------------- MODULE KnowledgeBase ---------------------------
(***************************************************************************)
(* The documents of the organizations, kept as rows in Postgres and as     *)
(* vectors in Qdrant without a transaction over both: upload and delete    *)
(* (pkg/api/vector.go), the seeds of a starting server and the exceptions  *)
(* of the administrators (pkg/vector/guard.go).  Each call to a store is a *)
(* step; a process that takes no more steps is one whose server died.      *)
(***************************************************************************)
EXTENDS Integers

CONSTANTS
    Procs,      \* handlers and starting servers
    Orgs,       \* organizations
    Names,      \* file names
    Lengths,    \* lengths of documents, in runes
    ChunkSize,
    ChunkOverlap,
    Topics,     \* how many allowed topics a server seeds
    Failures    \* what may happen to a call: "refused", or "lost" when done

ASSUME KnowledgeBaseAssumption ==
    /\ Lengths \subseteq Nat \ {0} /\ Topics \in Nat \ {0}
    /\ ChunkOverlap \in Nat /\ ChunkSize \in Nat /\ ChunkOverlap < ChunkSize
    /\ Failures \subseteq {"refused", "lost"}

VARIABLES
    pc,          \* what each process does next
    job,         \* what it was asked for
    ensured,     \* how often it has ensured its collection
    collections, \* the collections of Qdrant
    points,      \* their points
    rows,        \* the table documents; a row's id is the upload that made it
    deleted,     \* history: the file names of the rows that were deleted
    failed       \* history: some call failed, or was taken for failed

stores  == <<collections, points, rows>>
history == <<deleted, failed>>
vars    == <<pc, job, ensured, stores, history>>

NoJob == [kind |-> "none"]

Init ==
    /\ pc = [p \in Procs |-> "idle"]
    /\ job = [p \in Procs |-> NoJob]
    /\ ensured = [p \in Procs |-> 0]
    /\ collections = {} /\ points = {} /\ rows = {}
    /\ deleted = {} /\ failed = FALSE

Goto(p, from, to) == pc[p] = from /\ pc' = [pc EXCEPT ![p] = to]

\* The call fails, with or without having its effect.
Fail(p, from, to, effect) ==
    /\ Goto(p, from, to)
    /\ \/ "refused" \in Failures /\ UNCHANGED <<stores, deleted>>
       \/ "lost" \in Failures /\ effect
    /\ failed' = TRUE
    /\ UNCHANGED <<job, ensured>>

-----------------------------------------------------------------------------
(* Requests *)

Begin(p, j, next) ==
    /\ Goto(p, "idle", next)
    /\ job' = [job EXCEPT ![p] = j]
    /\ UNCHANGED <<ensured, stores, history>>

UploadDocument(p) ==
    \E org \in Orgs, name \in Names, length \in Lengths :
        Begin(p, [kind |-> "upload", org |-> org, name |-> name, length |-> length,
                  collection |-> "knowledge_base"], "get")

\* Any id may be asked for; which name goes with it DeleteRow finds out.
DeleteDocument(p) ==
    \E org \in Orgs, id \in {row.id : row \in rows} :
        Begin(p, [kind |-> "delete", org |-> org, id |-> id, name |-> "",
                  collection |-> "knowledge_base"],
              "delete row")

\* At this commit there is no sector to forbid: only the collection is made.
Seed(p) == Begin(p, [kind |-> "seed sectors", collection |-> "forbidden_sectors_semantic"], "get")

SeedAllowed(p) == Begin(p, [kind |-> "seed", collection |-> "allowed_topics"], "get")

AddException(p) ==
    Begin(p, [kind |-> "exception", collection |-> "allowed_exceptions"], "get")

-----------------------------------------------------------------------------
(* Collections and vectors *)

\* AddException ensures its collection, and seedCollection does so again.
Ensured(p) ==
    /\ ensured' = [ensured EXCEPT ![p] = @ + 1]
    /\ pc' = [pc EXCEPT ![p] = CASE job[p].kind = "seed sectors" -> "done"
                                 [] job[p].kind = "exception" /\ ensured[p] = 0 -> "get"
                                 [] OTHER -> "upsert"]
    /\ UNCHANGED <<job, points, rows, deleted>>

\* Mistake: a collection that Get does not find is left to Upsert.
GetCollectionOnly(p) ==
    /\ pc[p] = "get"
    /\ Ensured(p)
    /\ UNCHANGED <<collections, failed>>

\* Any error of Get counts as "no such collection".
GetCollection(p) ==
    /\ pc[p] = "get"
    /\ \/ /\ job[p].collection \in collections
          /\ Ensured(p)
          /\ UNCHANGED <<collections, failed>>
       \/ /\ job[p].collection \notin collections \/ Failures # {}
          /\ Goto(p, "get", "create")
          /\ failed' = (failed \/ job[p].collection \in collections)
          /\ UNCHANGED <<job, ensured, stores, deleted>>

CreateCollection(p) ==
    LET created == collections' = collections \cup {job[p].collection}
    IN  /\ pc[p] = "create"
        /\ \/ /\ job[p].collection \notin collections
              /\ created /\ Ensured(p)
              /\ UNCHANGED failed
           \/ /\ job[p].collection \in collections
              /\ Goto(p, "create", "failed")
              /\ UNCHANGED <<job, ensured, stores, history>>
           \/ Fail(p, "create", "failed", created /\ UNCHANGED <<points, rows, deleted>>)

\* Mistake: the window moves on by its whole length.
ChunkStepWhole == ChunkSize

ChunkStep == ChunkSize - ChunkOverlap

\* The runes each chunk has, up to the end, counted from 0.
ChunkText(length) ==
    IF length <= ChunkSize THEN {[from |-> 0, to |-> length]}
    ELSE {[from |-> i, to |-> IF i + ChunkSize < length THEN i + ChunkSize ELSE length] :
             i \in {k \in 0 .. length - 1 : k % ChunkStep = 0}}

SeedPoint(p, i) == [kind |-> "seed", id |-> i]

\* An exception has the id of the one before and takes its place.
NewPoints(p) ==
    LET j == job[p]
    IN  CASE j.kind = "upload" ->
                {[kind |-> "upload", id |-> p, org |-> j.org, name |-> j.name, chunk |-> c] :
                    c \in ChunkText(j.length)}
          [] j.kind = "seed" -> {SeedPoint(p, i) : i \in 1 .. Topics}
          [] j.kind = "exception" -> {[kind |-> "exception", id |-> 1, text |-> p]}

Upserted(p) ==
    /\ points' = {q \in points : job[p].kind = "exception" => q.kind # "exception"} \cup NewPoints(p)
    /\ UNCHANGED <<collections, rows, deleted>>

\* The client of an upload has its answer before the row is written.
Upsert(p) ==
    \/ /\ pc[p] = "upsert"
       /\ Goto(p, "upsert", IF job[p].kind = "upload" THEN "insert row" ELSE "done")
       /\ Upserted(p)
       /\ UNCHANGED <<job, ensured, failed>>
    \/ Fail(p, "upsert", "failed", Upserted(p))

-----------------------------------------------------------------------------
(* Rows *)

RowInserted(p) ==
    /\ rows' = rows \cup {[id |-> p, org |-> job[p].org, name |-> job[p].name]}
    /\ UNCHANGED <<collections, points, deleted>>

\* CreateDocument; its error is logged.
InsertRow(p) ==
    \/ /\ Goto(p, "insert row", "done")
       /\ RowInserted(p)
       /\ UNCHANGED <<job, ensured, failed>>
    \/ Fail(p, "insert row", "done", RowInserted(p))

RowDeleted(row) ==
    /\ rows' = rows \ {row}
    /\ deleted' = deleted \cup {row.name}
    /\ UNCHANGED <<collections, points>>

\* Mistake: the vectors stay while another document has the name.
AfterDeleteShared(row) ==
    IF \E other \in rows \ {row} : other.name = row.name THEN "done" ELSE "delete vectors"

AfterDelete(row) == "delete vectors"

\* DELETE ... WHERE id AND organization_id RETURNING filename.
DeleteRow(p) ==
    LET found == {row \in rows : row.id = job[p].id /\ row.org = job[p].org}
    IN  /\ pc[p] = "delete row"
        /\ \/ \E row \in found :
                \/ /\ Goto(p, "delete row", AfterDelete(row))
                   /\ job' = [job EXCEPT ![p].name = row.name]
                   /\ RowDeleted(row)
                   /\ UNCHANGED <<ensured, failed>>
                \/ Fail(p, "delete row", "failed", RowDeleted(row))
           \/ /\ found = {}
              /\ Goto(p, "delete row", "failed")
              /\ UNCHANGED <<job, ensured, stores, history>>

VectorsDeleted(p) ==
    /\ points' = {q \in points : q.kind = "upload" => q.name # job[p].name}
    /\ UNCHANGED <<collections, rows, deleted>>

\* DeleteByFilename, of whatever organization; its error is logged.
DeleteVectors(p) ==
    \/ /\ Goto(p, "delete vectors", "done")
       /\ VectorsDeleted(p)
       /\ UNCHANGED <<job, ensured, failed>>
    \/ Fail(p, "delete vectors", "done", VectorsDeleted(p))

Next ==
    \E p \in Procs :
        \/ UploadDocument(p) \/ DeleteDocument(p) \/ Seed(p) \/ SeedAllowed(p) \/ AddException(p)
        \/ GetCollection(p) \/ CreateCollection(p) \/ Upsert(p)
        \/ InsertRow(p) \/ DeleteRow(p) \/ DeleteVectors(p)

Spec == Init /\ [][Next]_vars

-----------------------------------------------------------------------------
(* Properties *)

\* Rows and points are what uploads, seeds and exceptions have made, in
\* collections there are.
TypeOK ==
    /\ collections \subseteq {"knowledge_base", "forbidden_sectors_semantic",
                              "allowed_topics", "allowed_exceptions"}
    /\ \A row \in rows : job[row.id].kind = "upload" /\ job[row.id].org = row.org
    /\ \A q \in points :
          \/ q.kind = "upload" /\ job[q.id].name = q.name /\ "knowledge_base" \in collections
          \/ q.kind = "seed" /\ "allowed_topics" \in collections
          \/ q.kind = "exception" /\ job[q.text].kind = "exception"
    /\ \A p \in Procs : ensured[p] \in 0 .. 2

\* Every passage of a listed document, up to one rune longer than the overlap,
\* lies in one of its vectors, whatever calls fail, until some document of the
\* same name is deleted, which may be another tenant's (vector.go:84-134,
\* 176-181, parser.go:52-71).
ListedIsSearchable ==
    \A row \in rows :
        row.name \notin deleted =>
            \A start \in 0 .. job[row.id].length - 1 :
                \E q \in points :
                    /\ q.kind = "upload" /\ q.id = row.id
                    /\ q.chunk.from <= start
                    /\ start + ChunkOverlap < q.chunk.to \/ q.chunk.to = job[row.id].length

\* As long as no call fails, vectors outlive their document's row only while
\* the handler is under way that deletes or has yet to write it, though
\* uploads and deletes of one name cross (vector.go:84-134, 169-181).
NothingLeftBehind ==
    ~failed =>
        \A q \in points :
            q.kind = "upload" =>
                \/ \E row \in rows : row.id = q.id
                \/ pc[q.id] = "insert row"
                \/ \E p \in Procs : pc[p] = "delete vectors" /\ job[p].name = q.name
=============================================================================
