------------------------ MODULE KnowledgeBase_proofs ------------------------
(***************************************************************************)
(* Rows in one store and vectors in another: what keeps them together      *)
(* without a transaction over both, for any number of handlers, documents  *)
(* and lengths, and for every size and overlap of the chunks.              *)
(***************************************************************************)
EXTENDS KnowledgeBase, TLAPS

-----------------------------------------------------------------------------
(* Chunks *)

\* Every place of a text lies in a chunk that goes on for the overlap, or to
\* the end.
LEMMA ChunksCover ==
    ASSUME NEW length \in Nat \ {0}, NEW start \in 0 .. length - 1
    PROVE  \E c \in ChunkText(length) :
               /\ c.from <= start
               /\ start + ChunkOverlap < c.to \/ c.to = length
PROOF
<1>1. CASE length <= ChunkSize
  <2> DEFINE c == [from |-> 0, to |-> length]
  <2>1. c \in ChunkText(length)
    BY <1>1 DEF ChunkText
  <2> QED
    BY <2>1
<1>2. CASE ~(length <= ChunkSize)
  <2> DEFINE i == start - (start % ChunkStep)
             c == [from |-> i, to |-> IF i + ChunkSize < length THEN i + ChunkSize ELSE length]
  <2>1. ChunkStep \in Nat \ {0} /\ ChunkStep = ChunkSize - ChunkOverlap
        /\ ChunkSize \in Nat /\ ChunkOverlap \in Nat
    BY KnowledgeBaseAssumption DEF ChunkStep
  <2>2. start % ChunkStep \in 0 .. ChunkStep - 1 /\ start % ChunkStep <= start
    BY <2>1
  <2>3. i \in 0 .. length - 1
    BY <2>2, <2>1
  <2>4. i % ChunkStep = 0
    <3>1. start = ChunkStep * (start \div ChunkStep) + (start % ChunkStep)
      BY <2>1
    <3>2. start \div ChunkStep \in Nat
      BY <2>1
    <3>3. \A q \in Nat, s \in Nat \ {0} : (s * q) % s = 0
      OBVIOUS
    <3> QED
      BY <3>1, <3>2, <3>3, <2>1, <2>2
  <2>5. c \in ChunkText(length)
    BY <2>3, <2>4, <1>2 DEF ChunkText
  <2>6. c.from <= start /\ (start + ChunkOverlap < c.to \/ c.to = length)
    BY <2>1, <2>2, <2>3
  <2> QED
    BY <2>5, <2>6
<1> QED
  BY <1>1, <1>2

-----------------------------------------------------------------------------
(* The invariant *)

Steps == {"idle", "get", "create", "upsert", "insert row", "delete row", "delete vectors",
          "done", "failed"}

Collections == {"knowledge_base", "forbidden_sectors_semantic", "allowed_topics",
                "allowed_exceptions"}

Uploads == [kind : {"upload"}, org : Orgs, name : Names, length : Lengths,
            collection : {"knowledge_base"}]
Deletions == [kind : {"delete"}, org : Orgs, id : Procs, name : Names \cup {""},
              collection : {"knowledge_base"}]
Others ==
    [kind : {"seed sectors"}, collection : {"forbidden_sectors_semantic"}]
        \cup [kind : {"seed"}, collection : {"allowed_topics"}]
        \cup [kind : {"exception"}, collection : {"allowed_exceptions"}]
Jobs == {NoJob} \cup Uploads \cup Deletions \cup Others

ProcInv ==
    /\ pc \in [Procs -> Steps]
    /\ job \in [Procs -> Jobs]
    /\ ensured \in [Procs -> 0 .. 2]
    /\ collections \subseteq Collections
    /\ failed \in BOOLEAN

\* What each process is there for, and how often it has ensured its collection.
Doing(p) ==
    /\ pc[p] = "idle" => job[p] = NoJob /\ ensured[p] = 0
    /\ pc[p] \in {"get", "create"} => job[p].kind \notin {"none", "delete"} /\ ensured[p] <= 1
    /\ pc[p] = "upsert" =>
          /\ job[p].kind \in {"upload", "seed", "exception"}
          /\ job[p].collection \in collections
    /\ pc[p] = "insert row" => job[p].kind = "upload"
    /\ pc[p] = "delete row" => job[p].kind = "delete"
    /\ pc[p] = "delete vectors" => job[p].kind = "delete" /\ job[p].name \in deleted

JobInv == \A p \in Procs : Doing(p)

\* Who made a row.
RowInv ==
    \A row \in rows :
        /\ row.id \in Procs
        /\ job[row.id].kind = "upload"
        /\ job[row.id].org = row.org /\ job[row.id].name = row.name

\* Who made a vector.
PointInv ==
    \A q \in points :
        \/ /\ q.kind = "upload" /\ q.id \in Procs
           /\ job[q.id].kind = "upload" /\ job[q.id].name = q.name
           /\ "knowledge_base" \in collections
        \/ q.kind = "seed" /\ "allowed_topics" \in collections
        \/ q.kind = "exception" /\ q.text \in Procs /\ job[q.text].kind = "exception"

\* All vectors are there from the upsert on, until the name is deleted.
Complete(p) ==
    /\ pc[p] = "insert row" \/ \E row \in rows : row.id = p
    /\ job[p].name \notin deleted
    => NewPoints(p) \subseteq points

CompleteInv == \A p \in Procs : Complete(p)

IInv == ProcInv /\ JobInv /\ RowInv /\ PointInv /\ CompleteInv /\ NothingLeftBehind

\* Nobody has been asked for anything.
LEMMA KindOfNoJob == NoJob.kind = "none"
PROOF BY DEF NoJob

\* The kinds are exclusive, and only an upload has a length.
LEMMA KindsOfJobs ==
    ASSUME NEW j \in Jobs
    PROVE  /\ j.kind \in {"none", "upload", "delete", "seed sectors", "seed", "exception"}
           /\ j.kind = "upload" => j \in Uploads
           /\ j.kind = "delete" => j \in Deletions
           /\ j.kind = "seed" => j.collection = "allowed_topics"
           /\ j.kind = "none" <=> j = NoJob
           /\ j.kind # "none" => j.collection \in Collections
PROOF
<1>1. CASE j = NoJob
  BY <1>1 DEF NoJob
<1>2. CASE j \in Uploads
  BY <1>2, KindOfNoJob DEF Uploads, Collections
<1>3. CASE j \in Deletions
  BY <1>3, KindOfNoJob DEF Deletions, Collections
<1>4. CASE j \in Others
  BY <1>4, KindOfNoJob DEF Others, Collections
<1> QED
  BY <1>1, <1>2, <1>3, <1>4 DEF Jobs

-----------------------------------------------------------------------------
(* Steps *)

\* A process that begins has made nothing yet.
LEMMA BeginKeeps ==
    ASSUME IInv, NEW p \in Procs, NEW j \in Jobs \ {NoJob}, NEW next \in {"get", "delete row"},
           (next = "get") <=> (j.kind # "delete"), Begin(p, j, next)
    PROVE  IInv'
PROOF
<1>1. ProcInv /\ JobInv /\ RowInv /\ PointInv /\ CompleteInv /\ NothingLeftBehind
  BY DEF IInv
<1>2. UNCHANGED <<ensured, collections, points, rows, deleted, failed>>
  BY DEF Begin, stores, history
<1>3. pc[p] = "idle" /\ pc' = [pc EXCEPT ![p] = next] /\ job' = [job EXCEPT ![p] = j]
  BY DEF Begin, Goto
<1>4. /\ pc'[p] = next /\ job'[p] = j
      /\ \A o \in Procs \ {p} : pc'[o] = pc[o] /\ job'[o] = job[o]
  BY <1>1, <1>3 DEF ProcInv
<1>5. pc[p] = "idle" /\ job[p].kind = "none" /\ ensured[p] = 0
  <2>1. job[p] = NoJob /\ ensured[p] = 0
    BY <1>1, <1>3 DEF JobInv, Doing
  <2> QED
    BY <1>3, <2>1, KindOfNoJob
<1>6. ProcInv'
  BY <1>1, <1>2, <1>3 DEF ProcInv, Steps
<1>7. JobInv'
  <2>1. Doing(p)'
    <3>1. j.kind # "none"
      BY KindsOfJobs
    <3>2. CASE next = "get"
      BY <3>1, <3>2, <1>2, <1>4, <1>5 DEF Doing
    <3>3. CASE next = "delete row"
      BY <3>3, <1>4 DEF Doing
    <3> QED
      BY <3>2, <3>3
  <2>2. ASSUME NEW o \in Procs, o # p
        PROVE  Doing(o)'
    BY <2>2, <1>1, <1>2, <1>4 DEF JobInv, Doing
  <2> QED
    BY <2>1, <2>2 DEF JobInv
<1>8. RowInv' /\ \A row \in rows : row.id # p
  BY <1>1, <1>2, <1>4, <1>5 DEF RowInv
<1>9. PointInv'
  <2> SUFFICES ASSUME NEW q \in points
               PROVE  \/ /\ q.kind = "upload" /\ q.id \in Procs
                         /\ job'[q.id].kind = "upload" /\ job'[q.id].name = q.name
                         /\ "knowledge_base" \in collections
                      \/ q.kind = "seed" /\ "allowed_topics" \in collections
                      \/ /\ q.kind = "exception" /\ q.text \in Procs
                         /\ job'[q.text].kind = "exception"
    BY <1>2 DEF PointInv
  <2> QED
    BY <1>1, <1>4, <1>5 DEF PointInv
<1>10. CompleteInv'
  <2>1. Complete(p)'
    BY <1>2, <1>4, <1>8 DEF Complete
  <2>2. ASSUME NEW o \in Procs, o # p
        PROVE  Complete(o)'
    <3>1. NewPoints(o)' = NewPoints(o)
      BY <2>2, <1>4 DEF NewPoints
    <3> QED
      BY <3>1, <2>2, <1>1, <1>2, <1>4 DEF CompleteInv, Complete
  <2> QED
    BY <2>1, <2>2 DEF CompleteInv
<1>11. NothingLeftBehind'
  <2> SUFFICES ASSUME ~failed, NEW q \in points, q.kind = "upload"
               PROVE  \/ \E row \in rows : row.id = q.id
                      \/ pc'[q.id] = "insert row"
                      \/ \E o \in Procs : pc'[o] = "delete vectors" /\ job'[o].name = q.name
    BY <1>2 DEF NothingLeftBehind
  <2>1. q.id \in Procs
    BY <1>1 DEF PointInv
  <2> QED
    <3>1. CASE \E row \in rows : row.id = q.id
      BY <3>1
    <3>2. CASE pc[q.id] = "insert row"
      BY <3>2, <2>1, <1>4, <1>5
    <3>3. ASSUME NEW o \in Procs, pc[o] = "delete vectors", job[o].name = q.name
          PROVE  pc'[o] = "delete vectors" /\ job'[o].name = q.name
      BY <3>3, <1>4, <1>5
    <3> QED
      BY <3>1, <3>2, <3>3, <1>1 DEF NothingLeftBehind
<1> QED
  BY <1>6, <1>7, <1>8, <1>9, <1>10, <1>11 DEF IInv

\* What the vectors of a job say of it.
LEMMA VectorsOfJob ==
    ASSUME NEW p \in Procs
    PROVE  /\ job[p].kind = "upload" =>
                  \A q \in NewPoints(p) :
                      q.kind = "upload" /\ q.id = p /\ q.name = job[p].name
           /\ job[p].kind = "seed" => \A q \in NewPoints(p) : q.kind = "seed"
           /\ job[p].kind = "exception" =>
                  \A q \in NewPoints(p) : q.kind = "exception" /\ q.text = p
PROOF
<1>1. CASE job[p].kind = "upload"
  BY <1>1 DEF NewPoints
<1>2. CASE job[p].kind = "seed"
  BY <1>2 DEF NewPoints, SeedPoint
<1>3. CASE job[p].kind = "exception"
  BY <1>3 DEF NewPoints
<1> QED
  BY <1>1, <1>2, <1>3

\* Who writes a row, or has one, is an upload.
LEMMA Uploader ==
    ASSUME IInv, NEW p \in Procs, pc[p] = "insert row" \/ \E row \in rows : row.id = p
    PROVE  job[p].kind = "upload"
PROOF BY DEF IInv, JobInv, Doing, RowInv

\* A collection is ensured once, or twice for an exception, and there when the
\* vectors go in.
LEMMA PrepareKeeps ==
    ASSUME IInv, NEW p \in Procs, GetCollection(p) \/ CreateCollection(p)
    PROVE  IInv'
PROOF
<1>1. ProcInv /\ JobInv /\ RowInv /\ PointInv /\ CompleteInv /\ NothingLeftBehind
  BY DEF IInv
<1>2. UNCHANGED <<job, points, rows, deleted>> /\ (failed => failed')
  <2>1. CASE GetCollection(p)
    <3>1. UNCHANGED <<job, points, rows, deleted>>
      BY <2>1 DEF GetCollection, Ensured, stores
    <3>2. failed => failed'
      BY <2>1 DEF GetCollection
    <3> QED
      BY <3>1, <3>2
  <2>2. CASE CreateCollection(p)
    <3>1. UNCHANGED <<job, points, rows, deleted>>
      BY <2>2 DEF CreateCollection, Ensured, Fail, stores, history
    <3>2. failed => failed'
      BY <2>2 DEF CreateCollection, Fail, history
    <3> QED
      BY <3>1, <3>2
  <2> QED
    BY <2>1, <2>2
<1>3. \/ UNCHANGED collections
      \/ collections' = collections \cup {job[p].collection}
  BY DEF GetCollection, CreateCollection, Ensured, Fail, stores, history
<1>4. pc[p] \in {"get", "create"}
  BY DEF GetCollection, CreateCollection, Fail, Goto
<1>5. job[p].kind \notin {"none", "delete"} /\ ensured[p] \in 0 .. 1
  <2>1. job[p].kind \notin {"none", "delete"} /\ ensured[p] <= 1
    BY <1>1, <1>4 DEF JobInv, Doing
  <2>2. ensured[p] \in 0 .. 2
    BY <1>1 DEF ProcInv
  <2> QED
    BY <2>1, <2>2
<1>6. job[p] \in Jobs
  BY <1>1 DEF ProcInv
<1>7. job[p].collection \in Collections
  BY <1>5, <1>6, KindsOfJobs
<1>8. \/ /\ Ensured(p) /\ job[p].collection \in collections'
      \/ /\ UNCHANGED ensured
         /\ \E to \in {"create", "failed"} : pc' = [pc EXCEPT ![p] = to]
  BY DEF GetCollection, CreateCollection, Fail, Goto
<1>9. /\ ensured' \in [Procs -> 0 .. 2]
      /\ \E to \in {"get", "create", "upsert", "done", "failed"} :
            /\ pc' = [pc EXCEPT ![p] = to]
            /\ to \in {"get", "create"} => ensured'[p] <= 1
            /\ to = "upsert" => /\ job[p].kind \in {"upload", "seed", "exception"}
                                /\ job[p].collection \in collections'
      /\ \A o \in Procs \ {p} : ensured'[o] = ensured[o]
  <2>1. CASE Ensured(p) /\ job[p].collection \in collections'
    <3>1. /\ ensured' = [ensured EXCEPT ![p] = ensured[p] + 1]
          /\ \/ job[p].kind = "seed sectors" /\ pc' = [pc EXCEPT ![p] = "done"]
             \/ /\ job[p].kind = "exception" /\ ensured[p] = 0
                /\ pc' = [pc EXCEPT ![p] = "get"]
             \/ /\ job[p].kind # "seed sectors"
                /\ pc' = [pc EXCEPT ![p] = "upsert"]
      BY <2>1 DEF Ensured
    <3>2. job[p].kind # "seed sectors" => job[p].kind \in {"upload", "seed", "exception"}
      BY <1>5, <1>6, KindsOfJobs
    <3>3. /\ ensured' \in [Procs -> 0 .. 2] /\ ensured'[p] = ensured[p] + 1
          /\ \A o \in Procs \ {p} : ensured'[o] = ensured[o]
      <4>1. ensured \in [Procs -> 0 .. 2] /\ ensured' = [ensured EXCEPT ![p] = ensured[p] + 1]
        BY <3>1, <1>1 DEF ProcInv
      <4>2. ensured[p] + 1 \in 0 .. 2
        BY <1>5
      <4> QED
        BY <4>1, <4>2
    <3>4. CASE job[p].kind = "seed sectors" /\ pc' = [pc EXCEPT ![p] = "done"]
      BY <3>4, <3>3
    <3>5. CASE ensured[p] = 0 /\ pc' = [pc EXCEPT ![p] = "get"]
      BY <3>5, <3>3
    <3>6. CASE job[p].kind # "seed sectors" /\ pc' = [pc EXCEPT ![p] = "upsert"]
      BY <3>6, <3>2, <3>3, <2>1
    <3> QED
      BY <3>1, <3>4, <3>5, <3>6
  <2>2. CASE /\ UNCHANGED ensured
             /\ \E to \in {"create", "failed"} : pc' = [pc EXCEPT ![p] = to]
    <3>1. ensured' = ensured /\ ensured \in [Procs -> 0 .. 2] /\ ensured'[p] <= 1
      BY <2>2, <1>1, <1>5 DEF ProcInv
    <3> QED
      BY <3>1, <2>2
  <2> QED
    BY <1>8, <2>1, <2>2
<1>10. PICK to \in {"get", "create", "upsert", "done", "failed"} :
          /\ pc' = [pc EXCEPT ![p] = to]
          /\ to \in {"get", "create"} => ensured'[p] <= 1
          /\ to = "upsert" => /\ job[p].kind \in {"upload", "seed", "exception"}
                              /\ job[p].collection \in collections'
  BY <1>9
<1>11. pc'[p] = to /\ \A o \in Procs \ {p} : pc'[o] = pc[o] /\ ensured'[o] = ensured[o]
  BY <1>1, <1>9, <1>10 DEF ProcInv
<1>12. failed' \in BOOLEAN
  BY <1>1 DEF ProcInv, GetCollection, CreateCollection, Fail, history
<1>13. ProcInv'
  BY <1>1, <1>2, <1>3, <1>7, <1>9, <1>10, <1>12 DEF ProcInv, Steps
<1>14. JobInv'
  <2>1. Doing(p)'
    BY <1>2, <1>5, <1>10, <1>11 DEF Doing
  <2>2. ASSUME NEW o \in Procs, o # p
        PROVE  Doing(o)'
    <3>1. Doing(o)
      BY <1>1 DEF JobInv
    <3> QED
      BY <3>1, <2>2, <1>2, <1>3, <1>11 DEF Doing
  <2> QED
    BY <2>1, <2>2 DEF JobInv
<1>15. RowInv'
  BY <1>1, <1>2 DEF RowInv
<1>16. PointInv'
  BY <1>1, <1>2, <1>3 DEF PointInv
<1>17. CompleteInv'
  <2> SUFFICES ASSUME NEW o \in Procs
               PROVE  Complete(o)'
    BY DEF CompleteInv
  <2>1. pc'[o] = "insert row" => pc[o] = "insert row"
    BY <1>11
  <2>2. NewPoints(o)' = NewPoints(o)
    BY <1>2 DEF NewPoints
  <2> QED
    BY <2>1, <2>2, <1>1, <1>2 DEF CompleteInv, Complete
<1>18. NothingLeftBehind'
  <2>1. \A o \in Procs : /\ pc[o] = "insert row" => pc'[o] = "insert row"
                         /\ pc[o] = "delete vectors" => pc'[o] = "delete vectors"
    BY <1>4, <1>11
  <2>2. \A q \in points : q.kind = "upload" => q.id \in Procs
    BY <1>1 DEF PointInv
  <2> QED
    BY <2>1, <2>2, <1>1, <1>2 DEF NothingLeftBehind
<1> QED
  BY <1>13, <1>14, <1>15, <1>16, <1>17, <1>18 DEF IInv

\* An upsert takes the place of the exception before, if it is one, and of no
\* vector of a document.
LEMMA UpsertKeeps ==
    ASSUME IInv, NEW p \in Procs, Upsert(p)
    PROVE  IInv'
PROOF
<1>1. ProcInv /\ JobInv /\ RowInv /\ PointInv /\ CompleteInv /\ NothingLeftBehind
  BY DEF IInv
<1> DEFINE after == {q \in points : job[p].kind = "exception" => q.kind # "exception"}
                        \cup NewPoints(p)
           next == IF job[p].kind = "upload" THEN "insert row" ELSE "done"
<1>2. /\ pc[p] = "upsert" /\ UNCHANGED <<job, ensured, collections, rows, deleted>>
      /\ \/ pc' = [pc EXCEPT ![p] = next] /\ points' = after /\ UNCHANGED failed
         \/ pc' = [pc EXCEPT ![p] = "failed"] /\ points' \in {points, after} /\ failed' = TRUE
  BY DEF Upsert, Upserted, Fail, Goto, stores
<1>3. PICK to \in {"insert row", "done", "failed"} :
          /\ pc' = [pc EXCEPT ![p] = to]
          /\ to # "failed" => to = next /\ points' = after /\ UNCHANGED failed
          /\ to = "failed" => points' \in {points, after} /\ failed' = TRUE
  BY <1>2
<1>4. /\ job[p].kind \in {"upload", "seed", "exception"}
      /\ job[p].collection \in collections /\ job[p] \in Jobs
  BY <1>1, <1>2 DEF ProcInv, JobInv, Doing
<1>5. pc'[p] = to /\ \A o \in Procs \ {p} : pc'[o] = pc[o]
  BY <1>1, <1>3 DEF ProcInv
<1>6. /\ \A q \in points' : q \in points \/ q \in NewPoints(p)
      /\ \A q \in points : q.kind # "exception" => q \in points'
  BY <1>3
<1>7. to = "insert row" => job[p].kind = "upload" /\ NewPoints(p) \subseteq points'
  BY <1>3
<1> HIDE DEF after, next
<1>8. ProcInv'
  <2>1. failed' \in BOOLEAN
    BY <1>1, <1>2 DEF ProcInv
  <2> QED
    BY <2>1, <1>1, <1>2, <1>3 DEF ProcInv, Steps
<1>9. JobInv'
  BY <1>1, <1>2, <1>5, <1>7 DEF JobInv, Doing
<1>10. RowInv'
  BY <1>1, <1>2 DEF RowInv
<1>11. PointInv'
  <2>1. ASSUME NEW q \in NewPoints(p)
        PROVE  \/ /\ q.kind = "upload" /\ q.id \in Procs
                  /\ job[q.id].kind = "upload" /\ job[q.id].name = q.name
                  /\ "knowledge_base" \in collections
               \/ q.kind = "seed" /\ "allowed_topics" \in collections
               \/ /\ q.kind = "exception" /\ q.text \in Procs
                  /\ job[q.text].kind = "exception"
    <3>1. CASE job[p].kind = "upload"
      <4>1. job[p].collection = "knowledge_base"
        BY <3>1, <1>4, KindsOfJobs DEF Uploads
      <4>2. q.kind = "upload" /\ q.id = p /\ q.name = job[p].name
        BY <3>1, VectorsOfJob
      <4> QED
        BY <4>1, <4>2, <3>1, <1>4
    <3>2. CASE job[p].kind = "seed"
      <4>1. job[p].collection = "allowed_topics"
        BY <3>2, <1>4, KindsOfJobs
      <4> QED
        BY <4>1, <3>2, <1>4, VectorsOfJob
    <3>3. CASE job[p].kind = "exception"
      <4>1. q.kind = "exception" /\ q.text = p
        BY <3>3, VectorsOfJob
      <4> QED
        BY <4>1, <3>3
    <3> QED
      BY <1>4, <3>1, <3>2, <3>3
  <2> QED
    BY <2>1, <1>1, <1>2, <1>6 DEF PointInv
<1>12. CompleteInv'
  <2> SUFFICES ASSUME NEW o \in Procs, job[o].name \notin deleted,
                      pc'[o] = "insert row" \/ \E row \in rows : row.id = o
               PROVE  NewPoints(o) \subseteq points'
    <3>1. UNCHANGED <<job, rows, deleted>>
      BY <1>2
    <3> QED
      BY <3>1 DEF CompleteInv, Complete, NewPoints
  <2>1. CASE o = p /\ to = "insert row"
    BY <2>1, <1>7
  <2>2. CASE ~(o = p /\ to = "insert row")
    <3>1. pc[o] = "insert row" \/ \E row \in rows : row.id = o
      BY <2>2, <1>5
    <3>2. NewPoints(o) \subseteq points
      BY <3>1, <1>1 DEF CompleteInv, Complete
    <3>3. \A q \in NewPoints(o) : q.kind = "upload"
      BY <3>1, Uploader, VectorsOfJob
    <3> QED
      BY <3>2, <3>3, <1>6
  <2> QED
    BY <2>1, <2>2
<1>13. NothingLeftBehind'
  <2> SUFFICES ASSUME ~failed', NEW q \in points', q.kind = "upload"
               PROVE  \/ \E row \in rows : row.id = q.id
                      \/ pc'[q.id] = "insert row"
                      \/ \E o \in Procs : pc'[o] = "delete vectors" /\ job[o].name = q.name
    BY <1>2 DEF NothingLeftBehind
  <2>1. ~failed /\ to = next
    <3>1. to # "failed"
      BY <1>3
    <3>2. to = next
      BY <3>1, <1>3
    <3>3. failed' = failed
      BY <3>1, <1>3
    <3> QED
      BY <3>2, <3>3
  <2>2. CASE q \in points
    <3>1. q.id \in Procs
      BY <2>2, <1>1 DEF PointInv
    <3>2. \A o \in Procs : pc[o] \in {"insert row", "delete vectors"} => pc'[o] = pc[o]
      BY <1>2, <1>5
    <3> QED
      BY <2>1, <2>2, <3>1, <3>2, <1>1 DEF NothingLeftBehind
  <2>3. CASE q \in NewPoints(p)
    <3>1. job[p].kind = "upload"
      BY <2>3, <1>4, VectorsOfJob
    <3>2. to = "insert row" /\ q.id = p
      BY <2>1, <2>3, <3>1, VectorsOfJob DEF next
    <3> QED
      BY <3>2, <1>5
  <2> QED
    BY <2>2, <2>3, <1>6
<1> QED
  BY <1>8, <1>9, <1>10, <1>11, <1>12, <1>13 DEF IInv

\* The row comes when all its vectors are there.
LEMMA InsertRowKeeps ==
    ASSUME IInv, NEW p \in Procs, InsertRow(p)
    PROVE  IInv'
PROOF
<1>1. ProcInv /\ JobInv /\ RowInv /\ PointInv /\ CompleteInv /\ NothingLeftBehind
  BY DEF IInv
<1> DEFINE new == [id |-> p, org |-> job[p].org, name |-> job[p].name]
<1>2. pc[p] = "insert row" /\ pc' = [pc EXCEPT ![p] = "done"]
  BY DEF InsertRow, Fail, Goto
<1>3. UNCHANGED <<job, ensured, collections, points, deleted>>
  BY DEF InsertRow, RowInserted, Fail, stores
<1>4. \/ rows' = rows \cup {new} /\ UNCHANGED failed
      \/ rows' \in {rows, rows \cup {new}} /\ failed' = TRUE
  BY DEF InsertRow, RowInserted, Fail, stores
<1>5. pc'[p] = "done" /\ \A o \in Procs \ {p} : pc'[o] = pc[o]
  BY <1>1, <1>2 DEF ProcInv
<1>6. job[p].kind = "upload"
  BY <1>2, Uploader
<1>7. new.id = p /\ new.org = job[p].org /\ new.name = job[p].name
  OBVIOUS
<1> HIDE DEF new
<1>8. ProcInv'
  <2>1. failed' \in BOOLEAN
    BY <1>1, <1>4 DEF ProcInv
  <2> QED
    BY <2>1, <1>1, <1>2, <1>3 DEF ProcInv, Steps
<1>9. JobInv'
  BY <1>1, <1>3, <1>5 DEF JobInv, Doing
<1>10. RowInv'
  BY <1>1, <1>3, <1>4, <1>6, <1>7 DEF RowInv
<1>11. PointInv'
  BY <1>1, <1>3 DEF PointInv
<1>12. CompleteInv'
  <2> SUFFICES ASSUME NEW o \in Procs, job[o].name \notin deleted,
                      pc'[o] = "insert row" \/ \E row \in rows' : row.id = o
               PROVE  NewPoints(o) \subseteq points
    BY <1>3 DEF CompleteInv, Complete, NewPoints
  <2>1. pc[o] = "insert row" \/ \E row \in rows : row.id = o
    BY <1>2, <1>4, <1>5, <1>7
  <2> QED
    BY <2>1, <1>1 DEF CompleteInv, Complete
<1>13. NothingLeftBehind'
  <2> SUFFICES ASSUME ~failed', NEW q \in points, q.kind = "upload"
               PROVE  \/ \E row \in rows' : row.id = q.id
                      \/ pc'[q.id] = "insert row"
                      \/ \E o \in Procs : pc'[o] = "delete vectors" /\ job[o].name = q.name
    BY <1>3 DEF NothingLeftBehind
  <2>1. ~failed /\ rows' = rows \cup {new} /\ q.id \in Procs
    BY <1>1, <1>4 DEF PointInv
  <2>2. CASE q.id = p
    BY <2>1, <2>2, <1>7
  <2>3. CASE q.id # p
    <3>1. \A o \in Procs : pc[o] = "delete vectors" => pc'[o] = pc[o]
      BY <1>2, <1>5
    <3> QED
      BY <2>1, <2>3, <3>1, <1>1, <1>5 DEF NothingLeftBehind
  <2> QED
    BY <2>2, <2>3
<1> QED
  BY <1>8, <1>9, <1>10, <1>11, <1>12, <1>13 DEF IInv

\* The vectors of a name that a handler is about to delete are left out, those
\* of all others stay.
LEMMA DeleteVectorsKeeps ==
    ASSUME IInv, NEW p \in Procs, DeleteVectors(p)
    PROVE  IInv'
PROOF
<1>1. ProcInv /\ JobInv /\ RowInv /\ PointInv /\ CompleteInv /\ NothingLeftBehind
  BY DEF IInv
<1> DEFINE rest == {q \in points : q.kind = "upload" => q.name # job[p].name}
<1>2. pc[p] = "delete vectors" /\ pc' = [pc EXCEPT ![p] = "done"]
  BY DEF DeleteVectors, Fail, Goto
<1>3. UNCHANGED <<job, ensured, collections, rows, deleted>>
  BY DEF DeleteVectors, VectorsDeleted, Fail, stores
<1>4. \/ points' = rest /\ UNCHANGED failed
      \/ points' \in {points, rest} /\ failed' = TRUE
  BY DEF DeleteVectors, VectorsDeleted, Fail, stores
<1>5. pc'[p] = "done" /\ \A o \in Procs \ {p} : pc'[o] = pc[o]
  BY <1>1, <1>2 DEF ProcInv
<1>6. job[p].name \in deleted
  BY <1>1, <1>2 DEF JobInv, Doing
<1>7. /\ \A q \in points' : q \in points
      /\ \A q \in points : q.name # job[p].name => q \in points'
      /\ ~failed' => \A q \in points' : q.kind = "upload" => q.name # job[p].name
  BY <1>4
<1>8. ProcInv'
  <2>1. failed' \in BOOLEAN
    BY <1>1, <1>4 DEF ProcInv
  <2> QED
    BY <2>1, <1>1, <1>2, <1>3 DEF ProcInv, Steps
<1>9. JobInv'
  BY <1>1, <1>3, <1>5 DEF JobInv, Doing
<1>10. RowInv'
  BY <1>1, <1>3 DEF RowInv
<1>11. PointInv'
  BY <1>1, <1>3, <1>7 DEF PointInv
<1>12. CompleteInv'
  <2> SUFFICES ASSUME NEW o \in Procs, job[o].name \notin deleted,
                      pc'[o] = "insert row" \/ \E row \in rows : row.id = o
               PROVE  NewPoints(o) \subseteq points'
    BY <1>3 DEF CompleteInv, Complete, NewPoints
  <2>1. pc[o] = "insert row" \/ \E row \in rows : row.id = o
    BY <1>5
  <2>2. NewPoints(o) \subseteq points
    BY <2>1, <1>1 DEF CompleteInv, Complete
  <2>3. \A q \in NewPoints(o) : q.name # job[p].name
    BY <2>1, <1>6, Uploader, VectorsOfJob
  <2> QED
    BY <2>2, <2>3, <1>7
<1>13. NothingLeftBehind'
  <2> SUFFICES ASSUME ~failed', NEW q \in points', q.kind = "upload"
               PROVE  \/ \E row \in rows : row.id = q.id
                      \/ pc'[q.id] = "insert row"
                      \/ \E o \in Procs : pc'[o] = "delete vectors" /\ job[o].name = q.name
    BY <1>3 DEF NothingLeftBehind
  <2>1. ~failed /\ q \in points /\ q.id \in Procs
    BY <1>1, <1>4, <1>7 DEF PointInv
  <2>2. q.name # job[p].name
    BY <1>7
  <2>3. \A o \in Procs : pc[o] = "insert row" => pc'[o] = pc[o]
    BY <1>2, <1>5
  <2>4. \A o \in Procs : pc[o] = "delete vectors" /\ job[o].name = q.name => pc'[o] = pc[o]
    BY <2>2, <1>5
  <2> QED
    BY <2>1, <2>3, <2>4, <1>1 DEF NothingLeftBehind
<1> QED
  BY <1>8, <1>9, <1>10, <1>11, <1>12, <1>13 DEF IInv

\* Who deletes a row goes on to delete the vectors of its name, its own among
\* them, or fails; a row of another tenant is not found.
LEMMA DeleteRowKeeps ==
    ASSUME IInv, NEW p \in Procs, DeleteRow(p)
    PROVE  IInv'
PROOF
<1>1. ProcInv /\ JobInv /\ RowInv /\ PointInv /\ CompleteInv /\ NothingLeftBehind
  BY DEF IInv
<1>2. pc[p] = "delete row" /\ job[p].kind = "delete" /\ job[p] \in Jobs
  <2>1. pc[p] = "delete row"
    BY DEF DeleteRow
  <2> QED
    BY <2>1, <1>1 DEF ProcInv, JobInv, Doing
<1>3. UNCHANGED <<ensured, collections, points>>
  BY DEF DeleteRow, RowDeleted, Fail, stores
<1>4. \/ /\ UNCHANGED <<job, rows, deleted>> /\ pc' = [pc EXCEPT ![p] = "failed"]
         /\ failed' \in {failed, TRUE}
      \/ \E row \in rows : /\ rows' = rows \ {row} /\ deleted' = deleted \cup {row.name}
                           /\ pc' = [pc EXCEPT ![p] = "failed"] /\ UNCHANGED job
                           /\ failed' = TRUE
      \/ \E row \in rows : /\ rows' = rows \ {row} /\ deleted' = deleted \cup {row.name}
                           /\ pc' = [pc EXCEPT ![p] = "delete vectors"]
                           /\ job' = [job EXCEPT ![p].name = row.name]
                           /\ UNCHANGED failed
  BY DEF DeleteRow, RowDeleted, AfterDelete, Fail, Goto, stores, history
<1>5. rows' \subseteq rows /\ deleted \subseteq deleted'
  BY <1>4
<1>6. failed' \in BOOLEAN
  BY <1>1, <1>4 DEF ProcInv
<1>7. /\ job' \in [Procs -> Jobs] /\ job'[p].kind = "delete"
      /\ \A o \in Procs \ {p} : job'[o] = job[o]
  <2>1. CASE UNCHANGED job
    BY <2>1, <1>1, <1>2 DEF ProcInv
  <2>2. ASSUME NEW row \in rows, job' = [job EXCEPT ![p].name = row.name]
        PROVE  /\ job' \in [Procs -> Jobs] /\ job'[p].kind = "delete"
               /\ \A o \in Procs \ {p} : job'[o] = job[o]
    <3>1. row.name \in Names
      <4>1. row.id \in Procs /\ job[row.id].kind = "upload" /\ job[row.id].name = row.name
        BY <1>1 DEF RowInv
      <4>2. job[row.id] \in Uploads
        BY <4>1, <1>1, KindsOfJobs DEF ProcInv
      <4> QED
        BY <4>1, <4>2 DEF Uploads
    <3>2. PICK j : j = [job[p] EXCEPT !.name = row.name]
      OBVIOUS
    <3>3. j \in Deletions
      <4>1. job[p] \in Deletions
        BY <1>2, KindsOfJobs
      <4> QED
        BY <4>1, <3>1, <3>2 DEF Deletions
    <3>4. j \in Jobs /\ j.kind = "delete"
      BY <3>3 DEF Jobs, Deletions
    <3>5. job' = [job EXCEPT ![p] = j]
      BY <2>2, <3>2
    <3> QED
      BY <3>4, <3>5, <1>1 DEF ProcInv
  <2> QED
    BY <2>1, <2>2, <1>4
<1>8. /\ pc' \in [Procs -> Steps] /\ pc'[p] \in {"failed", "delete vectors"}
      /\ \A o \in Procs \ {p} : pc'[o] = pc[o]
  <2>1. PICK to \in {"failed", "delete vectors"} : pc' = [pc EXCEPT ![p] = to]
    BY <1>4
  <2> QED
    BY <2>1, <1>1 DEF ProcInv, Steps
<1>9. \/ pc'[p] = "failed" /\ (rows' = rows \/ failed' = TRUE) /\ (failed => failed')
      \/ /\ UNCHANGED failed
         /\ pc'[p] = "delete vectors"
         /\ \E row \in rows : /\ rows' = rows \ {row}
                              /\ job'[p].name = row.name /\ row.name \in deleted'
  <2>1. CASE /\ UNCHANGED <<job, rows, deleted>> /\ pc' = [pc EXCEPT ![p] = "failed"]
             /\ failed' \in {failed, TRUE}
    BY <2>1, <1>1 DEF ProcInv
  <2>2. CASE pc' = [pc EXCEPT ![p] = "failed"] /\ failed' = TRUE
    BY <2>2, <1>1 DEF ProcInv
  <2>3. ASSUME NEW row \in rows, rows' = rows \ {row}, deleted' = deleted \cup {row.name},
               pc' = [pc EXCEPT ![p] = "delete vectors"],
               job' = [job EXCEPT ![p].name = row.name], UNCHANGED failed
        PROVE  /\ UNCHANGED failed /\ pc'[p] = "delete vectors"
               /\ job'[p].name = row.name /\ row.name \in deleted'
    <3>1. pc'[p] = "delete vectors"
      BY <2>3, <1>1 DEF ProcInv
    <3>2. job'[p].name = row.name
      <4>1. job[p] \in Deletions
        BY <1>2, KindsOfJobs
      <4>2. job'[p] = [job[p] EXCEPT !.name = row.name]
        BY <2>3, <1>1 DEF ProcInv
      <4> QED
        BY <4>1, <4>2 DEF Deletions
    <3> QED
      BY <3>1, <3>2, <2>3
  <2> QED
    BY <2>1, <2>2, <2>3, <1>4
<1>10. \A o \in Procs : job[o].kind \in {"upload", "exception"} => o # p
  BY <1>2
<1>11. ProcInv'
  BY <1>1, <1>3, <1>6, <1>7, <1>8 DEF ProcInv
<1>12. JobInv'
  <2>1. Doing(p)'
    BY <1>7, <1>8, <1>9 DEF Doing
  <2>2. ASSUME NEW o \in Procs, o # p
        PROVE  Doing(o)'
    BY <2>2, <1>1, <1>3, <1>5, <1>7, <1>8 DEF JobInv, Doing
  <2> QED
    BY <2>1, <2>2 DEF JobInv
<1>13. RowInv'
  BY <1>1, <1>5, <1>7, <1>10 DEF RowInv
<1>14. PointInv'
  <2> SUFFICES ASSUME NEW q \in points
               PROVE  \/ /\ q.kind = "upload" /\ q.id \in Procs
                         /\ job'[q.id].kind = "upload" /\ job'[q.id].name = q.name
                         /\ "knowledge_base" \in collections
                      \/ q.kind = "seed" /\ "allowed_topics" \in collections
                      \/ /\ q.kind = "exception" /\ q.text \in Procs
                         /\ job'[q.text].kind = "exception"
    BY <1>3 DEF PointInv
  <2> QED
    BY <1>1, <1>7, <1>10 DEF PointInv
<1>15. CompleteInv'
  <2> SUFFICES ASSUME NEW o \in Procs, job'[o].name \notin deleted',
                      pc'[o] = "insert row" \/ \E row \in rows' : row.id = o
               PROVE  NewPoints(o)' \subseteq points
    BY <1>3 DEF CompleteInv, Complete
  <2>1. o # p
    <3>1. \A row \in rows' : row.id # p
      BY <1>1, <1>5, <1>10 DEF RowInv
    <3> QED
      BY <3>1, <1>8
  <2>2. pc[o] = "insert row" \/ \E row \in rows : row.id = o
    BY <2>1, <1>5, <1>8
  <2>3. job[o].name \notin deleted /\ NewPoints(o)' = NewPoints(o)
    BY <2>1, <1>5, <1>7 DEF NewPoints
  <2> QED
    BY <2>2, <2>3, <1>1 DEF CompleteInv, Complete
<1>16. NothingLeftBehind'
  <2> SUFFICES ASSUME ~failed', NEW q \in points, q.kind = "upload"
               PROVE  \/ \E row \in rows' : row.id = q.id
                      \/ pc'[q.id] = "insert row"
                      \/ \E o \in Procs : pc'[o] = "delete vectors" /\ job'[o].name = q.name
    BY <1>3 DEF NothingLeftBehind
  <2>1. q.id \in Procs /\ job[q.id].kind = "upload" /\ job[q.id].name = q.name
    BY <1>1 DEF PointInv
  <2>2. ~failed
    BY <1>9
  <2>3. CASE pc[q.id] = "insert row"
    BY <2>1, <2>3, <1>8, <1>10
  <2>4. ASSUME NEW o \in Procs, pc[o] = "delete vectors", job[o].name = q.name
        PROVE  pc'[o] = "delete vectors" /\ job'[o].name = q.name
    BY <2>4, <1>2, <1>7, <1>8
  <2>5. ASSUME NEW row \in rows, row.id = q.id
        PROVE  \/ row \in rows'
               \/ pc'[p] = "delete vectors" /\ job'[p].name = q.name
    <3>1. row.name = q.name
      BY <2>1, <2>5, <1>1 DEF RowInv
    <3> QED
      BY <3>1, <1>9
  <2> QED
    BY <2>2, <2>3, <2>4, <2>5, <1>1 DEF NothingLeftBehind
<1> QED
  BY <1>11, <1>12, <1>13, <1>14, <1>15, <1>16 DEF IInv

-----------------------------------------------------------------------------
(* Theorems *)

\* The stores are empty.
LEMMA Initially == Init => IInv
PROOF
<1> SUFFICES ASSUME Init
             PROVE  IInv
  OBVIOUS
<1>1. ProcInv
  <2>1. NoJob \in Jobs
    BY DEF Jobs
  <2>2. pc \in [Procs -> Steps] /\ job \in [Procs -> Jobs] /\ ensured \in [Procs -> 0 .. 2]
    BY <2>1 DEF Init, Steps
  <2>3. collections \subseteq Collections /\ failed \in BOOLEAN
    BY DEF Init
  <2> QED
    BY <2>2, <2>3 DEF ProcInv
<1>2. JobInv
  BY DEF Init, JobInv, Doing
<1>3. RowInv /\ PointInv /\ NothingLeftBehind
  BY DEF Init, RowInv, PointInv, NothingLeftBehind
<1>4. CompleteInv
  BY DEF Init, CompleteInv, Complete
<1> QED
  BY <1>1, <1>2, <1>3, <1>4 DEF IInv

\* A request of any kind begins with a job of its kind.
LEMMA RequestKeeps ==
    ASSUME IInv, NEW p \in Procs,
           \/ UploadDocument(p) \/ DeleteDocument(p)
           \/ Seed(p) \/ SeedAllowed(p) \/ AddException(p)
    PROVE  IInv'
PROOF
<1>1. CASE UploadDocument(p)
  <2>1. PICK org \in Orgs, name \in Names, length \in Lengths :
            Begin(p, [kind |-> "upload", org |-> org, name |-> name, length |-> length,
                      collection |-> "knowledge_base"], "get")
    BY <1>1 DEF UploadDocument
  <2> DEFINE j == [kind |-> "upload", org |-> org, name |-> name, length |-> length,
                   collection |-> "knowledge_base"]
  <2>2. j \in Jobs /\ j.kind = "upload"
    BY DEF Jobs, Uploads
  <2>3. j # NoJob
    BY <2>2, KindOfNoJob
  <2> HIDE DEF j
  <2> QED
    BY <2>1, <2>2, <2>3, BeginKeeps DEF j
<1>2. CASE DeleteDocument(p)
  <2>1. PICK org \in Orgs, id \in {row.id : row \in rows} :
            Begin(p, [kind |-> "delete", org |-> org, id |-> id, name |-> "",
                      collection |-> "knowledge_base"], "delete row")
    BY <1>2 DEF DeleteDocument
  <2> DEFINE j == [kind |-> "delete", org |-> org, id |-> id, name |-> "",
                   collection |-> "knowledge_base"]
  <2>2. id \in Procs
    BY DEF IInv, RowInv
  <2>3. j \in Jobs /\ j.kind = "delete"
    BY <2>2 DEF Jobs, Deletions
  <2>4. j # NoJob
    BY <2>3, KindOfNoJob
  <2> QED
    BY <2>1, <2>3, <2>4, BeginKeeps
<1>3. CASE Seed(p)
  <2> DEFINE j == [kind |-> "seed sectors", collection |-> "forbidden_sectors_semantic"]
  <2>1. j \in Jobs /\ j.kind = "seed sectors"
    BY DEF Jobs, Others
  <2>2. j # NoJob
    BY <2>1, KindOfNoJob
  <2> QED
    BY <1>3, <2>1, <2>2, BeginKeeps DEF Seed
<1>4. CASE SeedAllowed(p)
  <2> DEFINE j == [kind |-> "seed", collection |-> "allowed_topics"]
  <2>1. j \in Jobs /\ j.kind = "seed"
    BY DEF Jobs, Others
  <2>2. j # NoJob
    BY <2>1, KindOfNoJob
  <2> QED
    BY <1>4, <2>1, <2>2, BeginKeeps DEF SeedAllowed
<1>5. CASE AddException(p)
  <2> DEFINE j == [kind |-> "exception", collection |-> "allowed_exceptions"]
  <2>1. j \in Jobs /\ j.kind = "exception"
    BY DEF Jobs, Others
  <2>2. j # NoJob
    BY <2>1, KindOfNoJob
  <2> QED
    BY <1>5, <2>1, <2>2, BeginKeeps DEF AddException
<1> QED
  BY <1>1, <1>2, <1>3, <1>4, <1>5

\* The invariant holds in every state, whatever calls fail.
THEOREM Invariance == Spec => []IInv
PROOF
<1>1. IInv /\ [Next]_vars => IInv'
  <2> SUFFICES ASSUME IInv, [Next]_vars
               PROVE  IInv'
    OBVIOUS
  <2>1. ASSUME NEW p \in Procs,
               \/ UploadDocument(p) \/ DeleteDocument(p)
               \/ Seed(p) \/ SeedAllowed(p) \/ AddException(p)
        PROVE  IInv'
    BY <2>1, RequestKeeps
  <2>2. ASSUME NEW p \in Procs, GetCollection(p) \/ CreateCollection(p) \/ Upsert(p)
        PROVE  IInv'
    BY <2>2, PrepareKeeps, UpsertKeeps
  <2>3. ASSUME NEW p \in Procs, InsertRow(p) \/ DeleteRow(p) \/ DeleteVectors(p)
        PROVE  IInv'
    BY <2>3, InsertRowKeeps, DeleteRowKeeps, DeleteVectorsKeeps
  <2>4. CASE UNCHANGED vars
    <3>1. UNCHANGED <<pc, job, ensured, collections, points, rows, deleted, failed>>
      BY <2>4 DEF vars, stores, history
    <3>2. (ProcInv /\ JobInv /\ RowInv /\ PointInv /\ NothingLeftBehind)'
      BY <3>1 DEF IInv, ProcInv, JobInv, Doing, RowInv, PointInv, NothingLeftBehind
    <3>3. \A p \in Procs : NewPoints(p)' = NewPoints(p)
      BY <3>1 DEF NewPoints
    <3>4. CompleteInv'
      BY <3>1, <3>3 DEF IInv, CompleteInv, Complete
    <3> QED
      BY <3>2, <3>4 DEF IInv
  <2> QED
    BY <2>1, <2>2, <2>3, <2>4 DEF Next
<1> QED
  BY <1>1, Initially, PTL DEF Spec

\* Rows and vectors are what uploads, seeds and exceptions have made, in
\* collections there are (vector.go:84-134, guard.go:45-94).
THEOREM TypeCorrect == Spec => []TypeOK
PROOF
<1>1. IInv => TypeOK
  BY DEF IInv, ProcInv, RowInv, PointInv, TypeOK, Collections
<1> QED
  BY <1>1, Invariance, PTL

\* Every passage of a listed document, up to one rune longer than the overlap,
\* lies in one of its vectors, whatever calls fail, until a document of its name
\* is deleted: for documents of any length and chunks of any size
\* (vector.go:84-134, parser.go:52-71).
THEOREM Searchable == Spec => []ListedIsSearchable
PROOF
<1>1. IInv => ListedIsSearchable
  <2> SUFFICES ASSUME IInv, NEW row \in rows, row.name \notin deleted,
                      NEW start \in 0 .. job[row.id].length - 1
               PROVE  \E q \in points :
                          /\ q.kind = "upload" /\ q.id = row.id
                          /\ q.chunk.from <= start
                          /\ \/ start + ChunkOverlap < q.chunk.to
                             \/ q.chunk.to = job[row.id].length
    BY DEF ListedIsSearchable
  <2> DEFINE j == job[row.id]
  <2>1. row.id \in Procs /\ j.kind = "upload" /\ j.name = row.name
    BY DEF IInv, RowInv
  <2>2. j \in Uploads
    BY <2>1, KindsOfJobs DEF IInv, ProcInv
  <2>3. j.length \in Nat \ {0}
    BY <2>2, KnowledgeBaseAssumption DEF Uploads
  <2>4. PICK c \in ChunkText(j.length) :
            c.from <= start /\ (start + ChunkOverlap < c.to \/ c.to = j.length)
    BY <2>3, ChunksCover
  <2>5. NewPoints(row.id) \subseteq points
    BY <2>1 DEF IInv, CompleteInv, Complete
  <2> DEFINE q == [kind |-> "upload", id |-> row.id, org |-> j.org, name |-> j.name,
                   chunk |-> c]
  <2>6. q \in NewPoints(row.id)
    BY <2>1 DEF NewPoints
  <2>7. q.kind = "upload" /\ q.id = row.id /\ q.chunk = c
    OBVIOUS
  <2> HIDE DEF q
  <2> QED
    BY <2>4, <2>5, <2>6, <2>7
<1> QED
  BY <1>1, Invariance, PTL

\* As long as no call fails, vectors outlive their document's row only while
\* the handler is under way that deletes or has yet to write it
\* (vector.go:84-134, 169-181).
THEOREM NoVectorsLeftBehind == Spec => []NothingLeftBehind
PROOF
<1>1. IInv => NothingLeftBehind
  BY DEF IInv
<1> QED
  BY <1>1, Invariance, PTL
=============================================================================
