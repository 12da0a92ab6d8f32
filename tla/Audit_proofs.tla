---------------------------- MODULE Audit_proofs ----------------------------
(***************************************************************************)
(* Proofs about AuditChain and AuditRetention, for any number of handlers, *)
(* organizations and requests, any pool size and any bound on the clock.   *)
(*                                                                         *)
(* ChainLinked is not inductive by itself.  A row that is about to be      *)
(* committed is chained to what ReadPrevHash saw, so the strengthening     *)
(* says that what a handler has read or inserted is still the end of its   *)
(* log (ReadInv, PendingInv), which holds because the lock keeps the other *)
(* handlers of the organization out from the read to the commit (LockInv). *)
(* It is stated for a set T of organizations: all of them in AuditChain,   *)
(* in AuditRetention those whose rows nobody else has touched              *)
(* (UntouchedIInv).                                                        *)
(*                                                                         *)
(* For the others the history variables carry the argument (HistoryInv).   *)
(* Rows chain by hash to the row before them at the time of their insert,  *)
(* so a row that was taken out between two others shows (LinksFollow):     *)
(* what still is a chain and has the row just committed is the whole of    *)
(* what is left (WholeChain), which the commit records as a log that was   *)
(* (GenuineInv).                                                           *)
(***************************************************************************)
EXTENDS AuditRetention, FiniteSetTheorems, SequenceTheorems, WellFoundedInduction, TLAPS

\* The handler of an organization's lock: between AcquireOrgLock and EndTx.
Locked(w) == pc[w] \in {"read", "insert", "commit"}

LockInv == \A w \in Workers : Locked(w) => lock[meta[w].OrganizationID] = w

\* LogRequest works on whole microseconds.
TimestampInv == \A w \in Workers : pc[w] # "idle" => meta[w].Timestamp % 2 = 0

HasLast(S) == S = {} \/ \E r \in S : \A s \in S : s.id <= r.id

LastInv ==
    /\ \A o \in Orgs : HasLast(RowsOf(o))
    /\ \A r \in rows : HasLast(Before(r))

IdInv == \A r \in rows : r.id < nextId

FiniteInv == IsFiniteSet(rows)

\* T: the organizations whose rows LogRequest alone has written.
ReadInv(T) ==
    \A w \in Workers :
        pc[w] = "insert" /\ meta[w].OrganizationID \in T =>
            prevHash[w] = LastHash(RowsOf(meta[w].OrganizationID))

PendingInv(T) ==
    \A w \in Workers :
        pc[w] = "commit" =>
            LET p == pending[w]
            IN  /\ p.organization_id = meta[w].OrganizationID
                /\ p.organization_id \in T =>
                      p.previous_hash = LastHash(RowsOf(p.organization_id))
                /\ p.current_hash = CalculateHash(p.previous_hash, LogData(p))
                /\ p.id < nextId
                /\ \A r \in RowsOf(p.organization_id) : r.id < p.id

LinkedIn(T) ==
    \A r \in rows :
        r.organization_id \in T /\ r.current_hash # EmptyHash =>
            /\ r.previous_hash = LastHash(Before(r))
            /\ r.current_hash = CalculateHash(r.previous_hash, LogData(r))

IInv(T) ==
    /\ TypeOK
    /\ LockInv
    /\ TimestampInv
    /\ IdInv
    /\ FiniteInv
    /\ LastInv
    /\ ReadInv(T)
    /\ PendingInv(T)
    /\ LinkedIn(T)

-----------------------------------------------------------------------------
(***************************************************************************)
(* Lemmas about the helpers                                                *)
(***************************************************************************)

\* The maximum that LIMIT 1 returns is one of the rows, if there is a maximum.
LEMMA LastOfIsLast ==
    ASSUME NEW S, HasLast(S), S # {}
    PROVE  LastOf(S) \in S /\ \A s \in S : s.id <= LastOf(S).id
BY DEF HasLast, LastOf

\* The hash that ReadPrevHash chains to is a computed hash, never the empty one.
LEMMA LastHashType ==
    ASSUME NEW S \in SUBSET Row, HasLast(S)
    PROVE  LastHash(S) \in Seq(Data)
<1>1. CASE S = {}
  BY <1>1 DEF LastHash, GenesisHash
<1>2. CASE S # {}
  <2>1. LastOf(S) \in Row
    BY <1>2, LastOfIsLast
  <2>2. LastOf(S).current_hash \in Seq(Data) \cup {EmptyHash}
    BY <2>1 DEF Row, Hashes
  <2>. QED
    BY <2>2 DEF LastHash, GenesisHash
<1>. QED
  BY <1>1, <1>2

\* LogRequest truncates to whole microseconds ...
LEMMA TruncatedTimestamps ==
    ASSUME NEW t \in Nat
    PROVE  Truncate(t) \in Nat /\ Truncate(t) % 2 = 0
BY DEF Truncate

\* ... and of a whole microsecond Postgres stores what the hash is taken of.
LEMMA EvenTimestamps ==
    ASSUME NEW t \in Nat, t % 2 = 0
    PROVE  StoredMicro(t) = UnixMicro(t) /\ UnixMicro(t) \in Nat
BY DEF StoredMicro, UnixMicro

\* A report has the type of an IntegrityReport: among the broken rows there is
\* a first one, and the rows before it can be counted.
LEMMA VerifyIntegrityType ==
    ASSUME NEW o, rows \subseteq Row, IsFiniteSet(rows)
    PROVE  VerifyIntegrity(o) \in IntegrityReport
<1>1. \A S \in SUBSET rows : Cardinality(S) \in Nat
  BY FS_Subset, FS_CardinalityType
<1>2. RowsOf(o) \subseteq rows /\ \A r : Before(r) \subseteq rows
  BY DEF RowsOf, Before
<1>3. CASE BrokenRows(o) = {}
  BY <1>1, <1>2, <1>3 DEF VerifyIntegrity, IntegrityReport
<1>4. CASE BrokenRows(o) # {}
  <2>. DEFINE B == BrokenRows(o)
              ids == {r.id : r \in B}
              less == {ss \in Nat \X Nat : ss[1] < ss[2]}
              first == CHOOSE r \in B : \A s \in B : r.id <= s.id
  <2>1. B \subseteq Row
    BY DEF BrokenRows, RowsOf
  <2>2. ids \subseteq Nat /\ ids # {}
    BY <1>4, <2>1 DEF Row
  <2>3. PICK i \in ids : \A j \in ids : ~(<<j, i>> \in less)
    <3>1. IsWellFoundedOn(less, Nat)
      BY NatLessThanWellFounded DEF OpToRel
    <3>. HIDE DEF less, ids
    <3>. QED
      BY <2>2, <3>1, WFMin
  <2>4. \A j \in ids : i <= j
    <3>. SUFFICES ASSUME NEW j \in ids, ~(i <= j) PROVE FALSE
      OBVIOUS
    <3>1. i \in Nat /\ j \in Nat
      BY <2>2
    <3>2. <<j, i>> \in less
      BY <3>1
    <3>. QED
      BY <2>3, <3>2
  <2>5. \E r \in B : \A s \in B : r.id <= s.id
    BY <2>4
  <2>6. first \in B
    BY <2>5
  <2>7. VerifyIntegrity(o) = [Valid |-> FALSE, BrokenAtID |-> first.id,
                              TotalChecked |-> Cardinality(Before(first))]
    BY <1>4 DEF VerifyIntegrity
  <2>. QED
    BY <1>1, <1>2, <2>1, <2>6, <2>7 DEF IntegrityReport, Row
<1>. QED
  BY <1>3, <1>4

\* What is said of the table only holds on while the table does not change.
LEMMA TableFrame ==
    ASSUME NEW T, TypeOK, IdInv, FiniteInv, LastInv, LinkedIn(T),
           rows' = rows, nextId' \in {nextId, nextId + 1}
    PROVE  IdInv' /\ FiniteInv' /\ LastInv' /\ LinkedIn(T)'
<1>1. IdInv' /\ FiniteInv'
  BY DEF IdInv, FiniteInv, TypeOK, Row
<1>2. \A o : RowsOf(o)' = RowsOf(o)
  BY DEF RowsOf
<1>3. \A r \in rows : Before(r)' = Before(r)
  BY <1>2 DEF Before
<1>4. LastInv'
  BY <1>2, <1>3 DEF LastInv
<1>5. LinkedIn(T)'
  BY <1>3 DEF LinkedIn
<1>. QED
  BY <1>1, <1>4, <1>5

-----------------------------------------------------------------------------
(***************************************************************************)
(* The inductive invariant                                                 *)
(***************************************************************************)
LEMMA InitIInv ==
    ASSUME NEW T, Init
    PROVE  IInv(T)
<1>. USE DEF Init
<1>1. rows \subseteq Row /\ \A r \in rows : r.id < nextId
  BY DEF LegacyRow, Row, Hashes
<1>2. TypeOK
  BY <1>1 DEF TypeOK, GenesisHash, Metadata, NoMeta
<1>3. \A o : RowsOf(o) = {} \/ \E r \in RowsOf(o) : RowsOf(o) = {r}
  BY DEF RowsOf
<1>4. LastInv
  <2>1. \A o : HasLast(RowsOf(o))
    BY <1>1, <1>3 DEF HasLast, RowsOf, Row
  <2>2. \A r \in rows : Before(r) = {}
    BY <1>1 DEF Before, RowsOf, Row
  <2>. QED
    BY <2>1, <2>2 DEF LastInv, HasLast
<1>5. LinkedIn(T)
  BY DEF LinkedIn, LegacyRow
<1>6. FiniteInv
  BY FS_EmptySet, FS_Singleton DEF FiniteInv
<1>. QED
  BY <1>1, <1>2, <1>4, <1>5, <1>6
     DEF IInv, LockInv, Locked, TimestampInv, IdInv, ReadInv, PendingInv

\* EndTx(w) idles w and frees no lock that another handler needs.
LEMMA EndTxFrame ==
    ASSUME NEW T, IInv(T), NEW w \in Workers, pc[w] # "idle", EndTx(w)
    PROVE  /\ lock' \in [Orgs -> Workers \cup {None}]
           /\ pc' = [pc EXCEPT ![w] = "idle"]
           /\ meta' \in [Workers -> Metadata \cup {NoMeta}]
           /\ \A v \in Workers \ {w} : meta'[v] = meta[v] /\ pending'[v] = pending[v]
                                      /\ prevHash'[v] = prevHash[v]
           /\ prevHash' \in [Workers -> Seq(Data)]
           /\ pending' \in [Workers -> Row \cup {NoRow}]
           /\ forwarded' \subseteq [RequestID : Flagged, OrganizationID : Orgs]
           /\ LockInv'
           /\ TimestampInv'
<1>. USE DEF IInv, TypeOK, EndTx
<1>1. /\ lock' \in [Orgs -> Workers \cup {None}]
      /\ pc' = [pc EXCEPT ![w] = "idle"]
      /\ meta' \in [Workers -> Metadata \cup {NoMeta}]
      /\ \A v \in Workers \ {w} : meta'[v] = meta[v] /\ pending'[v] = pending[v]
                                 /\ prevHash'[v] = prevHash[v]
      /\ prevHash' \in [Workers -> Seq(Data)]
      /\ pending' \in [Workers -> Row \cup {NoRow}]
  BY DEF GenesisHash
<1>2. LockInv'
  <2>. SUFFICES ASSUME NEW v \in Workers, Locked(v)'
                PROVE  lock'[meta'[v].OrganizationID] = v
    BY DEF LockInv
  <2>1. v # w /\ Locked(v) /\ meta'[v] = meta[v] /\ pc[v] # "idle"
    BY DEF Locked
  <2>2. meta[v].OrganizationID \in Orgs
    BY <2>1 DEF Metadata
  <2>. QED
    BY <2>1, <2>2 DEF LockInv
<1>3. TimestampInv'
  BY <1>1 DEF TimestampInv
<1>4. forwarded' \subseteq [RequestID : Flagged, OrganizationID : Orgs]
  <2>1. meta[w].OrganizationID \in Orgs
    BY DEF Metadata
  <2>2. Forwarding(w) \subseteq [RequestID : Flagged, OrganizationID : Orgs]
    BY <2>1 DEF Forwarding
  <2>. QED
    BY <2>2
<1>. QED
  BY <1>1, <1>2, <1>3, <1>4

\* Whatever a handler logs is an entry of an organization.
LEMMA LogsEntries ==
    ASSUME TypeOK, NEW w \in Workers,
           \/ \E req \in Requests, o \in Orgs : Arrive(w, req, o)
           \/ \E f \in forwarded : LogResponse(w, f)
    PROVE  \E e \in Entries, o \in Orgs : Log(w, e, o)
<1>1. \A req \in Requests : <<req, "prompt">> \in Entries
  BY DEF Entries
<1>2. \A f \in forwarded : <<f.RequestID, "response">> \in Entries /\ f.OrganizationID \in Orgs
  BY DEF Entries, TypeOK
<1>. QED
  BY <1>1, <1>2 DEF Arrive, LogResponse

LEMMA StepIInv ==
    ASSUME NEW T, IInv(T), [Next]_vars
    PROVE  IInv(T)'
<1>. USE DEF IInv
<1>1. ASSUME NEW w \in Workers, NEW e \in Entries, NEW o \in Orgs, Log(w, e, o)
      PROVE  IInv(T)'
  <2>. USE <1>1 DEF Log
  <2>1. IdInv' /\ FiniteInv' /\ LastInv' /\ LinkedIn(T)'
    BY TableFrame DEF table
  <2>2. TypeOK'
    BY TruncatedTimestamps DEF TypeOK, table, Metadata
  <2>3. LockInv'
    BY DEF LockInv, Locked, TypeOK
  <2>4. TimestampInv'
    BY TruncatedTimestamps DEF TimestampInv, TypeOK
  <2>5. ReadInv(T)' /\ PendingInv(T)'
    BY DEF ReadInv, PendingInv, TypeOK, table, RowsOf
  <2>. QED
    BY <2>1, <2>2, <2>3, <2>4, <2>5
<1>2. ASSUME NEW w \in Workers, BeginTx(w)
      PROVE  IInv(T)'
  <2>. USE <1>2 DEF BeginTx
  <2>1. IdInv' /\ FiniteInv' /\ LastInv' /\ LinkedIn(T)'
    BY TableFrame DEF table
  <2>2. TypeOK'
    BY DEF TypeOK, table
  <2>3. LockInv' /\ TimestampInv'
    BY DEF LockInv, Locked, TypeOK, TimestampInv
  <2>4. ReadInv(T)' /\ PendingInv(T)'
    BY DEF ReadInv, PendingInv, TypeOK, table, RowsOf
  <2>. QED
    BY <2>1, <2>2, <2>3, <2>4
<1>3. ASSUME NEW w \in Workers, AcquireOrgLock(w)
      PROVE  IInv(T)'
  <2>. USE <1>3 DEF AcquireOrgLock
  <2>1. IdInv' /\ FiniteInv' /\ LastInv' /\ LinkedIn(T)'
    BY TableFrame DEF table
  <2>2. TypeOK'
    BY DEF TypeOK, table
  <2>3. LockInv'
    <3>1. meta[w].OrganizationID \in Orgs
      BY DEF TypeOK, Metadata
    <3>2. \A v \in Workers : Locked(v) => meta[v].OrganizationID # meta[w].OrganizationID
      BY NoneAssumption DEF LockInv
    <3>. QED
      BY <3>1, <3>2 DEF LockInv, Locked, TypeOK
  <2>4. TimestampInv' /\ ReadInv(T)' /\ PendingInv(T)'
    BY DEF TimestampInv, ReadInv, PendingInv, TypeOK, table, RowsOf
  <2>. QED
    BY <2>1, <2>2, <2>3, <2>4
<1>4. ASSUME NEW w \in Workers, ReadPrevHash(w)
      PROVE  IInv(T)'
  <2>. USE <1>4 DEF ReadPrevHash
  <2>1. IdInv' /\ FiniteInv' /\ LastInv' /\ LinkedIn(T)'
    BY TableFrame DEF table
  <2>2. LastHash(RowsOf(meta[w].OrganizationID)) \in Seq(Data)
    <3>1. meta[w].OrganizationID \in Orgs
      BY DEF TypeOK, Metadata
    <3>. QED
      BY <3>1, LastHashType DEF LastInv, TypeOK, RowsOf
  <2>3. TypeOK'
    BY <2>2 DEF TypeOK, table
  <2>4. LockInv' /\ TimestampInv'
    BY DEF LockInv, Locked, TypeOK, TimestampInv
  <2>5. ReadInv(T)' /\ PendingInv(T)'
    BY DEF ReadInv, PendingInv, TypeOK, table, RowsOf
  <2>. QED
    BY <2>1, <2>3, <2>4, <2>5
<1>5. ASSUME NEW w \in Workers, InsertRow(w)
      PROVE  IInv(T)'
  <2>. DEFINE m == meta[w]
              n == [id |-> nextId, organization_id |-> m.OrganizationID,
                    timestamp |-> StoredMicro(m.Timestamp), entry |-> m.Entry,
                    previous_hash |-> prevHash[w],
                    current_hash |-> CalculateHash(prevHash[w],
                       [Timestamp |-> UnixMicro(m.Timestamp), Entry |-> m.Entry])]
  <2>. USE <1>5 DEF InsertRow
  <2>1. IdInv' /\ FiniteInv' /\ LastInv' /\ LinkedIn(T)'
    BY TableFrame
  <2>2. m \in Metadata /\ m.Timestamp % 2 = 0 /\ m.Timestamp \in Nat
    BY DEF TypeOK, TimestampInv, Metadata
  <2>3. /\ StoredMicro(m.Timestamp) = UnixMicro(m.Timestamp)
        /\ UnixMicro(m.Timestamp) \in Nat
    BY <2>2, EvenTimestamps
  <2>4. n.current_hash = CalculateHash(n.previous_hash, LogData(n))
    BY <2>3 DEF LogData
  <2>5. n \in Row
    <3>1. [Timestamp |-> UnixMicro(m.Timestamp), Entry |-> m.Entry] \in Data
      BY <2>2, <2>3 DEF Data, Metadata
    <3>2. n.current_hash \in Seq(Data)
      BY <3>1 DEF CalculateHash, TypeOK
    <3>. QED
      BY <2>2, <2>3, <3>2 DEF Row, Hashes, TypeOK, Metadata
  <2>6. pending' = [pending EXCEPT ![w] = n]
    OBVIOUS
  <2>. HIDE DEF n
  <2>7. TypeOK'
    BY <2>5, <2>6 DEF TypeOK
  <2>8. LockInv' /\ TimestampInv'
    BY DEF LockInv, Locked, TypeOK, TimestampInv
  <2>9. ReadInv(T)'
    BY DEF ReadInv, TypeOK, RowsOf
  <2>10. PendingInv(T)'
    <3>. SUFFICES ASSUME NEW v \in Workers, pc'[v] = "commit"
                  PROVE  /\ pending'[v].organization_id = meta[v].OrganizationID
                         /\ pending'[v].organization_id \in T =>
                               pending'[v].previous_hash =
                                  LastHash(RowsOf(pending'[v].organization_id))
                         /\ pending'[v].current_hash =
                               CalculateHash(pending'[v].previous_hash, LogData(pending'[v]))
                         /\ pending'[v].id < nextId + 1
                         /\ \A r \in RowsOf(pending'[v].organization_id) : r.id < pending'[v].id
      BY DEF PendingInv, RowsOf
    <3>1. CASE v = w
      <4>1. pending'[v] = n
        BY <3>1, <2>6 DEF TypeOK
      <4>2. n.organization_id = m.OrganizationID /\ n.previous_hash = prevHash[w] /\ n.id = nextId
        BY DEF n
      <4>3. m.OrganizationID \in T => prevHash[w] = LastHash(RowsOf(m.OrganizationID))
        BY DEF ReadInv
      <4>4. \A r \in RowsOf(m.OrganizationID) : r.id < nextId
        BY DEF IdInv, RowsOf
      <4>. QED
        BY <2>4, <3>1, <4>1, <4>2, <4>3, <4>4 DEF TypeOK
    <3>2. CASE v # w
      <4>1. pending'[v] = pending[v] /\ pc[v] = "commit"
        BY <3>2, <2>6 DEF TypeOK
      <4>. QED
        BY <4>1 DEF PendingInv, TypeOK, Row
    <3>. QED
      BY <3>1, <3>2
  <2>. QED
    BY <2>1, <2>7, <2>8, <2>9, <2>10
<1>6. ASSUME NEW w \in Workers, CommitTx(w)
      PROVE  IInv(T)'
  <2>1. pending[w] \in Row
    BY <1>6 DEF CommitTx, TypeOK
  <2>. PICK n \in Row : n = pending[w]
    BY <2>1
  <2>. DEFINE org == n.organization_id
  <2>2. EndTx(w) /\ pc[w] = "commit" /\ rows' = rows \cup {n} /\ nextId' = nextId
    BY <1>6 DEF CommitTx
  <2>3. /\ org \in Orgs /\ meta[w].OrganizationID = org
        /\ org \in T => n.previous_hash = LastHash(RowsOf(org))
        /\ n.current_hash = CalculateHash(n.previous_hash, LogData(n))
        /\ n.id < nextId
        /\ \A r \in RowsOf(org) : r.id < n.id
    BY <2>2 DEF PendingInv, Row
  <2>4. RowsOf(org)' = RowsOf(org) \cup {n}
    BY <2>2 DEF RowsOf
  <2>5. \A o : o # org => RowsOf(o)' = RowsOf(o)
    BY <2>2 DEF RowsOf
  <2>6. ASSUME NEW r \in rows PROVE Before(r)' = Before(r)
    <3>1. CASE r.organization_id # org
      BY <2>5, <3>1 DEF Before
    <3>2. CASE r.organization_id = org
      <4>1. r.id \in Nat /\ n.id \in Nat /\ r.id < n.id
        BY <2>3, <3>2 DEF RowsOf, TypeOK, Row
      <4>2. ~(n.id < r.id)
        BY <4>1
      <4>. QED
        BY <2>4, <3>2, <4>2 DEF Before
    <3>. QED
      BY <3>1, <3>2
  <2>7. Before(n)' = RowsOf(org)
    BY <2>3, <2>4 DEF Before, Row, RowsOf, TypeOK
  <2>8. TypeOK'
    BY <1>6, <2>2, EndTxFrame DEF TypeOK, CommitTx
  <2>9. LockInv' /\ TimestampInv'
    BY <2>2, EndTxFrame
  <2>10. IdInv' /\ IsFiniteSet(rows')
    BY <2>2, <2>3, FS_AddElement DEF IdInv, FiniteInv
  <2>11. LastInv'
    <3>1. HasLast(RowsOf(org) \cup {n})
      <4>1. n.id \in Nat /\ \A r \in RowsOf(org) : r.id < n.id /\ r.id \in Nat
        BY <2>3 DEF Row, RowsOf, TypeOK
      <4>. QED
        BY <4>1 DEF HasLast
    <3>2. \A o \in Orgs : HasLast(RowsOf(o)')
      BY <2>4, <2>5, <3>1 DEF LastInv
    <3>3. \A r \in rows' : HasLast(Before(r)')
      BY <2>2, <2>3, <2>6, <2>7 DEF LastInv
    <3>. QED
      BY <3>2, <3>3 DEF LastInv
  <2>12. LinkedIn(T)'
    BY <2>2, <2>3, <2>6, <2>7 DEF LinkedIn, LogData
  <2>13. \A v \in Workers : pc'[v] # "idle" => v # w /\ pc'[v] = pc[v]
    BY <2>2, EndTxFrame DEF TypeOK
  <2>14. ASSUME NEW v \in Workers, v # w, pc[v] \in {"insert", "commit"}
         PROVE  meta[v].OrganizationID # org
    BY <2>2, <2>3, <2>14 DEF LockInv, Locked
  <2>15. ReadInv(T)'
    <3>. SUFFICES ASSUME NEW v \in Workers, pc'[v] = "insert", meta'[v].OrganizationID \in T
                  PROVE  (prevHash[v] = LastHash(RowsOf(meta[v].OrganizationID)))'
      BY DEF ReadInv
    <3>. PICK o : o = meta[v].OrganizationID
      OBVIOUS
    <3>1. v # w /\ pc[v] = "insert" /\ o # org
      BY <2>13, <2>14
    <3>2. meta'[v] = meta[v] /\ prevHash'[v] = prevHash[v]
      BY <2>2, <3>1, EndTxFrame
    <3>3. prevHash[v] = LastHash(RowsOf(o)) /\ RowsOf(o)' = RowsOf(o)
      BY <2>5, <3>1, <3>2 DEF ReadInv
    <3>. QED
      BY <3>2, <3>3
  <2>16. PendingInv(T)'
    <3>. SUFFICES ASSUME NEW v \in Workers, pc'[v] = "commit"
                  PROVE  (LET p == pending[v]
                          IN  /\ p.organization_id = meta[v].OrganizationID
                              /\ p.organization_id \in T =>
                                    p.previous_hash = LastHash(RowsOf(p.organization_id))
                              /\ p.current_hash = CalculateHash(p.previous_hash, LogData(p))
                              /\ p.id < nextId
                              /\ \A r \in RowsOf(p.organization_id) : r.id < p.id)'
      BY DEF PendingInv
    <3>. PICK p : p = pending[v]
      OBVIOUS
    <3>1. v # w /\ pc[v] = "commit"
      BY <2>13
    <3>2. meta'[v] = meta[v] /\ pending'[v] = p
      BY <2>2, <3>1, EndTxFrame
    <3>3. /\ p.organization_id = meta[v].OrganizationID
          /\ p.organization_id \in T =>
                p.previous_hash = LastHash(RowsOf(p.organization_id))
          /\ p.current_hash = CalculateHash(p.previous_hash, LogData(p))
          /\ p.id < nextId
          /\ \A r \in RowsOf(p.organization_id) : r.id < p.id
      BY <3>1 DEF PendingInv
    <3>4. RowsOf(p.organization_id)' = RowsOf(p.organization_id)
      BY <2>5, <2>14, <3>1, <3>3
    <3>. QED
      BY <2>2, <3>2, <3>3, <3>4 DEF LogData
  <2>. QED
    BY <2>8, <2>9, <2>10, <2>11, <2>12, <2>15, <2>16 DEF FiniteInv
<1>7. ASSUME NEW w \in Workers, Rollback(w)
      PROVE  IInv(T)'
  <2>. USE <1>7 DEF Rollback
  <2>1. IdInv' /\ FiniteInv' /\ LastInv' /\ LinkedIn(T)'
    BY TableFrame DEF table
  <2>2. EndTx(w) /\ pc[w] # "idle"
    BY DEF InTx
  <2>3. TypeOK'
    BY <2>2, EndTxFrame DEF TypeOK, table
  <2>4. LockInv' /\ TimestampInv'
    BY <2>2, EndTxFrame
  <2>5. \A v \in Workers : pc'[v] # "idle" => v # w /\ pc'[v] = pc[v]
    BY <2>2, EndTxFrame DEF TypeOK
  <2>6. \A v \in Workers : v # w =>
          meta'[v] = meta[v] /\ pending'[v] = pending[v] /\ prevHash'[v] = prevHash[v]
    BY <2>2, EndTxFrame
  <2>7. ReadInv(T)'
    BY <2>5, <2>6 DEF ReadInv, table, RowsOf
  <2>8. PendingInv(T)'
    <3>1. rows' = rows /\ nextId' = nextId /\ \A o : RowsOf(o)' = RowsOf(o)
      BY DEF table, RowsOf
    <3>. HIDE DEF Rollback, IInv
    <3>2. ASSUME NEW v \in Workers, pc'[v] = "commit"
          PROVE  pc[v] = "commit" /\ meta'[v] = meta[v] /\ pending'[v] = pending[v]
      BY <2>5, <2>6, <3>2
    <3>. QED
      BY <3>1, <3>2 DEF PendingInv, LogData, IInv
  <2>. QED
    BY <2>1, <2>3, <2>4, <2>7, <2>8
<1>8. ASSUME Crash
      PROVE  IInv(T)'
  <2>. USE <1>8 DEF Crash
  <2>1. IdInv' /\ FiniteInv' /\ LastInv' /\ LinkedIn(T)'
    BY TableFrame DEF table
  <2>2. TypeOK'
    BY DEF TypeOK, table, GenesisHash
  <2>3. LockInv' /\ TimestampInv' /\ ReadInv(T)' /\ PendingInv(T)'
    BY DEF LockInv, Locked, TimestampInv, ReadInv, PendingInv
  <2>. QED
    BY <2>1, <2>2, <2>3
<1>9. ASSUME NEW o \in Orgs, ServeIntegrityCheck(o)
      PROVE  IInv(T)'
  <2>. USE <1>9 DEF ServeIntegrityCheck, tx, table
  <2>1. IdInv' /\ FiniteInv' /\ LastInv' /\ LinkedIn(T)'
    BY TableFrame
  <2>2. VerifyIntegrity(o) \in IntegrityReport
    BY VerifyIntegrityType DEF FiniteInv, TypeOK
  <2>3. TypeOK'
    BY <2>2 DEF TypeOK
  <2>4. LockInv' /\ TimestampInv' /\ ReadInv(T)' /\ PendingInv(T)'
    BY DEF LockInv, Locked, TimestampInv, ReadInv, PendingInv, RowsOf
  <2>. QED
    BY <2>1, <2>3, <2>4
<1>10. ASSUME Tick
       PROVE  IInv(T)'
  <2>. USE <1>10 DEF Tick, tx, table
  <2>1. IdInv' /\ FiniteInv' /\ LastInv' /\ LinkedIn(T)'
    BY TableFrame
  <2>2. TypeOK'
    BY DEF TypeOK
  <2>3. LockInv' /\ TimestampInv' /\ ReadInv(T)' /\ PendingInv(T)'
    BY DEF LockInv, Locked, TimestampInv, ReadInv, PendingInv, RowsOf
  <2>. QED
    BY <2>1, <2>2, <2>3
<1>11. ASSUME UNCHANGED vars
       PROVE  IInv(T)'
  <2>. USE <1>11 DEF vars
  <2>1. IdInv' /\ FiniteInv' /\ LastInv' /\ LinkedIn(T)'
    BY TableFrame
  <2>2. TypeOK'
    BY DEF TypeOK
  <2>3. LockInv' /\ TimestampInv' /\ ReadInv(T)' /\ PendingInv(T)'
    BY DEF LockInv, Locked, TimestampInv, ReadInv, PendingInv, RowsOf
  <2>. QED
    BY <2>1, <2>2, <2>3
<1>. QED
  BY <1>1, <1>2, <1>3, <1>4, <1>5, <1>6, <1>7, <1>8, <1>9, <1>10, <1>11, LogsEntries
     DEF Next, LogRequest

\* A log that LogRequest alone has written verifies.
LEMMA UnbrokenLog ==
    ASSUME NEW T, IInv(T), NEW o \in T, ~Upgraded(o)
    PROVE  VerifyIntegrity(o).Valid
<1>1. \A r \in RowsOf(o) : RowVerifies(r)
  <2>. SUFFICES ASSUME NEW r \in RowsOf(o) PROVE RowVerifies(r)
    OBVIOUS
  <2>1. r \in rows /\ r.organization_id = o /\ r.current_hash # EmptyHash
    BY DEF RowsOf, Upgraded
  <2>2. /\ r.previous_hash = LastHash(Before(r))
        /\ r.current_hash = CalculateHash(r.previous_hash, LogData(r))
    BY <2>1 DEF IInv, LinkedIn
  <2>3. LastHash(Before(r)) = ExpectedPrevHash(r)
    <3>1. CASE Before(r) = {}
      BY <3>1 DEF LastHash, ExpectedPrevHash
    <3>2. CASE Before(r) # {}
      <4>1. LastOf(Before(r)) \in Before(r)
        BY <2>1, <3>2, LastOfIsLast DEF IInv, LastInv
      <4>2. LastOf(Before(r)).current_hash # EmptyHash
        BY <2>1, <4>1 DEF Before, Upgraded
      <4>. QED
        BY <3>2, <4>2 DEF LastHash, ExpectedPrevHash
    <3>. QED
      BY <3>1, <3>2
  <2>. QED
    BY <2>2, <2>3 DEF RowVerifies
<1>2. BrokenRows(o) = {}
  BY <1>1 DEF BrokenRows
<1>. QED
  BY <1>2 DEF VerifyIntegrity

-----------------------------------------------------------------------------
(***************************************************************************)
(* Theorems                                                                *)
(***************************************************************************)

\* The inductive invariant holds throughout.
THEOREM Invariance == Spec => []IInv(Orgs)
<1>1. Init => IInv(Orgs)
  BY InitIInv
<1>2. IInv(Orgs) /\ [Next]_vars => IInv(Orgs)'
  BY StepIInv
<1>. QED
  BY <1>1, <1>2, PTL DEF Spec

\* The table, the lock and the locals of every handler keep their types.
THEOREM TypeCorrect == Spec => []TypeOK
<1>1. IInv(Orgs) => TypeOK
  BY DEF IInv
<1>. QED
  BY <1>1, Invariance, PTL

\* LogRequest keeps one unbroken chain per organization, whatever its handlers,
\* failed transactions and crashes do.
THEOREM ChainNeverForks == Spec => []ChainLinked
<1>1. IInv(Orgs) => ChainLinked
  BY DEF IInv, TypeOK, Row, LinkedIn, ChainLinked
<1>. QED
  BY <1>1, Invariance, PTL

\* VerifyIntegrity accepts every log that LogRequest alone has written.
THEOREM HonestLogsVerify == Spec => []HonestLogVerifies
<1>1. IInv(Orgs) => HonestLogVerifies
  BY UnbrokenLog DEF HonestLogVerifies
<1>. QED
  BY <1>1, Invariance, PTL

\* Commits only ever append to the log of their organization.
THEOREM LogOnlyGrows == Spec => AppendOnly
<1>1. IInv(Orgs) /\ [Next]_vars =>
        [/\ rows \subseteq rows'
         /\ \A n \in rows' \ rows : \A r \in RowsOf(n.organization_id) : r.id < n.id]_vars
  <2>. SUFFICES ASSUME IInv(Orgs), [Next]_vars
                PROVE  /\ rows \subseteq rows'
                       /\ \A n \in rows' \ rows : \A r \in RowsOf(n.organization_id) : r.id < n.id
    OBVIOUS
  <2>1. \A w \in Workers : CommitTx(w) =>
          /\ rows' = rows \cup {pending[w]}
          /\ \A r \in RowsOf(pending[w].organization_id) : r.id < pending[w].id
    BY DEF CommitTx, IInv, PendingInv
  <2>2. rows' = rows \/ \E w \in Workers : CommitTx(w)
    BY DEF Next, LogRequest, Arrive, LogResponse, Log, BeginTx, AcquireOrgLock, ReadPrevHash, InsertRow,
           Rollback, Crash, ServeIntegrityCheck, Tick, table, vars
  <2>. QED
    BY <2>1, <2>2
<1>. QED
  BY <1>1, Invariance, PTL DEF Spec, AppendOnly

-----------------------------------------------------------------------------
(***************************************************************************)
(* First and last rows                                                     *)
(***************************************************************************)

\* Among rows there is one with the least id.
LEMMA LeastRow ==
    ASSUME NEW S, S # {}, \A r \in S : r.id \in Nat
    PROVE  \E r \in S : \A s \in S : r.id <= s.id
<1>. DEFINE ids == {r.id : r \in S}
            less == {ss \in Nat \X Nat : ss[1] < ss[2]}
<1>1. ids \subseteq Nat /\ ids # {}
  OBVIOUS
<1>2. PICK i \in ids : \A j \in ids : ~(<<j, i>> \in less)
  <2>1. IsWellFoundedOn(less, Nat)
    BY NatLessThanWellFounded DEF OpToRel
  <2>. HIDE DEF less, ids
  <2>. QED
    BY <1>1, <2>1, WFMin
<1>3. \A j \in ids : i <= j
  <2>. SUFFICES ASSUME NEW j \in ids, ~(i <= j) PROVE FALSE
    OBVIOUS
  <2>1. i \in Nat /\ j \in Nat
    BY <1>1
  <2>2. <<j, i>> \in less
    BY <2>1
  <2>. QED
    BY <1>2, <2>2
<1>. QED
  BY <1>3

\* Among rows with bounded ids there is one with the greatest.
LEMMA BoundedHasLast ==
    ASSUME NEW S, NEW n \in Nat, \A r \in S : r.id \in Nat /\ r.id < n
    PROVE  HasLast(S)
<1>. SUFFICES ASSUME S # {} PROVE \E r \in S : \A s \in S : s.id <= r.id
  BY DEF HasLast
<1>. DEFINE above == {[id |-> n - r.id] : r \in S}
<1>1. above # {} /\ \A a \in above : a.id \in Nat
  <2>1. \A r \in S : n - r.id \in Nat
    <3>. TAKE r \in S
    <3>1. r.id \in Nat /\ r.id < n
      OBVIOUS
    <3>. QED
      BY <3>1
  <2>2. \A a \in above : \E r \in S : a.id = n - r.id
    OBVIOUS
  <2>3. above # {}
    OBVIOUS
  <2>. HIDE DEF above
  <2>. QED
    BY <2>1, <2>2, <2>3
<1>2. PICK a \in above : \A b \in above : a.id <= b.id
  BY <1>1, LeastRow
<1>3. PICK r \in S : a = [id |-> n - r.id]
  OBVIOUS
<1>4. ASSUME NEW s \in S PROVE s.id <= r.id
  <2>1. PICK b \in above : b = [id |-> n - s.id]
    OBVIOUS
  <2>2. a.id <= b.id
    BY <1>2
  <2>3. a.id = n - r.id /\ b.id = n - s.id
    BY <1>3, <2>1
  <2>. QED
    BY <2>2, <2>3
<1>. QED
  BY <1>4

-----------------------------------------------------------------------------
(***************************************************************************)
(* Untouched logs                                                          *)
(***************************************************************************)

\* A change of the table by other hands than LogRequest's leaves the invariant
\* to the organizations U it did not concern.
LEMMA ForeignHands ==
    ASSUME NEW T, NEW U, IInv(T), U \subseteq T,
           UNCHANGED Unrelated,
           rows' \subseteq Row, IsFiniteSet(rows'),
           \A r \in rows' : \E s \in rows : s.id = r.id /\ s.organization_id = r.organization_id,
           \/ \A o \in U : RowsOf(o)' = RowsOf(o)
           \/ rows' = {} /\ \A w \in Workers : pc[w] \notin {"insert", "commit"}
    PROVE  IInv(U)'
<1>1. UNCHANGED <<now, unused, forwarded, nextId, lock, pc, meta, prevHash, pending, report>>
  BY DEF Unrelated, tx
<1>2. TypeOK /\ LockInv /\ TimestampInv /\ IdInv /\ ReadInv(T) /\ PendingInv(T) /\ LinkedIn(T)
  BY DEF IInv
<1>3. TypeOK'
  BY <1>1, <1>2 DEF TypeOK
<1>4. LockInv' /\ TimestampInv'
  BY <1>1, <1>2 DEF LockInv, Locked, TimestampInv
<1>5. IdInv' /\ FiniteInv'
  BY <1>1, <1>2 DEF IdInv, FiniteInv
<1>6. LastInv'
  <2>1. \A r \in rows' : r.id \in Nat /\ r.id < nextId'
    BY <1>5 DEF IdInv, Row
  <2>2. \A S \in SUBSET rows' : HasLast(S)
    BY <2>1, <1>3, BoundedHasLast DEF TypeOK
  <2>3. \A o : RowsOf(o)' \subseteq rows'
    BY DEF RowsOf
  <2>4. \A r : Before(r)' \subseteq rows'
    BY DEF Before, RowsOf
  <2>. QED
    BY <2>2, <2>3, <2>4 DEF LastInv
<1>7. ASSUME NEW o \in U, NEW w \in Workers, meta[w].OrganizationID = o,
             pc[w] \in {"insert", "commit"}
      PROVE  RowsOf(o)' = RowsOf(o)
  BY <1>7
<1>8. ReadInv(U)'
  <2>. SUFFICES ASSUME NEW w \in Workers, pc[w] = "insert",
                       NEW o \in U, o = meta[w].OrganizationID
                PROVE  prevHash[w] = LastHash(RowsOf(o)')
    BY <1>1 DEF ReadInv
  <2>1. RowsOf(o)' = RowsOf(o)
    BY <1>7
  <2>2. prevHash[w] = LastHash(RowsOf(o))
    BY <1>2 DEF ReadInv
  <2>. QED
    BY <2>1, <2>2
<1>9. PendingInv(U)'
  <2>. SUFFICES ASSUME NEW w \in Workers, pc[w] = "commit",
                       NEW p, p = pending[w]
                PROVE  /\ p.organization_id = meta[w].OrganizationID
                       /\ p.organization_id \in U =>
                             p.previous_hash = LastHash(RowsOf(p.organization_id)')
                       /\ p.current_hash = CalculateHash(p.previous_hash, LogData(p))
                       /\ p.id < nextId
                       /\ \A r \in RowsOf(p.organization_id)' : r.id < p.id
    BY <1>1 DEF PendingInv, LogData
  <2>1. /\ p.organization_id = meta[w].OrganizationID
        /\ p.organization_id \in T =>
              p.previous_hash = LastHash(RowsOf(p.organization_id))
        /\ p.current_hash = CalculateHash(p.previous_hash, LogData(p))
        /\ p.id < nextId
        /\ \A r \in RowsOf(p.organization_id) : r.id < p.id
    BY <1>2 DEF PendingInv
  <2>2. p.organization_id \in U => RowsOf(p.organization_id)' = RowsOf(p.organization_id)
    BY <2>1, <1>7
  <2>3. \A r \in RowsOf(p.organization_id)' : r.id < p.id
    BY <2>1 DEF RowsOf
  <2>. QED
    BY <2>1, <2>2, <2>3
<1>10. LinkedIn(U)'
  <2>. SUFFICES ASSUME NEW r \in rows', r.organization_id \in U, r.current_hash # EmptyHash
                PROVE  /\ r.previous_hash = LastHash(Before(r)')
                       /\ r.current_hash = CalculateHash(r.previous_hash, LogData(r))
    BY DEF LinkedIn
  <2>1. RowsOf(r.organization_id)' = RowsOf(r.organization_id)
    OBVIOUS
  <2>2. r \in rows /\ Before(r)' = Before(r)
    BY <2>1 DEF RowsOf, Before
  <2>. QED
    BY <2>2, <1>2 DEF LinkedIn
<1>. QED
  BY <1>3, <1>4, <1>5, <1>6, <1>8, <1>9, <1>10 DEF IInv

\* An edited row is a row, with its id and its organization.
LEMMA EditedRows ==
    ASSUME TypeOK, LastInv, NEW r \in rows, NEW s \in Edited(r)
    PROVE  s \in Row /\ s.id = r.id /\ s.organization_id = r.organization_id
<1>1. r \in Row /\ \A x \in rows : x \in Row /\ x.timestamp \in Nat
  BY DEF TypeOK, Row
<1>2. PICK t \in {x.timestamp : x \in rows}, e \in Entries,
           p \in {r.previous_hash, ExpectedPrevHash(r)} \ {EmptyHash} :
              s \in Changed(r, t, e, p)
  BY DEF Edited
<1>3. PICK c \in {r.current_hash, CalculateHash(p, [Timestamp |-> t, Entry |-> e])} :
         s = [r EXCEPT !.timestamp = t, !.entry = e, !.previous_hash = p,
                       !.current_hash = c]
  BY <1>2 DEF Changed
<1>4. t \in Nat /\ [Timestamp |-> t, Entry |-> e] \in Data
  BY <1>1 DEF Data
<1>5. p \in Seq(Data)
  <2>1. r.previous_hash \in Hashes
    BY <1>1 DEF Row
  <2>2. ExpectedPrevHash(r) \in Hashes
    <3>1. CASE Before(r) = {}
      BY <3>1 DEF ExpectedPrevHash, Hashes, GenesisHash
    <3>2. CASE Before(r) # {}
      <4>1. LastOf(Before(r)) \in Before(r)
        BY <3>2, LastOfIsLast DEF LastInv
      <4>2. LastOf(Before(r)) \in Row
        BY <1>1, <4>1 DEF Before, RowsOf
      <4>. QED
        BY <3>2, <4>2 DEF ExpectedPrevHash, Row
    <3>. QED
      BY <3>1, <3>2
  <2>. QED
    BY <2>1, <2>2 DEF Hashes
<1>6. p \in Hashes /\ c \in Hashes
  <2>1. CalculateHash(p, [Timestamp |-> t, Entry |-> e]) \in Seq(Data)
    BY <1>4, <1>5, AppendProperties DEF CalculateHash
  <2>. QED
    BY <1>1, <1>5, <2>1 DEF Hashes, Row
<1>. QED
  BY <1>1, <1>3, <1>4, <1>6 DEF Row

\* What TamperNext does to the table when LogRequest does not act.
LEMMA TamperedTable ==
    ASSUME NEW T, T = Orgs \ touched, IInv(T), TamperNext, ~Serve
    PROVE  /\ UNCHANGED <<Unrelated, written, snapshots>>
           /\ touched \subseteq touched'
           /\ rows' \subseteq Row /\ IsFiniteSet(rows')
           /\ \A r \in rows' : \E s \in rows :
                 /\ s.id = r.id /\ s.organization_id = r.organization_id
                 /\ r.organization_id \notin forged' => s.current_hash = r.current_hash
           /\ forged \subseteq forged'
           /\ \/ \A o \in Orgs \ touched' : RowsOf(o)' = RowsOf(o)
              \/ rows' = {} /\ \A w \in Workers : pc[w] \notin {"insert", "commit"}
<1>1. rows \subseteq Row /\ IsFiniteSet(rows)
  BY DEF IInv, TypeOK, FiniteInv
<1>2. CASE \E o \in Orgs : DeleteOldAuditLogs(o)
  <2>1. PICK o \in Orgs : /\ rows' = rows \ {r \in RowsOf(o) : 2 * r.timestamp + Retention < now}
                          /\ Touch(o) /\ forged' = forged
    BY <1>2 DEF DeleteOldAuditLogs
  <2>2. rows' \subseteq rows /\ \A q \in Orgs \ {o} : RowsOf(q)' = RowsOf(q)
    BY <2>1 DEF RowsOf
  <2>. QED
    BY <2>1, <2>2, <1>1, FS_Subset DEF Touch
<1>3. CASE TruncateLogs
  <2>1. rows' = {} /\ \A w \in Workers : pc[w] \notin {"insert", "commit"}
    BY <1>3 DEF TruncateLogs
  <2>. QED
    BY <2>1, <1>3, FS_EmptySet DEF TruncateLogs, history
<1>4. ASSUME NEW r \in rows, EraseRow(r)
      PROVE  /\ rows' \subseteq rows /\ Touch(r.organization_id) /\ forged' = forged
             /\ \A q \in Orgs \ {r.organization_id} : RowsOf(q)' = RowsOf(q)
  BY <1>4 DEF EraseRow, RowsOf
<1>5. CASE \E r \in rows : EraseRow(r)
  BY <1>1, <1>4, <1>5, FS_Subset DEF Touch
<1>6. CASE \E r \in rows : \E s \in Edited(r) : EditRow(r, s)
  <2>1. PICK r \in rows : \E s \in Edited(r) : EditRow(r, s)
    BY <1>6
  <2>2. PICK e \in Edited(r) : EditRow(r, e)
    BY <2>1
  <2>3. e \in Row /\ e.id = r.id /\ e.organization_id = r.organization_id
    BY <2>1, <2>2, EditedRows DEF IInv
  <2>4. /\ rows' = (rows \ {r}) \cup {e} /\ Touch(r.organization_id)
        /\ forged' = IF e.current_hash = r.current_hash THEN forged
                     ELSE forged \cup {r.organization_id}
    BY <2>2 DEF EditRow
  <2>5. rows' \subseteq Row /\ IsFiniteSet(rows')
    BY <1>1, <2>3, <2>4, FS_Subset, FS_AddElement
  <2>6. \A q \in Orgs \ {r.organization_id} : RowsOf(q)' = RowsOf(q)
    BY <2>3, <2>4 DEF RowsOf
  <2>7. \A x \in rows' : \E s \in rows :
                 /\ s.id = x.id /\ s.organization_id = x.organization_id
                 /\ x.organization_id \notin forged' => s.current_hash = x.current_hash
    BY <2>3, <2>4
  <2>. QED
    BY <2>4, <2>5, <2>6, <2>7 DEF Touch
<1>. QED
  BY <1>2, <1>3, <1>5, <1>6 DEF TamperNext, RetentionNext

\* The inductive invariant of AuditChain, for the organizations left alone.
UntouchedIInv == \E T : T = Orgs \ touched /\ IInv(T)

\* It is kept by every step, of LogRequest and of others.
LEMMA StepUntouched ==
    ASSUME UntouchedIInv, [TamperNext]_allVars
    PROVE  UntouchedIInv'
<1>. PICK T : T = Orgs \ touched /\ IInv(T)
  BY DEF UntouchedIInv
<1>1. CASE Serve \/ UNCHANGED allVars
  <2>1. [Next]_vars /\ UNCHANGED touched
    BY <1>1 DEF Serve, allVars, history
  <2>2. IInv(T)'
    BY <2>1, StepIInv
  <2>. QED
    BY <2>1, <2>2 DEF UntouchedIInv
<1>2. CASE TamperNext /\ ~Serve
  <2>. PICK U : U = Orgs \ touched'
    OBVIOUS
  <2>1. U \subseteq T
    BY <1>2, TamperedTable
  <2>2. IInv(U)'
    BY <1>2, <2>1, TamperedTable, ForeignHands
  <2>. QED
    BY <2>2 DEF UntouchedIInv
<1>. QED
  BY <1>1, <1>2

\* Whoever's rows are flushed, erased or edited, and whenever the reset tool
\* empties the table, the logs of the other organizations verify.
THEOREM UntouchedLogsVerify == TamperSpec => []UntouchedLogVerifies
<1>1. RetentionInit => UntouchedIInv
  BY InitIInv DEF RetentionInit, UntouchedIInv
<1>2. UntouchedIInv /\ [TamperNext]_allVars => UntouchedIInv'
  BY StepUntouched
<1>3. UntouchedIInv => UntouchedLogVerifies
  BY UnbrokenLog DEF UntouchedIInv, UntouchedLogVerifies
<1>. QED
  BY <1>1, <1>2, <1>3, PTL DEF TamperSpec

-----------------------------------------------------------------------------
(***************************************************************************)
(* Valid logs are genuine: the invariant                                   *)
(***************************************************************************)

\* The hashed rows that are left of a log, as LogRequest wrote them.
Links(o) == Hashed(AsWritten(o))

WellLinked(r) ==
    /\ r.previous_hash \in Seq(Data) /\ LogData(r) \in Data
    /\ r.current_hash = CalculateHash(r.previous_hash, LogData(r))

\* Nothing that was ever committed shares its id with another row, or its
\* request with another hashed row; rows from before the hash columns come first.
WrittenInv ==
    /\ written \subseteq Row
    /\ \A r \in written : r.id < nextId
    /\ \A r, s \in written : r.id = s.id => r = s
    /\ \A r, s \in Hashed(written) : r.entry = s.entry => r = s
    /\ \A r \in Hashed(written) : WellLinked(r) /\ r.entry \notin unused
    /\ \A u \in written : u.current_hash = EmptyHash =>
          u.previous_hash = EmptyHash /\ \A r \in written : u.id <= r.id

\* The row r was s when it was written, whatever it has been edited to.
Was(r, s) ==
    /\ r.id = s.id /\ r.organization_id = s.organization_id
    /\ r.organization_id \notin forged => r.current_hash = s.current_hash

PresentInv == \A r \in rows : \E s \in written : Was(r, s)

\* A request under way is logged by one handler and by no row yet.
EntryInv ==
    \A w \in Workers : pc[w] # "idle" =>
        /\ meta[w].Entry \notin unused
        /\ \A r \in Hashed(written) : r.entry # meta[w].Entry
        /\ \A v \in Workers : pc[v] # "idle" /\ meta[v].Entry = meta[w].Entry => v = w

\* An inserted row is new, and comes after all that was written of its log.
InsertedInv ==
    \A w \in Workers : pc[w] = "commit" =>
        /\ WellLinked(pending[w]) /\ pending[w].entry = meta[w].Entry
        /\ \A v \in Workers : pc[v] = "commit" /\ pending[v].id = pending[w].id => v = w
        /\ \A r \in written :
              /\ r.id # pending[w].id
              /\ r.organization_id = meta[w].OrganizationID \/ r.current_hash = EmptyHash =>
                    r.id < pending[w].id

\* h is the hash of the row before the id n in the log L, or of a row of W that
\* came after that one and is gone.
FollowsIn(W, L, h, n) ==
    \/ h = GenesisHash /\ \A x \in L : n <= x.id
    \/ \E y \in W :
          /\ y.current_hash = h /\ y.id < n
          /\ \A x \in L : x.id <= y.id \/ n <= x.id

Follows(o, h, n) == FollowsIn(Hashed(written), Links(o), h, n)

LinksFollow ==
    \A o \in Orgs \ forged : \A r \in Links(o) : Follows(o, r.previous_hash, r.id)

ReadFollows ==
    \A w \in Workers : pc[w] = "insert" /\ meta[w].OrganizationID \notin forged =>
        Follows(meta[w].OrganizationID, prevHash[w], nextId)

PendingFollows ==
    \A w \in Workers : pc[w] = "commit" /\ meta[w].OrganizationID \notin forged =>
        Follows(meta[w].OrganizationID, pending[w].previous_hash, pending[w].id)

\* Rows that are linked each to the one before it.
Chained(C) ==
    \A r \in C :
        LET before == {p \in C : p.id < r.id}
        IN  r.previous_hash = IF before = {} THEN GenesisHash ELSE LastOf(before).current_hash

\* Whatever rows are taken out of a log, what still is a chain is a log that was.
GenuineInv ==
    \A o \in Orgs \ forged : \A C \in SUBSET Links(o) :
        Chained(C) => DataOf(C) \in snapshots[o]

HistoryInv ==
    /\ WrittenInv
    /\ PresentInv
    /\ EntryInv
    /\ InsertedInv
    /\ LinksFollow
    /\ ReadFollows
    /\ PendingFollows
    /\ GenuineInv

\* A handler has not moved, or has dropped out.
Kept(w) ==
    pc'[w] # "idle" =>
        /\ pc[w] # "idle" /\ meta'[w] = meta[w]
        /\ pc'[w] = "insert" => pc[w] = "insert" /\ prevHash'[w] = prevHash[w]
        /\ pc'[w] = "commit" => pc[w] = "commit" /\ pending'[w] = pending[w]

\* No row is written; at most the log shrinks.
NothingWritten ==
    /\ written' = written /\ forged \subseteq forged'
    /\ \A o \in Orgs : Links(o)' \subseteq Links(o) /\ snapshots'[o] = snapshots[o]

-----------------------------------------------------------------------------
(***************************************************************************)
(* Valid logs are genuine: the steps                                       *)
(***************************************************************************)
\* What follows a row still does when rows are taken away.
LEMMA FollowsFrame ==
    ASSUME NEW o, NEW h, NEW n, Follows(o, h, n),
           Links(o)' \subseteq Links(o), written \subseteq written'
    PROVE  Follows(o, h, n)'
<1>1. Hashed(written) \subseteq Hashed(written)'
  BY DEF Hashed
<1>2. CASE h = GenesisHash /\ \A x \in Links(o) : n <= x.id
  BY <1>2 DEF Follows, FollowsIn, GenesisHash
<1>3. CASE \E y \in Hashed(written) :
              /\ y.current_hash = h /\ y.id < n
              /\ \A x \in Links(o) : x.id <= y.id \/ n <= x.id
  BY <1>1, <1>3 DEF Follows, FollowsIn
<1>. QED
  BY <1>2, <1>3 DEF Follows, FollowsIn

\* What is said of what was written holds on while nothing is written.
LEMMA HistoryFrame ==
    ASSUME TypeOK, WrittenInv, LinksFollow, GenuineInv, NothingWritten,
           nextId' \in {nextId, nextId + 1}, unused' \subseteq unused
    PROVE  WrittenInv' /\ LinksFollow' /\ GenuineInv'
<1>1. WrittenInv'
  <2>1. \A r \in written : r.id < nextId'
    BY DEF WrittenInv, TypeOK, Row
  <2>2. Hashed(written)' = Hashed(written)
    BY DEF NothingWritten, Hashed
  <2>3. \A r \in Hashed(written)' : WellLinked(r)' /\ r.entry \notin unused'
    BY <2>2 DEF WrittenInv, WellLinked, LogData
  <2>. QED
    BY <2>1, <2>2, <2>3 DEF WrittenInv, NothingWritten
<1>2. LinksFollow'
  BY FollowsFrame DEF LinksFollow, NothingWritten
<1>3. GenuineInv'
  BY DEF GenuineInv, NothingWritten, Chained, LastOf
<1>. QED
  BY <1>1, <1>2, <1>3

\* A step that writes nothing, draws nothing and moves no handler forward.
LEMMA CalmStep ==
    ASSUME TypeOK, HistoryInv, NothingWritten, PresentInv',
           UNCHANGED <<unused, nextId>>, \A w \in Workers : Kept(w)
    PROVE  HistoryInv'
<1>1. WrittenInv' /\ LinksFollow' /\ GenuineInv'
  BY HistoryFrame DEF HistoryInv
<1>2. EntryInv'
  BY DEF EntryInv, HistoryInv, Kept, NothingWritten, Hashed
<1>3. InsertedInv'
  BY DEF InsertedInv, HistoryInv, Kept, NothingWritten, WellLinked, LogData
<1>4. ReadFollows'
  <2>. SUFFICES ASSUME NEW w \in Workers, pc'[w] = "insert",
                       NEW o, o = meta[w].OrganizationID, o \notin forged, NEW h, h = prevHash[w],
                       NEW n, n = nextId
                PROVE  Follows(o, h, n)'
    BY DEF ReadFollows, Kept, NothingWritten
  <2>1. o \in Orgs /\ Follows(o, h, n)
    BY DEF HistoryInv, ReadFollows, Kept, TypeOK, Metadata
  <2>. QED
    BY <2>1, FollowsFrame DEF NothingWritten
<1>5. PendingFollows'
  <2>. SUFFICES ASSUME NEW w \in Workers, pc'[w] = "commit",
                       NEW o, o = meta[w].OrganizationID, o \notin forged, NEW p, p = pending[w]
                PROVE  Follows(o, p.previous_hash, p.id)'
    BY DEF PendingFollows, Kept, NothingWritten
  <2>1. o \in Orgs /\ Follows(o, p.previous_hash, p.id)
    BY DEF HistoryInv, PendingFollows, Kept, TypeOK, Metadata
  <2>. QED
    BY <2>1, FollowsFrame DEF NothingWritten
<1>. QED
  BY <1>1, <1>2, <1>3, <1>4, <1>5 DEF HistoryInv

\* Without a commit, Serve writes nothing.
LEMMA ServeQuiet ==
    ASSUME Serve, rows' = rows, PresentInv
    PROVE  /\ NothingWritten /\ PresentInv'
           /\ \A o : RowsOf(o)' = RowsOf(o) /\ Links(o)' = Links(o)
<1>1. /\ written' = written /\ forged' = forged
      /\ \A o \in Orgs : snapshots'[o] = snapshots[o]
  BY DEF Serve
<1>2. \A o : RowsOf(o)' = RowsOf(o)
  BY DEF RowsOf
<1>3. \A o : Links(o)' = Links(o)
  BY <1>1, <1>2 DEF Links, AsWritten, Hashed
<1>4. PresentInv'
  BY <1>1 DEF PresentInv, Was
<1>. QED
  BY <1>1, <1>2, <1>3, <1>4 DEF NothingWritten

\* The steps of the server at which no handler moves forward ...
LEMMA ServeCalm ==
    ASSUME TypeOK, HistoryInv, Serve,
           \/ \E w \in Workers : BeginTx(w) \/ AcquireOrgLock(w) \/ Rollback(w)
           \/ \E o \in Orgs : ServeIntegrityCheck(o)
           \/ Crash
           \/ Tick
    PROVE  HistoryInv'
<1>1. UNCHANGED <<unused, rows, nextId>>
  BY DEF BeginTx, AcquireOrgLock, Rollback, ServeIntegrityCheck, Crash, Tick, table
<1>2. \A v \in Workers : Kept(v)
  <2>1. ASSUME NEW w \in Workers, BeginTx(w) \/ AcquireOrgLock(w), NEW v \in Workers
        PROVE  Kept(v)
    <3>1. meta' = meta /\ prevHash' = prevHash /\ pending' = pending
      BY <2>1 DEF BeginTx, AcquireOrgLock
    <3>2. pc'[v] = pc[v] \/ (pc[v] # "idle" /\ pc'[v] \in {"lock", "read"})
      <4>1. /\ pc[w] \in {"begin", "lock"}
            /\ pc' = [pc EXCEPT ![w] = "lock"] \/ pc' = [pc EXCEPT ![w] = "read"]
        BY <2>1 DEF BeginTx, AcquireOrgLock
      <4>. QED
        BY <4>1 DEF TypeOK
    <3>. QED
      BY <3>1, <3>2 DEF Kept
  <2>2. ASSUME NEW w \in Workers, Rollback(w), NEW v \in Workers
        PROVE  Kept(v)
    BY <2>2 DEF Rollback, EndTx, Kept, TypeOK
  <2>3. ASSUME Crash, NEW v \in Workers PROVE Kept(v)
    BY <2>3 DEF Crash, Kept
  <2>4. ASSUME Tick \/ \E o \in Orgs : ServeIntegrityCheck(o), NEW v \in Workers
        PROVE  Kept(v)
    BY <2>4 DEF Tick, ServeIntegrityCheck, tx, Kept
  <2>. QED
    BY <2>1, <2>2, <2>3, <2>4
<1>. QED
  BY <1>1, <1>2, ServeQuiet, CalmStep DEF HistoryInv

\* ... a handler that takes up an entry of its own ...
LEMMA ServeArrival ==
    ASSUME TypeOK, HistoryInv, Serve,
           NEW w \in Workers, NEW e \in Entries, NEW org \in Orgs, Log(w, e, org)
    PROVE  HistoryInv'
<1>1. /\ pc[w] = "idle" /\ e \in unused /\ unused' = unused \ {e}
      /\ rows' = rows /\ nextId' = nextId
      /\ prevHash' = prevHash /\ pending' = pending
  BY DEF Log, table
<1>2. pc'[w] = "begin" /\ meta'[w].Entry = e
  BY DEF Log, TypeOK
<1>3. \A v \in Workers \ {w} : pc'[v] = pc[v] /\ meta'[v] = meta[v]
  BY DEF Log, TypeOK
<1>4. NothingWritten /\ PresentInv' /\ \A o : Links(o)' = Links(o)
  BY <1>1, ServeQuiet DEF HistoryInv
<1>5. WrittenInv' /\ LinksFollow' /\ GenuineInv'
  BY <1>1, <1>4, HistoryFrame DEF HistoryInv
<1>6. Hashed(written)' = Hashed(written) /\ written' = written
  BY <1>4 DEF NothingWritten, Hashed
<1>7. EntryInv'
  <2>1. \A r \in Hashed(written) : r.entry # e
    BY <1>1 DEF HistoryInv, WrittenInv
  <2>2. \A v \in Workers : pc[v] # "idle" => meta[v].Entry # e
    BY <1>1 DEF HistoryInv, EntryInv
  <2>. QED
    BY <1>1, <1>2, <1>3, <1>6, <2>1, <2>2 DEF HistoryInv, EntryInv
<1>8. \A v \in Workers : pc'[v] \in {"insert", "commit"} =>
          pc[v] = pc'[v] /\ meta'[v] = meta[v]
  BY <1>2, <1>3
<1>9. InsertedInv'
  BY <1>1, <1>6, <1>8 DEF HistoryInv, InsertedInv, WellLinked, LogData
<1>10. ReadFollows'
  <2>. SUFFICES ASSUME NEW v \in Workers, pc'[v] = "insert",
                       NEW o, o = meta[v].OrganizationID, o \notin forged, NEW h, h = prevHash[v],
                       NEW n, n = nextId
                PROVE  Follows(o, h, n)'
    BY <1>1, <1>8 DEF ReadFollows, Serve
  <2>1. Follows(o, h, n)
    BY <1>8 DEF HistoryInv, ReadFollows
  <2>. QED
    BY <1>4, <2>1, FollowsFrame DEF NothingWritten
<1>11. PendingFollows'
  <2>. SUFFICES ASSUME NEW v \in Workers, pc'[v] = "commit",
                       NEW o, o = meta[v].OrganizationID, o \notin forged, NEW p, p = pending[v]
                PROVE  Follows(o, p.previous_hash, p.id)'
    BY <1>1, <1>8 DEF PendingFollows, Serve
  <2>1. Follows(o, p.previous_hash, p.id)
    BY <1>8 DEF HistoryInv, PendingFollows
  <2>. QED
    BY <1>4, <2>1, FollowsFrame DEF NothingWritten
<1>. QED
  BY <1>4, <1>5, <1>7, <1>9, <1>10, <1>11 DEF HistoryInv

\* ... the read of the hash to chain to, while the organization's last row may
\* be any that is left ...
LEMMA ServeRead ==
    ASSUME NEW T, IInv(T), HistoryInv, Serve, NEW w \in Workers, ReadPrevHash(w)
    PROVE  HistoryInv'
<1>1. /\ UNCHANGED <<unused, rows, nextId, meta, pending>>
      /\ pc[w] = "read"
      /\ prevHash' = [prevHash EXCEPT ![w] = LastHash(RowsOf(meta[w].OrganizationID))]
      /\ pc' = [pc EXCEPT ![w] = "insert"]
  BY DEF ReadPrevHash, table
<1>. DEFINE org == meta[w].OrganizationID
            last == LastHash(RowsOf(org))
<1>2. org \in Orgs
  BY <1>1 DEF IInv, TypeOK, Metadata
<1>3. TypeOK
  BY DEF IInv
<1>4. pc'[w] = "insert" /\ prevHash'[w] = last
  BY <1>1, <1>3 DEF TypeOK
<1>5. \A v \in Workers \ {w} : pc'[v] = pc[v] /\ prevHash'[v] = prevHash[v]
  BY <1>1, <1>3 DEF TypeOK
<1>6. NothingWritten /\ PresentInv' /\ \A o : Links(o)' = Links(o)
  BY <1>1, ServeQuiet DEF HistoryInv
<1>7. WrittenInv' /\ LinksFollow' /\ GenuineInv'
  BY <1>1, <1>3, <1>6, HistoryFrame DEF HistoryInv
<1>8. Hashed(written)' = Hashed(written) /\ written' = written
  BY <1>6 DEF NothingWritten, Hashed
<1>9. \A v \in Workers : (pc'[v] = "idle") <=> (pc[v] = "idle")
  BY <1>1, <1>4, <1>5
<1>10. \A v \in Workers : pc'[v] = "commit" => pc[v] = "commit"
  BY <1>4, <1>5
<1>11. EntryInv'
  BY <1>1, <1>8, <1>9 DEF HistoryInv, EntryInv
<1>12. InsertedInv'
  BY <1>1, <1>8, <1>10 DEF HistoryInv, InsertedInv, WellLinked, LogData
<1>13. ASSUME org \notin forged PROVE Follows(org, last, nextId)
  <2>1. \A x \in Links(org) : \E s \in RowsOf(org) : s.id = x.id
    BY DEF Links, AsWritten, Hashed
  <2>2. CASE RowsOf(org) = {}
    BY <2>1, <2>2 DEF Follows, FollowsIn, LastHash
  <2>3. CASE RowsOf(org) # {}
    <3>. DEFINE l == LastOf(RowsOf(org))
    <3>1. l \in RowsOf(org) /\ \A s \in RowsOf(org) : s.id <= l.id
      BY <1>2, <2>3, LastOfIsLast DEF IInv, LastInv
    <3>. HIDE DEF l
    <3>2. PICK y \in written : y.id = l.id /\ y.current_hash = l.current_hash
      BY <1>13, <3>1 DEF HistoryInv, PresentInv, Was, RowsOf
    <3>3. \A x \in Links(org) : x.id <= y.id
      BY <2>1, <3>1, <3>2
    <3>4. CASE y.current_hash = EmptyHash
      <4>1. \A x \in Links(org) : x \in written /\ x.current_hash # EmptyHash
        BY DEF Links, AsWritten, Hashed
      <4>2. \A x \in Links(org) : y.id <= x.id /\ x.id \in Nat /\ y.id \in Nat
        BY <3>4, <4>1 DEF HistoryInv, WrittenInv, Row
      <4>3. Links(org) = {}
        BY <3>3, <3>4, <4>1, <4>2 DEF HistoryInv, WrittenInv
      <4>4. last = GenesisHash
        BY <3>2, <3>4 DEF LastHash, l
      <4>. QED
        BY <4>3, <4>4 DEF Follows, FollowsIn
    <3>5. CASE y.current_hash # EmptyHash
      <4>1. last = y.current_hash
        BY <2>3, <3>2, <3>5 DEF LastHash, l
      <4>2. y \in Hashed(written) /\ y.id < nextId
        BY <3>5 DEF Hashed, HistoryInv, WrittenInv
      <4>. QED
        BY <3>3, <4>1, <4>2 DEF Follows, FollowsIn
    <3>. QED
      BY <3>4, <3>5
  <2>. QED
    BY <2>2, <2>3
<1>14. ReadFollows'
  <2>. SUFFICES ASSUME NEW v \in Workers, pc'[v] = "insert",
                       NEW o, o = meta[v].OrganizationID, o \notin forged, NEW h, h = prevHash'[v],
                       NEW n, n = nextId
                PROVE  Follows(o, h, n)'
    BY <1>1 DEF ReadFollows, Serve
  <2>1. Follows(o, h, n)
    <3>1. CASE v = w
      BY <1>4, <1>13, <3>1
    <3>2. CASE v # w
      BY <1>5, <3>2 DEF HistoryInv, ReadFollows
    <3>. QED
      BY <3>1, <3>2
  <2>2. written \subseteq written' /\ Links(o)' \subseteq Links(o)
    BY <1>6, <1>8
  <2>. QED
    BY <2>1, <2>2, FollowsFrame
<1>15. PendingFollows'
  <2>. SUFFICES ASSUME NEW v \in Workers, pc'[v] = "commit",
                       NEW o, o = meta[v].OrganizationID, o \notin forged, NEW p, p = pending[v]
                PROVE  Follows(o, p.previous_hash, p.id)'
    BY <1>1 DEF PendingFollows, Serve
  <2>1. Follows(o, p.previous_hash, p.id)
    BY <1>10 DEF HistoryInv, PendingFollows
  <2>2. written \subseteq written' /\ Links(o)' \subseteq Links(o)
    BY <1>6, <1>8
  <2>. QED
    BY <2>1, <2>2, FollowsFrame
<1>. QED
  BY <1>6, <1>7, <1>11, <1>12, <1>14, <1>15 DEF HistoryInv

\* ... the insert, whose id is new ...
LEMMA ServeInsert ==
    ASSUME NEW T, IInv(T), HistoryInv, Serve, NEW w \in Workers, InsertRow(w)
    PROVE  HistoryInv'
<1>1. /\ UNCHANGED <<unused, rows, meta, prevHash>>
      /\ pc[w] = "insert" /\ nextId' = nextId + 1
      /\ pc' = [pc EXCEPT ![w] = "commit"]
  BY DEF InsertRow
<1>2. TypeOK /\ nextId \in Nat
  BY DEF IInv, TypeOK
<1>3. PICK m \in Metadata : m = meta[w]
  BY <1>1, <1>2 DEF TypeOK
<1>4. PICK n : n = [id |-> nextId, organization_id |-> m.OrganizationID,
                    timestamp |-> StoredMicro(m.Timestamp), entry |-> m.Entry,
                    previous_hash |-> prevHash[w],
                    current_hash |-> CalculateHash(prevHash[w],
                       [Timestamp |-> UnixMicro(m.Timestamp), Entry |-> m.Entry])]
  OBVIOUS
<1>5. pending' = [pending EXCEPT ![w] = n]
  BY <1>3, <1>4 DEF InsertRow
<1>6. pc'[w] = "commit" /\ pending'[w] = n
  BY <1>1, <1>2, <1>5 DEF TypeOK
<1>7. \A v \in Workers \ {w} : pc'[v] = pc[v] /\ pending'[v] = pending[v]
  BY <1>1, <1>2, <1>5 DEF TypeOK
<1>8. WellLinked(n)
  <2>1. m.Timestamp \in Nat /\ m.Timestamp % 2 = 0 /\ m.Entry \in Entries
    BY <1>1, <1>3 DEF Metadata, IInv, TimestampInv
  <2>2. StoredMicro(m.Timestamp) = UnixMicro(m.Timestamp) /\ UnixMicro(m.Timestamp) \in Nat
    BY <2>1, EvenTimestamps
  <2>3. LogData(n) \in Data
    BY <1>4, <2>1, <2>2 DEF LogData, Data
  <2>4. prevHash[w] \in Seq(Data)
    BY <1>2 DEF TypeOK
  <2>. QED
    BY <1>4, <2>2, <2>3, <2>4 DEF WellLinked, LogData
<1>9. /\ n.id = nextId /\ n.entry = meta[w].Entry
      /\ n.organization_id = meta[w].OrganizationID /\ n.previous_hash = prevHash[w]
  BY <1>3, <1>4
<1>. HIDE <1>4
<1>10. NothingWritten /\ PresentInv' /\ \A o : Links(o)' = Links(o)
  BY <1>1, ServeQuiet DEF HistoryInv
<1>11. WrittenInv' /\ LinksFollow' /\ GenuineInv'
  BY <1>1, <1>2, <1>10, HistoryFrame DEF HistoryInv
<1>12. Hashed(written)' = Hashed(written) /\ written' = written
  BY <1>10 DEF NothingWritten, Hashed
<1>13. \A r \in written : r.id < nextId /\ r.id \in Nat
  BY DEF HistoryInv, WrittenInv, Row
<1>14. \A v \in Workers : (pc'[v] = "idle") <=> (pc[v] = "idle")
  BY <1>1, <1>6, <1>7
<1>15. EntryInv'
  BY <1>1, <1>12, <1>14 DEF HistoryInv, EntryInv
<1>16. \A v \in Workers : pc[v] = "commit" => pending[v].id < nextId /\ pending[v].id \in Nat
  BY <1>2 DEF IInv, PendingInv, TypeOK, Row
<1>17. InsertedInv'
  <2>. SUFFICES ASSUME NEW v \in Workers, pc'[v] = "commit", NEW p, p = pending'[v]
                PROVE  /\ WellLinked(p) /\ p.entry = meta[v].Entry
                       /\ \A u \in Workers : pc'[u] = "commit" /\ pending'[u].id = p.id => u = v
                       /\ \A r \in written :
                             /\ r.id # p.id
                             /\ r.organization_id = meta[v].OrganizationID \/ r.current_hash = EmptyHash =>
                                   r.id < p.id
    BY <1>1, <1>12 DEF InsertedInv, WellLinked, LogData
  <2>1. CASE v = w
    <3>1. p = n /\ p.id = nextId
      BY <1>6, <1>9, <2>1
    <3>2. \A u \in Workers : pc'[u] = "commit" /\ u # w => pending'[u].id # nextId
      BY <1>2, <1>7, <1>16
    <3>3. \A r \in written : r.id # nextId /\ r.id < nextId
      BY <1>2, <1>13
    <3>. QED
      BY <1>8, <1>9, <2>1, <3>1, <3>2, <3>3
  <2>2. CASE v # w
    <3>1. p = pending[v] /\ pc[v] = "commit"
      BY <1>7, <2>2
    <3>2. p.id # nextId
      BY <1>2, <1>16, <3>1
    <3>3. \A u \in Workers : pc'[u] = "commit" /\ pending'[u].id = p.id => u = v
      BY <1>6, <1>7, <1>9, <3>1, <3>2 DEF HistoryInv, InsertedInv
    <3>. QED
      BY <3>1, <3>3 DEF HistoryInv, InsertedInv
  <2>. QED
    BY <2>1, <2>2
<1>18. ReadFollows'
  <2>. SUFFICES ASSUME NEW v \in Workers, pc'[v] = "insert",
                       NEW o, o = meta[v].OrganizationID, o \notin forged, NEW h, h = prevHash[v],
                       NEW k, k = nextId'
                PROVE  Follows(o, h, k)'
    BY <1>1 DEF ReadFollows, Serve
  <2>1. v # w /\ Follows(o, h, nextId)
    BY <1>6, <1>7 DEF HistoryInv, ReadFollows
  <2>2. \A x \in Links(o) : x.id \in Nat /\ x.id < nextId
    BY <1>13 DEF Links, AsWritten, Hashed
  <2>3. Follows(o, h, k)
    <3>1. CASE h = GenesisHash /\ \A x \in Links(o) : nextId <= x.id
      <4>1. Links(o) = {}
        BY <1>2, <2>2, <3>1
      <4>. QED
        BY <3>1, <4>1 DEF Follows, FollowsIn
    <3>2. CASE \E y \in Hashed(written) :
                 /\ y.current_hash = h /\ y.id < nextId
                 /\ \A x \in Links(o) : x.id <= y.id \/ nextId <= x.id
      <4>1. PICK y \in Hashed(written) :
                 /\ y.current_hash = h /\ y.id < nextId
                 /\ \A x \in Links(o) : x.id <= y.id \/ nextId <= x.id
        BY <3>2
      <4>2. y.id \in Nat /\ y.id < k
        BY <1>1, <1>2, <1>13, <4>1 DEF Hashed
      <4>3. \A x \in Links(o) : x.id <= y.id
        BY <1>2, <2>2, <4>1
      <4>. QED
        BY <4>1, <4>2, <4>3 DEF Follows, FollowsIn
    <3>. QED
      BY <2>1, <3>1, <3>2 DEF Follows, FollowsIn
  <2>. QED
    BY <1>10, <1>12, <2>3, FollowsFrame
<1>19. PendingFollows'
  <2>. SUFFICES ASSUME NEW v \in Workers, pc'[v] = "commit",
                       NEW o, o = meta[v].OrganizationID, o \notin forged, NEW p, p = pending'[v]
                PROVE  Follows(o, p.previous_hash, p.id)'
    BY <1>1 DEF PendingFollows, Serve
  <2>1. Follows(o, p.previous_hash, p.id)
    <3>1. CASE v = w
      BY <1>1, <1>6, <1>9, <3>1 DEF HistoryInv, ReadFollows
    <3>2. CASE v # w
      BY <1>7, <3>2 DEF HistoryInv, PendingFollows
    <3>. QED
      BY <3>1, <3>2
  <2>. QED
    BY <1>10, <1>12, <2>1, FollowsFrame
<1>. QED
  BY <1>10, <1>11, <1>15, <1>17, <1>18, <1>19 DEF HistoryInv

\* ... and the commit, which adds one row to what was written and to its log.
LEMMA CommitWrites ==
    ASSUME NEW T, IInv(T), HistoryInv, Serve, NEW w \in Workers, CommitTx(w),
           NEW n, n = pending[w], NEW org, org = n.organization_id
    PROVE  /\ n \in Row /\ WellLinked(n) /\ n.current_hash # EmptyHash
           /\ org \in Orgs /\ org = meta[w].OrganizationID
           /\ n.entry = meta[w].Entry /\ pc[w] = "commit"
           /\ n.id < nextId
           /\ UNCHANGED <<unused, nextId>>
           /\ rows' = rows \cup {n} /\ n \notin rows
           /\ written' = written \cup {n}
           /\ Hashed(written)' = Hashed(written) \cup {n}
           /\ \A r \in written :
                 /\ r.id # n.id
                 /\ r.organization_id = org \/ r.current_hash = EmptyHash => r.id < n.id
           /\ Links(org)' = Links(org) \cup {n}
           /\ \A o : o # org => Links(o)' = Links(o)
           /\ \A v \in Workers : Kept(v)
           /\ pc'[w] = "idle"
<1>1. /\ pc[w] = "commit" /\ UNCHANGED <<unused, nextId>>
      /\ rows' = rows \cup {n} /\ EndTx(w)
  BY DEF CommitTx
<1>2. n \in Row
  BY <1>1 DEF IInv, TypeOK
<1>3. /\ org = meta[w].OrganizationID /\ n.id < nextId
      /\ \A r \in RowsOf(org) : r.id < n.id
  BY <1>1 DEF IInv, PendingInv
<1>4. /\ WellLinked(n) /\ n.entry = meta[w].Entry
      /\ \A r \in written :
            /\ r.id # n.id
            /\ r.organization_id = org \/ r.current_hash = EmptyHash => r.id < n.id
  BY <1>1, <1>3 DEF HistoryInv, InsertedInv
<1>5. n.current_hash # EmptyHash
  <2>1. n.previous_hash \in Seq(Data) /\ LogData(n) \in Data
    BY <1>4 DEF WellLinked
  <2>2. Append(n.previous_hash, LogData(n)) \in Seq(Data)
    BY <2>1, AppendProperties
  <2>. QED
    BY <1>4, <2>2, HashAssumption DEF WellLinked, CalculateHash
<1>6. \A r \in rows : r.id # n.id
  BY <1>4 DEF HistoryInv, PresentInv, Was
<1>7. n \notin rows /\ rows' \ rows = {n}
  BY <1>1, <1>6
<1>8. written' = written \cup {n}
  BY <1>7 DEF Serve
<1>9. Hashed(written)' = Hashed(written) \cup {n}
  BY <1>5, <1>8 DEF Hashed
<1>10. Links(org)' = Links(org) \cup {n}
  <2>1. RowsOf(org)' = RowsOf(org) \cup {n}
    BY <1>1 DEF RowsOf
  <2>2. AsWritten(org)' = AsWritten(org) \cup {n}
    BY <1>4, <1>6, <1>8, <2>1 DEF AsWritten, RowsOf
  <2>. QED
    BY <1>5, <2>2 DEF Links, Hashed
<1>11. ASSUME NEW o, o # org PROVE Links(o)' = Links(o)
  <2>1. RowsOf(o)' = RowsOf(o)
    BY <1>1, <1>11 DEF RowsOf
  <2>2. AsWritten(o)' = AsWritten(o)
    BY <1>6, <1>8, <2>1 DEF AsWritten, RowsOf
  <2>. QED
    BY <2>2 DEF Links, Hashed
<1>12. (\A v \in Workers : Kept(v)) /\ pc'[w] = "idle"
  BY <1>1 DEF EndTx, Kept, IInv, TypeOK
<1>. QED
  BY <1>1, <1>2, <1>3, <1>4, <1>5, <1>7, <1>8, <1>9, <1>10, <1>11, <1>12 DEF Row

\* A chain of rows of a log that has its last row is the whole log: between two
\* rows of it that follow one another no row is left out.
LEMMA WholeChain ==
    ASSUME NEW W \in SUBSET Row, \A r \in W : WellLinked(r),
           \A r, s \in W : r.id = s.id \/ r.entry = s.entry => r = s,
           NEW L \in SUBSET W, \A r \in L : FollowsIn(W, L, r.previous_hash, r.id),
           NEW C \in SUBSET L, Chained(C),
           NEW n \in C, \A x \in L : x.id <= n.id
    PROVE  C = L
<1>. SUFFICES ASSUME NEW x \in L, x \notin C PROVE FALSE
  OBVIOUS
<1>1. C \subseteq L /\ L \subseteq W
  OBVIOUS
<1>2. \A r \in W : r \in Row /\ r.id \in Nat
  BY DEF Row
<1>3. \A r, s \in L : r.id = s.id => r = s
  BY <1>1
<1>. DEFINE S == {c \in C : x.id < c.id}
<1>4. n \in S
  BY <1>1, <1>2, <1>3
<1>5. PICK j \in S : \A s \in S : j.id <= s.id
  BY <1>1, <1>2, <1>4, LeastRow
<1>6. FollowsIn(W, L, j.previous_hash, j.id)
  BY <1>5
<1>7. PICK y \in W :
          /\ y.current_hash = j.previous_hash /\ y.id < j.id
          /\ \A z \in L : z.id <= y.id \/ j.id <= z.id
  <2>1. ~(j.id <= x.id)
    BY <1>1, <1>2, <1>5
  <2>. QED
    BY <1>6, <2>1 DEF FollowsIn
<1>8. x.id <= y.id
  BY <1>1, <1>2, <1>5, <1>7
<1>9. WellLinked(y) /\ y.current_hash = Append(y.previous_hash, LogData(y))
  BY <1>7 DEF WellLinked, CalculateHash
<1>10. y.current_hash # GenesisHash
  BY <1>9, AppendProperties DEF WellLinked, GenesisHash
<1>. DEFINE before == {p \in C : p.id < j.id}
<1>11. /\ before # {} /\ j.previous_hash = LastOf(before).current_hash
  BY <1>5, <1>7, <1>10 DEF Chained
<1>12. LastOf(before) \in before
  <2>1. HasLast(before)
    BY <1>1, <1>2, <1>5, BoundedHasLast
  <2>. QED
    BY <1>11, <2>1, LastOfIsLast
<1>13. PICK p \in before : p.current_hash = y.current_hash
  BY <1>7, <1>11, <1>12
<1>14. WellLinked(p) /\ p.current_hash = Append(p.previous_hash, LogData(p))
  BY <1>1, <1>13 DEF WellLinked, CalculateHash
<1>15. LogData(p) = LogData(y)
  <2>1. /\ p.previous_hash \in Seq(Data) /\ LogData(p) \in Data
        /\ y.previous_hash \in Seq(Data) /\ LogData(y) \in Data
    BY <1>9, <1>14 DEF WellLinked
  <2>2. Append(p.previous_hash, LogData(p)) = Append(y.previous_hash, LogData(y))
    BY <1>9, <1>13, <1>14
  <2>. QED
    BY <2>1, <2>2, AppendInjective
<1>16. p = y
  BY <1>1, <1>7, <1>13, <1>15 DEF LogData
<1>17. y \in C /\ y.id # x.id
  BY <1>3, <1>13, <1>16
<1>18. y \in S
  BY <1>1, <1>2, <1>7, <1>8, <1>17
<1>. QED
  BY <1>1, <1>2, <1>5, <1>7, <1>18

\* A commit keeps the invariant.
LEMMA ServeCommit ==
    ASSUME NEW T, IInv(T), IInv(T)', HistoryInv, Serve, NEW w \in Workers, CommitTx(w)
    PROVE  HistoryInv'
<1>. PICK n : n = pending[w]
  OBVIOUS
<1>. PICK org : org = n.organization_id
  OBVIOUS
<1>1. /\ n \in Row /\ WellLinked(n) /\ n.current_hash # EmptyHash
      /\ org \in Orgs /\ org = meta[w].OrganizationID
      /\ n.entry = meta[w].Entry /\ pc[w] = "commit"
      /\ n.id < nextId
      /\ UNCHANGED <<unused, nextId>>
      /\ rows' = rows \cup {n} /\ n \notin rows
      /\ written' = written \cup {n}
      /\ Hashed(written)' = Hashed(written) \cup {n}
      /\ \A r \in written :
            /\ r.id # n.id
            /\ r.organization_id = org \/ r.current_hash = EmptyHash => r.id < n.id
      /\ Links(org)' = Links(org) \cup {n}
      /\ \A o : o # org => Links(o)' = Links(o)
      /\ \A v \in Workers : Kept(v)
      /\ pc'[w] = "idle"
  BY CommitWrites
<1>2. written \subseteq Row /\ \A r \in written : r.id \in Nat
  BY DEF HistoryInv, WrittenInv, Row
<1>3. n.id \in Nat /\ n \in Hashed(written)'
  BY <1>1 DEF Row
<1>4. \A r \in Hashed(written) : r \in written /\ r.entry # n.entry
  BY <1>1 DEF HistoryInv, EntryInv, Hashed
<1>5. n.entry \notin unused
  BY <1>1 DEF HistoryInv, EntryInv
<1>6. WrittenInv'
  <2>1. \A r \in Hashed(written)' : WellLinked(r)' /\ r.entry \notin unused'
    BY <1>1, <1>5 DEF HistoryInv, WrittenInv, WellLinked, LogData
  <2>2. \A r, s \in Hashed(written)' : r.entry = s.entry => r = s
    BY <1>1, <1>4 DEF HistoryInv, WrittenInv
  <2>3. \A r, s \in written' : r.id = s.id => r = s
    BY <1>1 DEF HistoryInv, WrittenInv
  <2>4. \A u \in written' : u.current_hash = EmptyHash =>
          u.previous_hash = EmptyHash /\ \A r \in written' : u.id <= r.id
    <3>1. ASSUME NEW u \in written', u.current_hash = EmptyHash
          PROVE  u \in written /\ u.id <= n.id
      BY <1>1, <1>2, <1>3, <3>1
    <3>. QED
      BY <1>1, <3>1 DEF HistoryInv, WrittenInv
  <2>. QED
    BY <1>1, <1>2, <2>1, <2>2, <2>3, <2>4 DEF HistoryInv, WrittenInv
<1>7. PresentInv'
  BY <1>1 DEF HistoryInv, PresentInv, Was, Serve
<1>8. \A v \in Workers : pc'[v] # "idle" =>
        /\ v # w /\ pc[v] # "idle" /\ meta'[v] = meta[v]
        /\ pc'[v] = "insert" => pc[v] = "insert" /\ prevHash'[v] = prevHash[v]
        /\ pc'[v] = "commit" => pc[v] = "commit" /\ pending'[v] = pending[v]
  BY <1>1 DEF Kept
<1>9. ASSUME NEW v \in Workers, v # w, pc[v] \in {"insert", "commit"}
      PROVE  meta[v].OrganizationID # org /\ meta[v].OrganizationID \in Orgs
  <2>1. lock[meta[v].OrganizationID] = v /\ lock[org] = w
    BY <1>1, <1>9 DEF IInv, LockInv, Locked
  <2>. QED
    BY <1>9, <2>1 DEF IInv, TypeOK, Metadata
<1>10. EntryInv'
  <2>. SUFFICES ASSUME NEW v \in Workers, pc'[v] # "idle"
                PROVE  /\ meta[v].Entry \notin unused
                       /\ \A r \in Hashed(written) \cup {n} : r.entry # meta[v].Entry
                       /\ \A u \in Workers : pc'[u] # "idle" /\ meta'[u].Entry = meta[v].Entry
                                              => u = v
    <3>1. /\ unused' = unused /\ Hashed(written)' = Hashed(written) \cup {n}
          /\ \A v \in Workers : pc'[v] # "idle" => meta'[v] = meta[v]
      BY <1>1, <1>8
    <3>. QED
      BY <3>1 DEF EntryInv
  <2>1. v # w /\ pc[v] # "idle"
    BY <1>8
  <2>2. meta[v].Entry # n.entry
    BY <1>1, <2>1 DEF HistoryInv, EntryInv
  <2>. QED
    BY <1>8, <2>1, <2>2 DEF HistoryInv, EntryInv
<1>11. InsertedInv'
  <2>. SUFFICES ASSUME NEW v \in Workers, pc'[v] = "commit", NEW p, p = pending[v]
                PROVE  /\ WellLinked(p) /\ p.entry = meta[v].Entry
                       /\ \A u \in Workers : pc'[u] = "commit" /\ pending'[u].id = p.id => u = v
                       /\ \A r \in written \cup {n} :
                             /\ r.id # p.id
                             /\ r.organization_id = meta[v].OrganizationID \/ r.current_hash = EmptyHash =>
                                   r.id < p.id
    BY <1>1, <1>8 DEF InsertedInv, WellLinked, LogData
  <2>1. v # w /\ pc[v] = "commit"
    BY <1>8
  <2>2. n.id # p.id /\ n.organization_id # meta[v].OrganizationID
    BY <1>1, <1>9, <2>1 DEF HistoryInv, InsertedInv
  <2>3. /\ WellLinked(p) /\ p.entry = meta[v].Entry
        /\ \A r \in written :
              /\ r.id # p.id
              /\ r.organization_id = meta[v].OrganizationID \/ r.current_hash = EmptyHash =>
                    r.id < p.id
    BY <2>1 DEF HistoryInv, InsertedInv
  <2>4. ASSUME NEW u \in Workers, pc'[u] = "commit", pending'[u].id = p.id PROVE u = v
    <3>1. pc[u] = "commit" /\ pending[u].id = p.id
      BY <1>8, <2>4
    <3>. QED
      BY <2>1, <3>1 DEF HistoryInv, InsertedInv
  <2>5. n.current_hash # EmptyHash
    BY <1>1
  <2>. QED
    BY <2>2, <2>3, <2>4, <2>5
<1>12. ASSUME NEW o, NEW h, NEW k, Follows(o, h, k), o # org
       PROVE  Follows(o, h, k)'
  BY <1>1, <1>12, FollowsFrame
<1>13. ReadFollows'
  <2>. SUFFICES ASSUME NEW v \in Workers, pc'[v] = "insert",
                       NEW o, o = meta[v].OrganizationID, o \notin forged, NEW h, h = prevHash[v],
                       NEW k, k = nextId
                PROVE  Follows(o, h, k)'
    BY <1>1, <1>8 DEF ReadFollows, Serve
  <2>1. v # w /\ pc[v] = "insert"
    BY <1>8
  <2>2. Follows(o, h, k) /\ o # org
    BY <1>9, <2>1 DEF HistoryInv, ReadFollows
  <2>. QED
    BY <1>12, <2>2
<1>14. PendingFollows'
  <2>. SUFFICES ASSUME NEW v \in Workers, pc'[v] = "commit",
                       NEW o, o = meta[v].OrganizationID, o \notin forged, NEW p, p = pending[v]
                PROVE  Follows(o, p.previous_hash, p.id)'
    BY <1>8 DEF PendingFollows, Serve
  <2>1. v # w /\ pc[v] = "commit"
    BY <1>8
  <2>2. Follows(o, p.previous_hash, p.id) /\ o # org
    BY <1>9, <2>1 DEF HistoryInv, PendingFollows
  <2>. QED
    BY <1>12, <2>2
<1>15. \A x \in Links(org) : x.id \in Nat /\ x.id < n.id
  <2>1. Links(org) \subseteq written
    BY DEF Links, AsWritten, Hashed
  <2>2. \A x \in Links(org) : x.organization_id = org
    BY DEF Links, AsWritten, Hashed, RowsOf, HistoryInv, PresentInv, WrittenInv, Was
  <2>. QED
    BY <1>1, <1>2, <2>1, <2>2
<1>16. ASSUME NEW h, NEW k \in Nat, k <= n.id, Follows(org, h, k)
       PROVE  Follows(org, h, k)'
  <2>1. CASE h = GenesisHash /\ \A x \in Links(org) : k <= x.id
    BY <1>1, <1>16, <2>1 DEF Follows, FollowsIn, GenesisHash
  <2>2. CASE \E y \in Hashed(written) :
              /\ y.current_hash = h /\ y.id < k
              /\ \A x \in Links(org) : x.id <= y.id \/ k <= x.id
    BY <1>1, <1>16, <2>2 DEF Follows, FollowsIn
  <2>. QED
    BY <1>16, <2>1, <2>2 DEF Follows, FollowsIn
<1>17. LinksFollow'
  <2>. SUFFICES ASSUME NEW o \in Orgs \ forged, NEW r \in Links(o)'
                PROVE  Follows(o, r.previous_hash, r.id)'
    BY DEF LinksFollow, Serve
  <2>1. CASE o # org
    BY <1>1, <1>12, <2>1 DEF HistoryInv, LinksFollow
  <2>2. CASE o = org /\ r # n
    <3>1. r \in Links(org) /\ Follows(org, r.previous_hash, r.id)
      BY <1>1, <2>2 DEF HistoryInv, LinksFollow
    <3>2. r.id \in Nat /\ r.id <= n.id
      BY <1>3, <1>15, <3>1
    <3>. QED
      BY <1>16, <2>2, <3>1, <3>2
  <2>3. CASE o = org /\ r = n
    <3>1. Follows(org, n.previous_hash, n.id)
      BY <1>1, <2>3 DEF HistoryInv, PendingFollows
    <3>. QED
      BY <1>3, <1>16, <2>3, <3>1
  <2>. QED
    BY <2>1, <2>2, <2>3
<1>18. GenuineInv'
  <2>. SUFFICES ASSUME NEW o \in Orgs \ forged, NEW C \in SUBSET (Links(o)'), Chained(C)'
                PROVE  DataOf(C)' \in snapshots'[o]
    BY DEF GenuineInv, Serve
  <2>1. CASE C \subseteq Links(o)
    <3>1. Chained(C) /\ DataOf(C)' = DataOf(C)
      BY DEF Chained, LastOf
    <3>2. DataOf(C) \in snapshots[o]
      BY <2>1, <3>1 DEF HistoryInv, GenuineInv
    <3>3. snapshots[o] \subseteq snapshots'[o]
      BY DEF Serve
    <3>. QED
      BY <3>1, <3>2, <3>3
  <2>2. CASE ~(C \subseteq Links(o))
    <3>1. o = org /\ n \in C
      BY <1>1, <2>2
    <3>2. \A x \in Links(org)' : x.id <= n.id
      BY <1>1, <1>3, <1>15
    <3>3. C = Links(o)'
      <4>. DEFINE W == Hashed(written)'
                  L == Links(o)'
      <4>1. /\ W \subseteq Row /\ \A r \in W : WellLinked(r)
            /\ \A r, s \in W : r.id = s.id \/ r.entry = s.entry => r = s
        BY <1>6 DEF WrittenInv, Hashed, WellLinked, LogData
      <4>2. L \subseteq W
        BY DEF Links, AsWritten, Hashed
      <4>3. \A r \in L : FollowsIn(W, L, r.previous_hash, r.id)
        BY <1>17 DEF LinksFollow, Follows, FollowsIn, Serve
      <4>4. Chained(C) /\ n \in C /\ \A x \in L : x.id <= n.id
        BY <3>1, <3>2 DEF Chained, LastOf
      <4>. HIDE DEF W, L
      <4>5. C \subseteq L
        BY DEF L
      <4>6. C = L
        BY <4>1, <4>2, <4>3, <4>4, <4>5, WholeChain
      <4>. QED
        BY <4>6 DEF L
    <3>4. snapshots'[o] = snapshots[o] \cup {DataOf(AsWritten(o)')}
      BY <1>1, <3>1 DEF Serve
    <3>5. Hashed(C) = Hashed(AsWritten(o)')
      BY <3>3 DEF Links, Hashed
    <3>6. DataOf(C) = DataOf(AsWritten(o)')
      BY <3>5 DEF DataOf
    <3>. QED
      BY <3>4, <3>6
  <2>. QED
    BY <2>1, <2>2
<1>. QED
  BY <1>6, <1>7, <1>10, <1>11, <1>13, <1>14, <1>17, <1>18 DEF HistoryInv

\* Other hands than LogRequest's take rows away or change their columns.
LEMMA TamperHistory ==
    ASSUME NEW T, T = Orgs \ touched, IInv(T), HistoryInv, TamperNext, ~Serve
    PROVE  HistoryInv'
<1>1. /\ UNCHANGED <<Unrelated, written, snapshots>>
      /\ forged \subseteq forged'
      /\ \A r \in rows' : \E s \in rows :
            /\ s.id = r.id /\ s.organization_id = r.organization_id
            /\ r.organization_id \notin forged' => s.current_hash = r.current_hash
  BY TamperedTable
<1>2. PresentInv'
  <2>. SUFFICES ASSUME NEW r \in rows'
                PROVE  \E u \in written : Was(r, u)'
    BY <1>1 DEF PresentInv
  <2>1. PICK s \in rows :
            /\ s.id = r.id /\ s.organization_id = r.organization_id
            /\ r.organization_id \notin forged' => s.current_hash = r.current_hash
    BY <1>1
  <2>2. PICK u \in written : Was(s, u)
    BY DEF HistoryInv, PresentInv
  <2>. QED
    BY <1>1, <2>1, <2>2 DEF Was
<1>3. ASSUME NEW o PROVE Links(o)' \subseteq Links(o)
  <2>1. \A r \in RowsOf(o)' : \E s \in RowsOf(o) : s.id = r.id
    BY <1>1 DEF RowsOf, Was
  <2>. QED
    BY <1>1, <2>1 DEF Links, AsWritten, Hashed
<1>4. NothingWritten
  BY <1>1, <1>3 DEF NothingWritten
<1>5. UNCHANGED <<unused, nextId>> /\ \A w \in Workers : Kept(w)
  BY <1>1 DEF Unrelated, tx, Kept
<1>. QED
  BY <1>2, <1>4, <1>5, CalmStep DEF IInv

\* Every step keeps the invariant.
LEMMA StepHistory ==
    ASSUME UntouchedIInv, HistoryInv, [TamperNext]_allVars
    PROVE  HistoryInv'
<1>. PICK T : T = Orgs \ touched /\ IInv(T)
  BY DEF UntouchedIInv
<1>1. TypeOK
  BY DEF IInv
<1>2. CASE Serve
  <2>1. ASSUME NEW w \in Workers, CommitTx(w) PROVE HistoryInv'
    <3>1. IInv(T)'
      BY <1>2, StepIInv DEF Serve
    <3>. QED
      BY <1>2, <2>1, <3>1, ServeCommit
  <2>. QED
    BY <1>1, <1>2, <2>1, LogsEntries, ServeCalm, ServeArrival, ServeRead, ServeInsert
       DEF Serve, Next, LogRequest
<1>3. CASE TamperNext /\ ~Serve
  BY <1>3, TamperHistory
<1>4. CASE UNCHANGED allVars
  <2>1. UNCHANGED <<unused, rows, nextId, pc, meta, prevHash, pending, written, snapshots,
                    forged>>
    BY <1>4 DEF allVars, vars, history
  <2>2. \A o : Links(o)' = Links(o)
    BY <2>1 DEF Links, AsWritten, Hashed, RowsOf
  <2>3. NothingWritten /\ PresentInv'
    BY <2>1, <2>2 DEF NothingWritten, HistoryInv, PresentInv, Was
  <2>4. \A w \in Workers : Kept(w)
    BY <2>1 DEF Kept
  <2>. QED
    BY <1>1, <2>1, <2>3, <2>4, CalmStep
<1>. QED
  BY <1>2, <1>3, <1>4

\* In the beginning there is at most a row from before the hash columns.
LEMMA InitHistory ==
    ASSUME RetentionInit
    PROVE  HistoryInv
<1>1. /\ Init /\ written = rows /\ snapshots = [o \in Orgs |-> {<< >>}]
  BY DEF RetentionInit
<1>2. rows = {} \/ \E o \in Orgs : rows = {LegacyRow(o)} /\ nextId = 2
  BY <1>1 DEF Init
<1>3. Hashed(written) = {}
  BY <1>1, <1>2 DEF Hashed, LegacyRow
<1>4. \A o : Links(o) = {}
  BY <1>3 DEF Links, AsWritten, Hashed
<1>5. written \subseteq Row
  BY <1>1, InitIInv DEF IInv, TypeOK
<1>6. WrittenInv
  BY <1>1, <1>2, <1>3, <1>5 DEF WrittenInv, LegacyRow
<1>7. PresentInv
  BY <1>1 DEF PresentInv, Was
<1>8. \A w \in Workers : pc[w] = "idle"
  BY <1>1 DEF Init
<1>9. GenuineInv
  <2>. SUFFICES ASSUME NEW o \in Orgs PROVE DataOf({}) \in snapshots[o]
    BY <1>4 DEF GenuineInv
  <2>1. InsertionOrder({}) = << >>
    <3>1. 1..0 = {}
      OBVIOUS
    <3>2. << >> \in [{} -> {}] /\ \A f \in [{} -> {}] : f = << >>
      OBVIOUS
    <3>. QED
      BY <3>1, <3>2, FS_EmptySet DEF InsertionOrder
  <2>2. DataOf({}) = << >>
    BY <2>1 DEF DataOf, Hashed
  <2>. QED
    BY <1>1, <2>2
<1>. QED
  BY <1>4, <1>6, <1>7, <1>8, <1>9
     DEF HistoryInv, EntryInv, InsertedInv, LinksFollow, ReadFollows, PendingFollows

\* The rows of a log that verifies are the rows that were written, all hashed.
LEMMA ValidRows ==
    ASSUME NEW T, IInv(T), HistoryInv, NEW o \in Orgs \ forged, VerifyIntegrity(o).Valid
    PROVE  RowsOf(o) = Links(o) /\ Chained(RowsOf(o))
<1>1. \A r \in RowsOf(o) : RowVerifies(r)
  BY DEF VerifyIntegrity, BrokenRows
<1>2. ASSUME NEW r \in RowsOf(o), NEW u \in written, Was(r, u)
      PROVE  u.current_hash # EmptyHash
  <2>. SUFFICES ASSUME u.current_hash = EmptyHash PROVE FALSE
    OBVIOUS
  <2>1. r \in rows /\ r \in Row /\ r.organization_id = o
    BY DEF RowsOf, IInv, TypeOK
  <2>2. Before(r) = {}
    <3>. SUFFICES ASSUME NEW p \in Before(r) PROVE FALSE
      OBVIOUS
    <3>1. p \in rows /\ p \in Row /\ p.id < r.id
      BY DEF Before, RowsOf, IInv, TypeOK
    <3>2. PICK q \in written : Was(p, q)
      BY <3>1 DEF HistoryInv, PresentInv
    <3>3. u.id <= q.id
      BY DEF HistoryInv, WrittenInv
    <3>4. p.id \in Nat /\ r.id \in Nat /\ r.id <= p.id
      BY <1>2, <2>1, <3>1, <3>2, <3>3 DEF Was, Row
    <3>. QED
      BY <3>1, <3>4
  <2>3. r.previous_hash = GenesisHash /\ r.current_hash = Append(r.previous_hash, LogData(r))
    BY <1>1, <2>2 DEF RowVerifies, ExpectedPrevHash, CalculateHash
  <2>4. r.previous_hash \in Seq(Data) /\ LogData(r) \in Data
    BY <2>1, <2>3 DEF GenesisHash, LogData, Data, Row
  <2>5. r.current_hash \in Seq(Data)
    BY <2>3, <2>4, AppendProperties
  <2>6. r.current_hash = EmptyHash
    BY <1>2, <2>1 DEF Was
  <2>. QED
    BY <2>5, <2>6, HashAssumption
<1>3. ASSUME NEW r \in RowsOf(o) PROVE r.current_hash \in Seq(Data)
  <2>1. r \in rows /\ r \in Row /\ r.organization_id = o
    BY DEF RowsOf, IInv, TypeOK
  <2>2. PICK u \in written : Was(r, u)
    BY <2>1 DEF HistoryInv, PresentInv
  <2>3. r.current_hash # EmptyHash
    BY <1>2, <2>1, <2>2 DEF Was
  <2>. QED
    BY <2>1, <2>3 DEF Row, Hashes
<1>4. ASSUME NEW r \in RowsOf(o) PROVE r.previous_hash \in Seq(Data)
  <2>1. r \in rows /\ r.organization_id = o
    BY DEF RowsOf
  <2>2. CASE Before(r) = {}
    <3>1. r.previous_hash = GenesisHash
      BY <1>1, <2>2 DEF RowVerifies, ExpectedPrevHash
    <3>. QED
      BY <3>1 DEF GenesisHash
  <2>3. CASE Before(r) # {}
    <3>1. LastOf(Before(r)) \in RowsOf(o)
      BY <2>1, <2>3, LastOfIsLast DEF IInv, LastInv, Before
    <3>. QED
      BY <1>1, <1>3, <2>3, <3>1 DEF RowVerifies, ExpectedPrevHash
  <2>. QED
    BY <2>2, <2>3
<1>5. ASSUME NEW r \in RowsOf(o) PROVE r \in Hashed(written)
  <2>1. r \in rows /\ r \in Row /\ r.organization_id = o
    BY DEF RowsOf, IInv, TypeOK
  <2>2. PICK s \in written : Was(r, s)
    BY <2>1 DEF HistoryInv, PresentInv
  <2>3. s \in Row
    BY DEF HistoryInv, WrittenInv
  <2>4. s.current_hash # EmptyHash
    BY <1>2, <2>2
  <2>5. s \in Hashed(written) /\ WellLinked(s)
    BY <2>4 DEF Hashed, HistoryInv, WrittenInv
  <2>6. Append(r.previous_hash, LogData(r)) = Append(s.previous_hash, LogData(s))
    BY <1>1, <2>1, <2>2, <2>5 DEF RowVerifies, WellLinked, CalculateHash, Was
  <2>7. /\ r.previous_hash \in Seq(Data) /\ LogData(r) \in Data
        /\ s.previous_hash \in Seq(Data) /\ LogData(s) \in Data
    BY <1>4, <2>1, <2>5 DEF WellLinked, LogData, Data, Row
  <2>8. r.previous_hash = s.previous_hash /\ LogData(r) = LogData(s)
    BY <2>6, <2>7, AppendInjective
  <2>9. r.timestamp = s.timestamp /\ r.entry = s.entry
    BY <2>8 DEF LogData
  <2>10. r = s
    BY <2>1, <2>2, <2>3, <2>8, <2>9 DEF Row, Was
  <2>. QED
    BY <2>5, <2>10
<1>6. RowsOf(o) \subseteq Links(o)
  BY <1>5 DEF Links, AsWritten, Hashed
<1>7. Links(o) \subseteq RowsOf(o)
  <2>. SUFFICES ASSUME NEW x \in Links(o) PROVE x \in RowsOf(o)
    OBVIOUS
  <2>1. PICK s \in RowsOf(o) : s.id = x.id
    BY DEF Links, AsWritten, Hashed
  <2>2. x \in written /\ s \in written
    BY <1>5 DEF Links, AsWritten, Hashed
  <2>. QED
    BY <2>1, <2>2 DEF HistoryInv, WrittenInv
<1>8. Chained(RowsOf(o))
  BY <1>1 DEF Chained, RowVerifies, ExpectedPrevHash, Before, RowsOf
<1>. QED
  BY <1>6, <1>7, <1>8

\* A log that VerifyIntegrity accepts reads, row for row, as LogRequest once left
\* it, whatever was flushed, truncated, erased or edited in it, and whenever, so
\* long as no current_hash was altered.
THEOREM ValidLogsAreGenuine == TamperSpec => []ValidLogIsGenuine
<1>1. RetentionInit => UntouchedIInv /\ HistoryInv
  BY InitIInv, InitHistory DEF RetentionInit, UntouchedIInv
<1>2. UntouchedIInv /\ HistoryInv /\ [TamperNext]_allVars => (UntouchedIInv /\ HistoryInv)'
  BY StepUntouched, StepHistory
<1>3. UntouchedIInv /\ HistoryInv => ValidLogIsGenuine
  BY ValidRows DEF UntouchedIInv, HistoryInv, GenuineInv, ValidLogIsGenuine
<1>. QED
  BY <1>1, <1>2, <1>3, PTL DEF TamperSpec
=============================================================================
