------------------------------ MODULE AuditChain ------------------------------
(***************************************************************************)
(* The tamper-evident audit log of ClearGate: Store.LogRequest writes one  *)
(* row of request_logs per decision, chained by hash to the previous row   *)
(* of the same organization, and Store.VerifyIntegrity walks that chain.   *)
(*                                                                         *)
(* LogRequest is a Postgres transaction of five database calls, and the    *)
(* handlers of any number of requests run it at the same time, so every    *)
(* database call is a step of its own here.  What keeps the chain in one   *)
(* piece is the advisory lock the transaction takes per organization.      *)
(*                                                                         *)
(* The hash is symbolic: SHA-256 is taken to be injective, and so is the   *)
(* payload it is applied to, fields joined by '|'.  A hash then is the     *)
(* sequence of the data it was computed from.                              *)
(***************************************************************************)
EXTENDS Naturals, Sequences, FiniteSets

CONSTANTS
    Workers,       \* the request handlers that run concurrently
    Orgs,          \* organization ids
    Requests,      \* request ids; a uuid is never handed out twice
    Flagged,       \* the requests whose response the output guard objects to
    MaxOpenConns,  \* db.SetMaxOpenConns, the size of the connection pool
    MaxTime,       \* bound on the clock
    None,          \* no worker, no request, no report
    EmptyHash      \* the '' a migration leaves in the hash columns of old rows

ASSUME PoolAssumption == MaxOpenConns \in Nat \ {0}
ASSUME FlaggedAssumption == Flagged \subseteq Requests
ASSUME NoneAssumption == None \notin Workers /\ None \notin Requests

VARIABLES
    now,       \* the clock, in half microseconds
    unused,    \* entries that no handler has begun to log
    forwarded, \* flagged requests that were passed on, their prompt logged or not
    rows,      \* committed rows of request_logs
    nextId,    \* the SERIAL sequence behind request_logs.id
    lock,      \* pg_advisory_xact_lock(4711, org): its holder
    pc,        \* where each handler is in LogRequest
    meta,      \* the RequestMetadata each handler logs
    prevHash,  \* prevHash, the local of LogRequest
    pending,   \* the row a transaction inserted and has not committed
    report     \* the last IntegrityReport given to each organization

tx    == <<lock, pc, meta, prevHash, pending, forwarded>>
table == <<rows, nextId>>
vars  == <<now, unused, forwarded, rows, nextId, lock, pc, meta, prevHash, pending,
           report>>

-----------------------------------------------------------------------------
(***************************************************************************)
(* Timestamps.  The proxy reads a nanosecond clock, LogRequest cuts it to  *)
(* microseconds, Postgres rounds what it stores to the nearest microsecond *)
(* and the hash is computed from UnixMicro, which rounds down.  Half       *)
(* microseconds are enough to tell the three apart.                        *)
(***************************************************************************)
\* Mistake: the nanoseconds of the clock reach the hash.
TruncateNot(t) == t

Truncate(t)    == t - (t % 2)
UnixMicro(t)   == t \div 2
StoredMicro(t) == (t + 1) \div 2

(***************************************************************************)
(* The hash chain of pkg/integrity.                                        *)
(***************************************************************************)
GenesisHash == << >>

CalculateHash(prev, data) == Append(prev, data)

\* What a call of LogRequest is about: the decision on the prompt of a request,
\* or on its response.  It stands for RequestID, UserID, Verdict, ThreatDetails
\* and RiskScore; the two calls of a request share the id and differ in the rest.
Entries == (Requests \X {"prompt"}) \cup (Flagged \X {"response"})

\* The hashed fields of a stored row.
LogData(r) == [Timestamp |-> r.timestamp, Entry |-> r.entry]

RowsOf(o) == {r \in rows : r.organization_id = o}

Before(r) == {p \in RowsOf(r.organization_id) : p.id < r.id}

LastOf(S) == CHOOSE r \in S : \A s \in S : s.id <= r.id

\* Mistake: the hash column of the last row is taken as it is.
LastHashUnchecked(S) == IF S = {} THEN GenesisHash ELSE LastOf(S).current_hash

\* SELECT current_hash ... ORDER BY id DESC LIMIT 1 over the rows S, with the
\* two fallbacks to the genesis hash: no row at all, and a row with no hash.
LastHash(S) ==
    IF S = {} \/ LastOf(S).current_hash = EmptyHash
      THEN GenesisHash
      ELSE LastOf(S).current_hash

-----------------------------------------------------------------------------
(***************************************************************************)
(* VerifyIntegrity: rows in id order, each checked against the hash of the *)
(* row before it and against its own data; the first failure is reported.  *)
(***************************************************************************)
ExpectedPrevHash(r) ==
    IF Before(r) = {} THEN GenesisHash ELSE LastOf(Before(r)).current_hash

\* Mistake: rows are checked one by one.
RowVerifiesAlone(r) ==
    /\ r.previous_hash # EmptyHash
    /\ r.current_hash = CalculateHash(r.previous_hash, LogData(r))

RowVerifies(r) ==
    /\ r.previous_hash = ExpectedPrevHash(r)
    /\ r.current_hash = CalculateHash(r.previous_hash, LogData(r))

BrokenRows(o) == {r \in RowsOf(o) : ~RowVerifies(r)}

VerifyIntegrity(o) ==
    IF BrokenRows(o) = {}
      THEN [Valid |-> TRUE, BrokenAtID |-> 0, TotalChecked |-> Cardinality(RowsOf(o))]
      ELSE LET first == CHOOSE r \in BrokenRows(o) : \A s \in BrokenRows(o) : r.id <= s.id
           IN  [Valid |-> FALSE, BrokenAtID |-> first.id,
                TotalChecked |-> Cardinality(Before(first))]

-----------------------------------------------------------------------------
(***************************************************************************)
(* A database upgraded from a version without hash columns holds rows      *)
(* whose hashes are empty.                                                 *)
(***************************************************************************)
LegacyRow(o) ==
    [id |-> 1, organization_id |-> o, timestamp |-> 0, entry |-> None,
     previous_hash |-> EmptyHash, current_hash |-> EmptyHash]

NoRow  == LegacyRow(None)
NoMeta == [Timestamp |-> 0, Entry |-> None, OrganizationID |-> None]

Init ==
    /\ now = 0
    /\ unused = Entries
    /\ forwarded = {}
    /\ \/ rows = {} /\ nextId = 1
       \/ \E o \in Orgs : rows = {LegacyRow(o)} /\ nextId = 2
    /\ lock = [o \in Orgs |-> None]
    /\ pc = [w \in Workers |-> "idle"]
    /\ meta = [w \in Workers |-> NoMeta]
    /\ prevHash = [w \in Workers |-> GenesisHash]
    /\ pending = [w \in Workers |-> NoRow]
    /\ report = [o \in Orgs |-> None]

InTx(w) == pc[w] \in {"lock", "read", "insert", "commit"}

OpenConns == Cardinality({w \in Workers : InTx(w)})

\* The request is passed on whatever became of its row, unless it is blocked.
Forwarding(w) ==
    {[RequestID |-> req, OrganizationID |-> meta[w].OrganizationID] :
        req \in {q \in Flagged : meta[w].Entry = <<q, "prompt">>}}

\* Mistake: a session lock, which survives the transaction.
EndTxLocked(w) ==
    /\ pc' = [pc EXCEPT ![w] = "idle"]
    /\ meta' = [meta EXCEPT ![w] = NoMeta]
    /\ prevHash' = [prevHash EXCEPT ![w] = GenesisHash]
    /\ pending' = [pending EXCEPT ![w] = NoRow]
    /\ forwarded' = forwarded \cup Forwarding(w)
    /\ UNCHANGED lock

\* The end of a transaction, whatever its outcome, frees its advisory lock,
\* and LogRequest returns.
EndTx(w) ==
    /\ lock' = [o \in Orgs |-> IF lock[o] = w THEN None ELSE lock[o]]
    /\ pc' = [pc EXCEPT ![w] = "idle"]
    /\ meta' = [meta EXCEPT ![w] = NoMeta]
    /\ prevHash' = [prevHash EXCEPT ![w] = GenesisHash]
    /\ pending' = [pending EXCEPT ![w] = NoRow]
    /\ forwarded' = forwarded \cup Forwarding(w)

\* A handler has something to log, once; the time is taken now, the decision
\* is logged later.
Log(w, e, o) ==
    /\ pc[w] = "idle"
    /\ e \in unused
    /\ pc' = [pc EXCEPT ![w] = "begin"]
    /\ meta' = [meta EXCEPT ![w] =
                  [Timestamp |-> Truncate(now), Entry |-> e, OrganizationID |-> o]]
    /\ unused' = unused \ {e}
    /\ UNCHANGED <<now, forwarded, table, lock, prevHash, pending, report>>

\* A request arrives: ServeHTTP takes its start time and draws its id, and will
\* log its decision when the whole pipeline has run.
Arrive(w, req, o) == Log(w, <<req, "prompt">>, o)

\* The output guard objects to the response: a second row with the same id and
\* a time of its own.
LogResponse(w, f) == Log(w, <<f.RequestID, "response">>, f.OrganizationID)

\* s.db.Begin(): waits for a connection of the pool, without a deadline.
BeginTx(w) ==
    /\ pc[w] = "begin"
    /\ OpenConns < MaxOpenConns
    /\ pc' = [pc EXCEPT ![w] = "lock"]
    /\ UNCHANGED <<now, unused, forwarded, table, lock, meta, prevHash, pending, report>>

\* Mistake: the handler goes on without the lock.
AcquireNothing(w) ==
    /\ pc[w] = "lock"
    /\ pc' = [pc EXCEPT ![w] = "read"]
    /\ UNCHANGED <<now, unused, forwarded, table, lock, meta, prevHash, pending, report>>

\* SELECT pg_advisory_xact_lock(4711, org): waits, holding its connection.
AcquireOrgLock(w) ==
    /\ pc[w] = "lock"
    /\ lock[meta[w].OrganizationID] = None
    /\ lock' = [lock EXCEPT ![meta[w].OrganizationID] = w]
    /\ pc' = [pc EXCEPT ![w] = "read"]
    /\ UNCHANGED <<now, unused, forwarded, table, meta, prevHash, pending, report>>

ReadPrevHash(w) ==
    /\ pc[w] = "read"
    /\ prevHash' = [prevHash EXCEPT ![w] = LastHash(RowsOf(meta[w].OrganizationID))]
    /\ pc' = [pc EXCEPT ![w] = "insert"]
    /\ UNCHANGED <<now, unused, forwarded, table, lock, meta, pending, report>>

\* The row is in the transaction only; its id is drawn for good.
InsertRow(w) ==
    LET m == meta[w]
        data == [Timestamp |-> UnixMicro(m.Timestamp), Entry |-> m.Entry]
    IN  /\ pc[w] = "insert"
        /\ pending' = [pending EXCEPT ![w] =
              [id |-> nextId, organization_id |-> m.OrganizationID,
               timestamp |-> StoredMicro(m.Timestamp), entry |-> m.Entry,
               previous_hash |-> prevHash[w],
               current_hash |-> CalculateHash(prevHash[w], data)]]
        /\ nextId' = nextId + 1
        /\ pc' = [pc EXCEPT ![w] = "commit"]
        /\ UNCHANGED <<now, unused, forwarded, rows, lock, meta, prevHash, report>>

\* COMMIT takes effect, whether or not its acknowledgement gets back.
CommitTx(w) ==
    /\ pc[w] = "commit"
    /\ rows' = rows \cup {pending[w]}
    /\ EndTx(w)
    /\ UNCHANGED <<now, unused, nextId, report>>

\* Any database call of LogRequest fails: it logs the error and returns, the
\* deferred Rollback undoes the insert, and the request goes on without a row.
Rollback(w) ==
    /\ pc[w] = "begin" \/ InTx(w)
    /\ EndTx(w)
    /\ UNCHANGED <<now, unused, table, report>>

\* The process dies: Postgres aborts the transactions of its connections.
Crash ==
    /\ forwarded # {} \/ \E w \in Workers : pc[w] # "idle"
    /\ lock' = [o \in Orgs |-> None]
    /\ pc' = [w \in Workers |-> "idle"]
    /\ meta' = [w \in Workers |-> NoMeta]
    /\ prevHash' = [w \in Workers |-> GenesisHash]
    /\ pending' = [w \in Workers |-> NoRow]
    /\ forwarded' = {}
    /\ UNCHANGED <<now, unused, table, report>>

\* GET /api/admin/integrity, one consistent query.
ServeIntegrityCheck(o) ==
    /\ report' = [report EXCEPT ![o] = VerifyIntegrity(o)]
    /\ UNCHANGED <<now, unused, table, tx>>

Tick ==
    /\ now < MaxTime
    /\ now' = now + 1
    /\ UNCHANGED <<unused, table, tx, report>>

LogRequest(w) ==
    BeginTx(w) \/ AcquireOrgLock(w) \/ ReadPrevHash(w) \/ InsertRow(w) \/ CommitTx(w)

Next ==
    \/ \E w \in Workers :
          \/ \E req \in Requests, o \in Orgs : Arrive(w, req, o)
          \/ \E f \in forwarded : LogResponse(w, f)
          \/ LogRequest(w)
          \/ Rollback(w)
    \/ \E o \in Orgs : ServeIntegrityCheck(o)
    \/ Crash
    \/ Tick

\* A handler that has work to do does it.  The two waits are granted in the
\* order of the requests for them, by database/sql and by the lock manager of
\* Postgres, so a handler that keeps waiting is served: strong fairness.
Fairness ==
    \A w \in Workers :
        /\ SF_vars(BeginTx(w))
        /\ SF_vars(AcquireOrgLock(w))
        /\ WF_vars(ReadPrevHash(w))
        /\ WF_vars(InsertRow(w))
        /\ WF_vars(CommitTx(w))

Spec == Init /\ [][Next]_vars

FairSpec == Spec /\ Fairness

-----------------------------------------------------------------------------
(***************************************************************************)
(* Properties                                                              *)
(***************************************************************************)
Data   == [Timestamp : Nat, Entry : Entries \cup {None}]
Hashes == Seq(Data) \cup {EmptyHash}

Row == [id : Nat, organization_id : Orgs, timestamp : Nat,
        entry : Entries \cup {None},
        previous_hash : Hashes, current_hash : Hashes]

IntegrityReport == [Valid : BOOLEAN, BrokenAtID : Nat, TotalChecked : Nat]

Metadata == [Timestamp : Nat, Entry : Entries, OrganizationID : Orgs]

\* The variables have their types: committed rows and the rows of open
\* transactions are rows of request_logs, and a handler inside LogRequest has
\* the metadata of a request.
TypeOK ==
    /\ now \in Nat
    /\ unused \subseteq Entries
    /\ forwarded \subseteq [RequestID : Flagged, OrganizationID : Orgs]
    /\ rows \subseteq Row
    /\ nextId \in Nat
    /\ lock \in [Orgs -> Workers \cup {None}]
    /\ pc \in [Workers -> {"idle", "begin", "lock", "read", "insert", "commit"}]
    /\ meta \in [Workers -> Metadata \cup {NoMeta}]
    /\ \A w \in Workers : pc[w] # "idle" => meta[w] \in Metadata
    /\ prevHash \in [Workers -> Seq(Data)]
    /\ pending \in [Workers -> Row \cup {NoRow}]
    /\ \A w \in Workers : pc[w] = "commit" => pending[w] \in Row
    /\ report \in [Orgs -> IntegrityReport \cup {None}]

\* Every row written by LogRequest carries the hash of its own data chained to
\* the row that precedes it in its organization, however the handlers of that
\* organization, failed transactions and crashes interleave: no fork, no gap.
ChainLinked ==
    \A r \in rows :
        r.current_hash # EmptyHash =>
            /\ r.previous_hash = LastHash(Before(r))
            /\ r.current_hash = CalculateHash(r.previous_hash, LogData(r))

Upgraded(o) == \E r \in RowsOf(o) : r.current_hash = EmptyHash

\* VerifyIntegrity never accuses an honest log: what LogRequest alone has
\* written verifies at any moment, unless the organization had rows from
\* before the hash columns existed.
HonestLogVerifies ==
    \A o \in Orgs : Upgraded(o) \/ VerifyIntegrity(o).Valid

\* The log only grows, and at its end: a commit never slips a row in front of
\* one that a verification may already have walked past.
AppendOnly ==
    [][/\ rows \subseteq rows'
       /\ \A n \in rows' \ rows : \A r \in RowsOf(n.organization_id) : r.id < n.id]_vars

\* LogRequest returns: with a bounded pool and a lock per organization, the
\* handlers never end up all waiting for one another.
LogRequestReturns ==
    \A w \in Workers : pc[w] = "begin" ~> pc[w] = "idle"
=============================================================================
