---------------------------- MODULE AuditRetention ----------------------------
(***************************************************************************)
(* What happens to the audit log besides LogRequest: the retention flush   *)
(* of the admin API, the maintenance tool that empties the table, and the  *)
(* changes by hand in the database that the hash chain is there to reveal. *)
(* None of them takes the advisory lock of LogRequest.                     *)
(***************************************************************************)
EXTENDS AuditChain

CONSTANTS
    Retention,  \* the 90 days of ServeAuditLogs, in clock units
    MaxEdited   \* bound on the rows that differ from what was written

ASSUME RetentionAssumption == Retention \in Nat /\ MaxEdited \in Nat

\* No hash is the '' of the migration.
ASSUME HashAssumption == EmptyHash \notin Seq(Data)

VARIABLES
    written,    \* history: every row that was committed, as it was then
    snapshots,  \* history: what each log has read like after a commit
    touched,    \* history: the organizations whose rows were flushed or altered
    forged      \* history: the organizations of which a current_hash was altered

history == <<written, snapshots, touched, forged>>
allVars == <<vars, history>>

Hashed(S) == {r \in S : r.current_hash # EmptyHash}

\* The rows of S one after the other, as ORDER BY id returns them.
InsertionOrder(S) ==
    CHOOSE f \in [1..Cardinality(S) -> S] :
        \A i, j \in 1..Cardinality(S) : i < j => f[i].id < f[j].id

\* The data of the hashed rows of S in insertion order.
DataOf(S) ==
    LET inOrder == InsertionOrder(Hashed(S))
    IN  [i \in DOMAIN inOrder |-> LogData(inOrder[i])]

\* The rows that are left of a log, as LogRequest wrote them.
AsWritten(o) == {r \in written : \E s \in RowsOf(o) : s.id = r.id}

RetentionInit ==
    /\ Init
    /\ written = rows
    /\ snapshots = [o \in Orgs |-> {<< >>}]
    /\ touched = {}
    /\ forged = {}

\* The server of AuditChain, with its history recorded.  Its reports are left
\* out: what a check says of a log is asked in every state.
Serve ==
    /\ Next
    /\ report' = report
    /\ written' = written \cup (rows' \ rows)
    /\ snapshots' = [o \in Orgs |->
          IF \E n \in rows' \ rows : n.organization_id = o
            THEN snapshots[o] \cup {DataOf(AsWritten(o)')}
            ELSE snapshots[o]]
    /\ UNCHANGED <<touched, forged>>

-----------------------------------------------------------------------------
Unrelated == <<now, unused, nextId, tx, report>>

Touch(o) ==
    /\ touched' = touched \cup {o}
    /\ UNCHANGED <<Unrelated, written, snapshots>>

\* DELETE /api/admin/audit: one DELETE statement that selects by timestamp,
\* the start time of the request, while the chain is ordered by id.
DeleteOldAuditLogs(o) ==
    LET old == {r \in RowsOf(o) : 2 * r.timestamp + Retention < now}
    IN  /\ old # {}
        /\ rows' = rows \ old
        /\ Touch(o)
        /\ UNCHANGED forged

\* Mistake: rows go while a transaction is about to chain to them.
TruncateAtOnce ==
    /\ rows # {}
    /\ rows' = {}
    /\ UNCHANGED <<Unrelated, history>>

\* cmd/reset_logs: TRUNCATE waits until no transaction has touched the table,
\* and leaves the id sequence where it is.
TruncateLogs ==
    /\ \A w \in Workers : pc[w] \notin {"insert", "commit"}
    /\ rows # {}
    /\ rows' = {}
    /\ UNCHANGED <<Unrelated, history>>

\* Somebody with access to the database deletes a row.
EraseRow(r) ==
    /\ rows' = rows \ {r}
    /\ Touch(r.organization_id)
    /\ UNCHANGED forged

\* The row r with another time, decision and previous_hash, and a current_hash
\* left alone or computed afresh, which takes no key.
Changed(r, t, e, p) ==
    {[r EXCEPT !.timestamp = t, !.entry = e, !.previous_hash = p, !.current_hash = c] :
        c \in {r.current_hash, CalculateHash(p, [Timestamp |-> t, Entry |-> e])}}

\* What r may be edited to: its previous_hash is left alone or linked to the row
\* before.
Edited(r) ==
    UNION {Changed(r, t, e, p) :
           t \in {x.timestamp : x \in rows}, e \in Entries,
           p \in {r.previous_hash, ExpectedPrevHash(r)} \ {EmptyHash}}

\* Somebody with access to the database changes columns of a row, but neither
\* its id nor its organization; once, which does what several edits would.  The
\* columns that no hash is computed from (provider, prompt_hash,
\* prompt_encrypted, latency_ms ...) can be edited unseen and are not modelled.
EditRow(r, s) ==
    /\ r \in written /\ s # r
    /\ rows' = (rows \ {r}) \cup {s}
    /\ Cardinality(rows' \ written) <= MaxEdited
    /\ forged' = IF s.current_hash = r.current_hash THEN forged
                 ELSE forged \cup {r.organization_id}
    /\ Touch(r.organization_id)

RetentionNext == Serve \/ \E o \in Orgs : DeleteOldAuditLogs(o)

TamperNext ==
    \/ RetentionNext
    \/ TruncateLogs
    \/ \E r \in rows : EraseRow(r) \/ \E s \in Edited(r) : EditRow(r, s)

TamperSpec == RetentionInit /\ [][TamperNext]_allVars

-----------------------------------------------------------------------------
(***************************************************************************)
(* Properties                                                              *)
(***************************************************************************)

\* A log that verifies, and of which no current_hash was ever altered, is
\* genuine: flush, truncate, erase rows, edit their times, decisions and
\* previous_hash as one may, and whatever transactions are under way meanwhile,
\* VerifyIntegrity accepts only an empty log or one whose hashed columns read,
\* row for row, as LogRequest once left them (postgres.go:656-727).  It says
\* nothing of a log of which a current_hash was altered: the hash has no key
\* (chain.go:21-37), so whoever edits a row and computes its hash and those
\* after it afresh passes the check.
ValidLogIsGenuine ==
    \A o \in Orgs \ forged :
        VerifyIntegrity(o).Valid => DataOf(RowsOf(o)) \in snapshots[o]

\* An organization whose rows nobody flushed, erased or edited passes the
\* check, although the reset tool may empty the table while transactions are
\* under way (postgres.go:352-395, reset_logs/main.go:28).
UntouchedLogVerifies ==
    \A o \in Orgs \ touched : Upgraded(o) \/ VerifyIntegrity(o).Valid
=============================================================================
