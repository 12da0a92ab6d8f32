---------------------------- MODULE PolicyStore ----------------------------
(***************************************************************************)
(* The policy of one organization in the table policies, and the updates   *)
(* of its administrators: ServeConfig (pkg/api/admin.go) with UpdatePolicy *)
(* and GetPolicyByOrgID (pkg/storage/postgres.go) and ParseConfig          *)
(* (pkg/policy/engine.go).  No key keeps an organization from having two   *)
(* rows.                                                                   *)
(***************************************************************************)
CONSTANTS
    Updates,   \* handlers of POST /api/config
    Bodies,    \* the JSON objects posted: functions on some of Fields
    Cold,      \* what the row of a new organization says, a JSON object too
    Failures   \* of "exists", "write", "lost" (written, but reported as failed)

Fields == {"sensitivity", "vector_guard", "injection_threshold"}

ASSUME PolicyStoreAssumption ==
    /\ \A body \in Bodies \cup {Cold} : DOMAIN body \subseteq Fields
    /\ Failures \subseteq {"exists", "write", "lost"}
    /\ "signup" \notin Updates

VARIABLES
    update,   \* what each update does next
    posted,   \* its body
    found,    \* what EXISTS told it
    rows,     \* the rows of the organization: the JSON and who wrote it
    \* history
    before,   \* the updates that were acknowledged when this one began
    misread   \* an EXISTS failed and was read as no

policyVars == <<update, posted, found, rows, before, misread>>

NoBody == [f \in {} |-> 0]

Zero == [sensitivity |-> "", vector_guard |-> FALSE, injection_threshold |-> 0]

DefaultConfig == [sensitivity |-> "MEDIUM", vector_guard |-> TRUE, injection_threshold |-> 800]

\* json.Decode and json.Unmarshal leave a field alone that the text does not have.
Unmarshalled(json, cfg) == [f \in Fields |-> IF f \in DOMAIN json THEN json[f] ELSE cfg[f]]

\* ServeConfig decodes into an empty GlobalConfig: what is absent is off.
Decoded(body) == Unmarshalled(body, Zero)

\* Mistake: fields with the tag omitempty.
MarshalNonEmpty(cfg) == [f \in {g \in Fields : cfg[g] # Zero[g]} |-> cfg[f]]

Marshal(cfg) == cfg

Sensible(cfg) == IF cfg.sensitivity = "" THEN [cfg EXCEPT !.sensitivity = "MEDIUM"] ELSE cfg

\* Over DefaultConfig: what is absent is as in the default.
ParseConfig(json) == Sensible(Unmarshalled(json, DefaultConfig))

InitPolicy ==
    /\ update = [u \in Updates |-> "idle"]
    /\ posted = [u \in Updates |-> NoBody]
    /\ found = [u \in Updates |-> FALSE]
    /\ rows \in {{}, {[config |-> Cold, by |-> "signup"]}}
    /\ before = [u \in Updates |-> {}]
    /\ misread = FALSE

Goto(u, from, to) == update[u] = from /\ update' = [update EXCEPT ![u] = to]

ServeConfig(u) ==
    /\ Goto(u, "idle", "exists")
    /\ posted' \in {[posted EXCEPT ![u] = body] : body \in Bodies}
    /\ before' = [before EXCEPT ![u] = {v \in Updates : update[v] = "acknowledged"}]
    /\ UNCHANGED <<found, rows, misread>>

CheckExists(u) ==
    /\ Goto(u, "exists", "write")
    /\ \/ /\ found' = [found EXCEPT ![u] = rows # {}]
          /\ UNCHANGED misread
       \/ /\ "exists" \in Failures
          /\ found' = [found EXCEPT ![u] = FALSE]
          /\ misread' = TRUE
    /\ UNCHANGED <<posted, rows, before>>

\* Mistake: a policy is added without looking for one.
WrittenAnew(u, row) == rows \cup {row}

\* UPDATE changes every row there is.
Written(u, row) ==
    IF ~found[u] THEN rows \cup {row} ELSE IF rows = {} THEN {} ELSE {row}

WriteRow(u) ==
    /\ \/ Goto(u, "write", "invalidate")
       \/ "lost" \in Failures /\ Goto(u, "write", "refused")
    /\ rows' = Written(u, [config |-> Marshal(Decoded(posted[u])), by |-> u])
    /\ UNCHANGED <<posted, found, before, misread>>

RefuseWrite(u) ==
    /\ "write" \in Failures
    /\ Goto(u, "write", "refused")
    /\ UNCHANGED <<posted, found, rows, before, misread>>

\* What becomes of the cached verdicts, whether Redis answers or not, is
\* Gateway's subject: the update is acknowledged in any case.
InvalidateOrg(u) ==
    /\ Goto(u, "invalidate", "acknowledged")
    /\ UNCHANGED <<posted, found, rows, before, misread>>

UpdateStep(u) == CheckExists(u) \/ WriteRow(u) \/ RefuseWrite(u) \/ InvalidateOrg(u)

Underway == {u \in Updates : update[u] \in {"exists", "write", "invalidate"}}

-----------------------------------------------------------------------------
(* Properties *)

\* Once an update is acknowledged, no row has the policy of signup or of an
\* update that was acknowledged before this one began, though updates race to
\* insert the first row and leave two, and die half-way, unless the question
\* whether there is a row failed (postgres.go:435-446).
AcknowledgedUpdateSupersedes ==
    ~misread =>
        \A u \in Updates : update[u] = "acknowledged" =>
            \A row \in rows : row.by \notin before[u] \cup {"signup"}

\* What the proxy reads is what the answer to the update said, switches that
\* were turned off or left out included, although the proxy reads it over the
\* defaults; only a sensitivity that was left out is answered as "" and read as
\* MEDIUM (admin.go:198-217, engine.go:57-71).
PolicyReadsBack ==
    \A row \in rows :
        row.by \in Updates => ParseConfig(row.config) = Sensible(Decoded(posted[row.by]))
=============================================================================
