---------------------------- MODULE Server_proofs ----------------------------
(***************************************************************************)
(* What an administrator may rely on, for any number of racing updates,    *)
(* starts and stops of the server: the policy that was acknowledged is the *)
(* one in the table, and reads back as it was posted.                      *)
(***************************************************************************)
EXTENDS Server, TLAPS

-----------------------------------------------------------------------------
(* The invariant *)

Steps == {"idle", "exists", "write", "invalidate", "acknowledged", "refused", "cut"}

\* What an update is, and which have written.
UpdateInv ==
    /\ update \in [Updates -> Steps]
    /\ posted \in [Updates -> Bodies \cup {NoBody}]
    /\ found \in [Updates -> BOOLEAN]
    /\ before \in [Updates -> SUBSET Updates]
    /\ \A u \in Updates : update[u] # "idle" => posted[u] \in Bodies

\* A row of an update was written by it, and says what it posted.
RowInv ==
    \A row \in rows :
        row.by \in Updates =>
            /\ update[row.by] \in {"invalidate", "acknowledged", "refused", "cut"}
            /\ row.config = Decoded(posted[row.by])

\* There is a row as soon as somebody saw or wrote one.
PresenceInv ==
    \A u \in Updates :
        (update[u] = "write" /\ found[u]) \/ update[u] \in {"invalidate", "acknowledged"} =>
            rows # {}

\* Those an update came after stay acknowledged.
BeforeInv ==
    \A u \in Updates : \A v \in before[u] : update[v] = "acknowledged"

\* Whoever found no row came after nobody, and no row of signup comes later.
AbsenceInv ==
    ~misread =>
        \A u \in Updates :
            update[u] = "write" /\ ~found[u] =>
                before[u] = {} /\ \A row \in rows : row.by # "signup"

\* From its write on, an update has superseded those it came after.
SupersededInv ==
    ~misread =>
        \A u \in Updates :
            update[u] \in {"invalidate", "acknowledged"} =>
                \A row \in rows : row.by \notin before[u] \cup {"signup"}

IInv ==
    /\ UpdateInv /\ RowInv /\ PresenceInv /\ BeforeInv /\ AbsenceInv
    /\ SupersededInv

-----------------------------------------------------------------------------
(* Steps of the updates *)

\* A step that leaves the policy alone but ends the handlers under way, as the
\* end of the process does, keeps what is known of the updates and the rows.
LEMMA StopKeeps ==
    ASSUME IInv, Stop
    PROVE  IInv'
PROOF
<1>1. /\ UNCHANGED <<posted, found, rows, before, misread>>
      /\ update' = [u \in Updates |-> IF u \in Underway THEN "cut" ELSE update[u]]
  BY DEF Stop
<1>2. /\ UpdateInv /\ RowInv /\ PresenceInv /\ BeforeInv /\ AbsenceInv
      /\ SupersededInv
  BY DEF IInv
<1>3. \A u \in Updates : \/ u \in Underway /\ update'[u] = "cut"
                         \/ u \notin Underway /\ update'[u] = update[u]
  BY <1>1
<1>4. \A u \in Updates :
          u \in Underway <=> update[u] \in {"exists", "write", "invalidate"}
  BY DEF Underway
<1>5. UpdateInv'
  BY <1>1, <1>2, <1>3, <1>4 DEF UpdateInv, Steps
<1>6. RowInv'
  BY <1>1, <1>2, <1>3, <1>4 DEF RowInv
<1>7. PresenceInv'
  BY <1>1, <1>2, <1>3, <1>4 DEF PresenceInv
<1>8. BeforeInv'
  <2> SUFFICES ASSUME NEW u \in Updates, NEW v \in before[u]
               PROVE  update'[v] = "acknowledged"
    BY <1>1 DEF BeforeInv
  <2>1. v \in Updates
    BY <1>2 DEF UpdateInv
  <2> QED
    BY <2>1, <1>2, <1>3, <1>4 DEF BeforeInv
<1>9. AbsenceInv'
  BY <1>1, <1>2, <1>3, <1>4 DEF AbsenceInv
<1>10. SupersededInv'
  BY <1>1, <1>2, <1>3, <1>4 DEF SupersededInv
<1> QED
  BY <1>5, <1>6, <1>7, <1>8, <1>9, <1>10 DEF IInv

\* A new update comes after those that were acknowledged, and has no row yet.
LEMMA ServeConfigKeeps ==
    ASSUME IInv, NEW u \in Updates, ServeConfig(u)
    PROVE  IInv'
PROOF
<1>1. PICK body \in Bodies : posted' = [posted EXCEPT ![u] = body]
  BY DEF ServeConfig
<1>2. /\ UpdateInv /\ RowInv /\ PresenceInv /\ BeforeInv /\ AbsenceInv
      /\ SupersededInv
  BY DEF IInv
<1>3. /\ update[u] = "idle" /\ update' = [update EXCEPT ![u] = "exists"]
      /\ before' = [before EXCEPT ![u] = {v \in Updates : update[v] = "acknowledged"}]
      /\ UNCHANGED <<found, rows, misread>>
  BY DEF ServeConfig, Goto
<1>4. /\ update'[u] = "exists" /\ posted'[u] = body
      /\ before'[u] = {v \in Updates : update[v] = "acknowledged"}
      /\ \A v \in Updates \ {u} : /\ update'[v] = update[v]
                                  /\ posted'[v] = posted[v]
                                  /\ before'[v] = before[v]
  BY <1>1, <1>2, <1>3 DEF UpdateInv
<1>5. UpdateInv'
  BY <1>1, <1>2, <1>3, <1>4 DEF UpdateInv, Steps
<1>6. RowInv'
  BY <1>2, <1>3, <1>4 DEF RowInv
<1>7. PresenceInv'
  BY <1>2, <1>3, <1>4 DEF PresenceInv
<1>8. BeforeInv'
  <2> SUFFICES ASSUME NEW w \in Updates, NEW v \in before'[w]
               PROVE  update'[v] = "acknowledged"
    BY DEF BeforeInv
  <2>1. v \in Updates /\ update[v] = "acknowledged"
    BY <1>2, <1>4 DEF BeforeInv, UpdateInv
  <2> QED
    BY <2>1, <1>3, <1>4
<1>9. AbsenceInv'
  BY <1>2, <1>3, <1>4 DEF AbsenceInv
<1>10. SupersededInv'
  BY <1>2, <1>3, <1>4 DEF SupersededInv
<1> QED
  BY <1>5, <1>6, <1>7, <1>8, <1>9, <1>10 DEF IInv

\* Who finds no row came after nobody: an acknowledged update left one.
LEMMA CheckExistsKeeps ==
    ASSUME IInv, NEW u \in Updates, CheckExists(u)
    PROVE  IInv'
PROOF
<1>1. PICK answer \in BOOLEAN :
          /\ found' = [found EXCEPT ![u] = answer]
          /\ \/ answer = (rows # {}) /\ UNCHANGED misread
             \/ ~answer /\ misread' = TRUE
  BY DEF CheckExists
<1>2. /\ UpdateInv /\ RowInv /\ PresenceInv /\ BeforeInv /\ AbsenceInv
      /\ SupersededInv
  BY DEF IInv
<1>3. /\ update[u] = "exists" /\ update' = [update EXCEPT ![u] = "write"]
      /\ UNCHANGED <<posted, rows, before>>
  BY DEF CheckExists, Goto
<1>4. /\ update'[u] = "write" /\ found'[u] = answer
      /\ \A v \in Updates \ {u} : update'[v] = update[v] /\ found'[v] = found[v]
  BY <1>1, <1>2, <1>3 DEF UpdateInv
<1>5. UpdateInv'
  BY <1>1, <1>2, <1>3, <1>4 DEF UpdateInv, Steps
<1>6. RowInv'
  BY <1>2, <1>3, <1>4 DEF RowInv
<1>7. PresenceInv'
  BY <1>1, <1>2, <1>3, <1>4 DEF PresenceInv
<1>8. BeforeInv'
  BY <1>2, <1>3, <1>4 DEF BeforeInv, UpdateInv
<1>9. AbsenceInv'
  <2> SUFFICES ASSUME ~misread', NEW v \in Updates, update'[v] = "write", ~found'[v]
               PROVE  before[v] = {} /\ \A row \in rows : row.by # "signup"
    BY <1>3 DEF AbsenceInv
  <2>1. ~misread /\ answer = (rows # {})
    BY <1>1
  <2>2. CASE v = u
    <3>1. rows = {}
      BY <2>1, <2>2, <1>4
    <3>2. before[u] \subseteq Updates
      BY <1>2 DEF UpdateInv
    <3> QED
      BY <3>1, <3>2, <2>2, <1>2 DEF BeforeInv, PresenceInv
  <2>3. CASE v # u
    BY <2>1, <2>3, <1>2, <1>4 DEF AbsenceInv
  <2> QED
    BY <2>2, <2>3
<1>10. SupersededInv'
  BY <1>1, <1>2, <1>3, <1>4 DEF SupersededInv
<1> QED
  BY <1>5, <1>6, <1>7, <1>8, <1>9, <1>10 DEF IInv

\* A writer replaces what it saw, or came after nobody; in neither case does it
\* bring back a row that somebody else has superseded.
LEMMA WriteRowKeeps ==
    ASSUME IInv, NEW u \in Updates, WriteRow(u)
    PROVE  IInv'
PROOF
<1> DEFINE row == [config |-> Marshal(Decoded(posted[u])), by |-> u]
<1>1. PICK to \in {"invalidate", "refused"} : update' = [update EXCEPT ![u] = to]
  BY DEF WriteRow, Goto
<1>2. /\ UpdateInv /\ RowInv /\ PresenceInv /\ BeforeInv /\ AbsenceInv
      /\ SupersededInv
  BY DEF IInv
<1>3. /\ update[u] = "write" /\ rows' = Written(u, row)
      /\ UNCHANGED <<posted, found, before, misread>>
  BY DEF WriteRow, Goto
<1>4. update'[u] = to /\ \A v \in Updates \ {u} : update'[v] = update[v]
  BY <1>1, <1>2 DEF UpdateInv
<1>5. \/ found[u] /\ rows' = {row}
      \/ ~found[u] /\ rows' = rows \cup {row}
  BY <1>2, <1>3 DEF Written, PresenceInv
<1>6. row.by = u /\ row.config = Decoded(posted[u])
  BY DEF Marshal
<1> HIDE DEF row
<1>7. rows' # {} /\ \A r \in rows' : r \in rows \/ r = row
  BY <1>5
<1>8. \A v \in Updates : u \notin before[v]
  BY <1>2, <1>3 DEF BeforeInv
<1>9. u # "signup"
  BY PolicyStoreAssumption
<1>10. UpdateInv'
  BY <1>1, <1>2, <1>3, <1>4 DEF UpdateInv, Steps
<1>11. RowInv'
  BY <1>1, <1>2, <1>3, <1>4, <1>6, <1>7 DEF RowInv
<1>12. PresenceInv'
  BY <1>7 DEF PresenceInv
<1>13. BeforeInv'
  <2> SUFFICES ASSUME NEW w \in Updates, NEW v \in before[w]
               PROVE  update'[v] = "acknowledged"
    BY <1>3 DEF BeforeInv
  <2>1. v \in Updates /\ v # u /\ update[v] = "acknowledged"
    BY <1>2, <1>8 DEF BeforeInv, UpdateInv
  <2> QED
    BY <2>1, <1>4
<1>14. AbsenceInv'
  BY <1>1, <1>2, <1>3, <1>4, <1>6, <1>7, <1>9 DEF AbsenceInv
<1>15. SupersededInv'
  <2> SUFFICES ASSUME ~misread, NEW v \in Updates,
                      update'[v] \in {"invalidate", "acknowledged"}, NEW r \in rows'
               PROVE  r.by \notin before[v] \cup {"signup"}
    BY <1>3 DEF SupersededInv
  <2>1. CASE r = row
    BY <2>1, <1>6, <1>8, <1>9
  <2>2. CASE v # u /\ r \in rows
    BY <2>2, <1>2, <1>4 DEF SupersededInv
  <2>3. CASE v = u /\ r # row
    BY <2>3, <1>2, <1>3, <1>5 DEF AbsenceInv
  <2> QED
    BY <2>1, <2>2, <2>3, <1>7
<1> QED
  BY <1>10, <1>11, <1>12, <1>13, <1>14, <1>15 DEF IInv

\* A write that fails changes nothing but what its handler does.
LEMMA RefuseWriteKeeps ==
    ASSUME IInv, NEW u \in Updates, RefuseWrite(u)
    PROVE  IInv'
PROOF
<1>1. /\ UpdateInv /\ RowInv /\ PresenceInv /\ BeforeInv /\ AbsenceInv
      /\ SupersededInv
  BY DEF IInv
<1>2. /\ update[u] = "write" /\ update' = [update EXCEPT ![u] = "refused"]
      /\ UNCHANGED <<posted, found, rows, before, misread>>
  BY DEF RefuseWrite, Goto
<1>3. update'[u] = "refused" /\ \A v \in Updates \ {u} : update'[v] = update[v]
  BY <1>1, <1>2 DEF UpdateInv
<1>4. UpdateInv'
  BY <1>1, <1>2, <1>3 DEF UpdateInv, Steps
<1>5. RowInv'
  BY <1>1, <1>2, <1>3 DEF RowInv
<1>6. PresenceInv'
  BY <1>1, <1>2, <1>3 DEF PresenceInv
<1>7. BeforeInv'
  BY <1>1, <1>2, <1>3 DEF BeforeInv, UpdateInv
<1>8. AbsenceInv'
  BY <1>1, <1>2, <1>3 DEF AbsenceInv
<1>9. SupersededInv'
  BY <1>1, <1>2, <1>3 DEF SupersededInv
<1> QED
  BY <1>4, <1>5, <1>6, <1>7, <1>8, <1>9 DEF IInv

\* The acknowledgment comes after the write.
LEMMA InvalidateOrgKeeps ==
    ASSUME IInv, NEW u \in Updates, InvalidateOrg(u)
    PROVE  IInv'
PROOF
<1>1. /\ UpdateInv /\ RowInv /\ PresenceInv /\ BeforeInv /\ AbsenceInv
      /\ SupersededInv
  BY DEF IInv
<1>2. /\ update[u] = "invalidate" /\ update' = [update EXCEPT ![u] = "acknowledged"]
      /\ UNCHANGED <<posted, found, rows, before, misread>>
  BY DEF InvalidateOrg, Goto
<1>3. update'[u] = "acknowledged" /\ \A v \in Updates \ {u} : update'[v] = update[v]
  BY <1>1, <1>2 DEF UpdateInv
<1>4. UpdateInv'
  BY <1>1, <1>2, <1>3 DEF UpdateInv, Steps
<1>5. RowInv'
  BY <1>1, <1>2, <1>3 DEF RowInv
<1>6. PresenceInv'
  BY <1>1, <1>2, <1>3 DEF PresenceInv
<1>7. BeforeInv'
  BY <1>1, <1>2, <1>3 DEF BeforeInv, UpdateInv
<1>8. AbsenceInv'
  BY <1>1, <1>2, <1>3 DEF AbsenceInv
<1>9. SupersededInv'
  BY <1>1, <1>2, <1>3 DEF SupersededInv
<1> QED
  BY <1>4, <1>5, <1>6, <1>7, <1>8, <1>9 DEF IInv

-----------------------------------------------------------------------------
(* Steps of the process *)

\* A step that leaves the policy alone keeps the invariant.
LEMMA IdleKeeps ==
    ASSUME IInv, UNCHANGED policyVars
    PROVE  IInv'
PROOF
<1>1. UNCHANGED <<update, posted, found, rows, before, misread>>
  BY DEF policyVars
<1> QED
  BY <1>1 DEF IInv, UpdateInv, RowInv, PresenceInv, BeforeInv, AbsenceInv,
              SupersededInv

\* Every step of the process either leaves the policy alone or ends it.
LEMMA ProcessSteps ==
    ASSUME Start \/ Startup \/ ListenFails \/ SendSignal \/ ServeReload
               \/ HandleReload \/ HandleSignal \/ Shutdown
    PROVE  Stop \/ UNCHANGED policyVars
PROOF
<1>1. CASE Start
  BY <1>1 DEF Start
<1>2. CASE Startup
  BY <1>2 DEF Startup, PingFails, PingSucceeds, InitSchema, ConnectRedis, Notify, Advance
<1>3. CASE ListenFails \/ Shutdown
  BY <1>3 DEF ListenFails, Shutdown, Drained, DrainTimesOut
<1>4. CASE SendSignal \/ ServeReload
  BY <1>4 DEF SendSignal, ServeReload
<1>5. CASE HandleReload \/ HandleSignal
  BY <1>5 DEF HandleReload, HandleSignal, Advance
<1> QED
  BY <1>1, <1>2, <1>3, <1>4, <1>5

\* A step of a handler is one of the five of its update.
LEMMA HandleKeeps ==
    ASSUME IInv, NEW u \in Updates, Handle(u)
    PROVE  IInv'
PROOF
<1>1. \/ ServeConfig(u) \/ CheckExists(u) \/ WriteRow(u) \/ RefuseWrite(u)
      \/ InvalidateOrg(u)
  BY DEF Handle, UpdateStep
<1> QED
  BY <1>1, ServeConfigKeeps, CheckExistsKeeps, WriteRowKeeps, RefuseWriteKeeps,
     InvalidateOrgKeeps

-----------------------------------------------------------------------------
(* Theorems *)

\* No update has begun, and the one row there may be is of signup.
LEMMA Initially == Init => IInv
PROOF
<1> SUFFICES ASSUME Init
             PROVE  IInv
  OBVIOUS
<1>1. InitPolicy
  BY DEF Init
<1>2. UpdateInv
  BY <1>1 DEF InitPolicy, UpdateInv, Steps
<1>3. RowInv
  BY <1>1, PolicyStoreAssumption DEF InitPolicy, RowInv
<1>4. PresenceInv /\ BeforeInv /\ AbsenceInv /\ SupersededInv
  BY <1>1 DEF InitPolicy, PresenceInv, BeforeInv, AbsenceInv, SupersededInv
<1> QED
  BY <1>2, <1>3, <1>4 DEF IInv

\* The invariant holds in every state of every server.
THEOREM Invariance == Spec => []IInv
PROOF
<1>1. IInv /\ [Next]_vars => IInv'
  <2> SUFFICES ASSUME IInv, [Next]_vars
               PROVE  IInv'
    OBVIOUS
  <2>1. CASE Start \/ Startup \/ ListenFails \/ SendSignal \/ ServeReload
                 \/ HandleReload \/ HandleSignal \/ Shutdown
    BY <2>1, ProcessSteps, StopKeeps, IdleKeeps
  <2>2. CASE \E u \in Updates : Handle(u)
    BY <2>2, HandleKeeps
  <2>3. CASE UNCHANGED vars
    BY <2>3, IdleKeeps DEF vars, processVars
  <2> QED
    BY <2>1, <2>2, <2>3 DEF Next
<1> QED
  BY <1>1, Initially, PTL DEF Spec

\* Once an update is acknowledged, no row has the policy of signup or of an
\* update it came after, however many updates race and whatever cuts them
\* short (postgres.go:435-446).
THEOREM Supersedes == Spec => []AcknowledgedUpdateSupersedes
PROOF
<1>1. IInv => AcknowledgedUpdateSupersedes
  BY DEF IInv, SupersededInv, AcknowledgedUpdateSupersedes
<1> QED
  BY <1>1, Invariance, PTL

\* What the proxy reads is what the answer to the update said, for any bodies
\* and any defaults of the fields they leave out (admin.go:198-217).
THEOREM ReadsBack == Spec => []PolicyReadsBack
PROOF
<1>1. IInv => PolicyReadsBack
  <2>1. \A body : ParseConfig(Decoded(body)) = Sensible(Decoded(body))
    BY DEF ParseConfig, Decoded, Unmarshalled
  <2> QED
    BY <2>1 DEF IInv, RowInv, PolicyReadsBack
<1> QED
  BY <1>1, Invariance, PTL
=============================================================================
