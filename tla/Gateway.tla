------------------------------- MODULE Gateway -------------------------------
(***************************************************************************)
(* Concurrent requests through ProxyHandler.ServeHTTP and                  *)
(* forwardToProvider (pkg/proxy/handler.go), against the state they share: *)
(* the policies in Postgres, the verdicts and risk counters in Redis, and  *)
(* the audit log.  An administrator's ServeConfig (pkg/api/admin.go)       *)
(* replaces a policy and invalidates the organization's verdicts while     *)
(* requests are under way, and clients read streamed answers as slowly as  *)
(* they like.                                                              *)
(*                                                                         *)
(* Every access to shared state is a step of its own.  How a row of the    *)
(* log is written is AuditChain's subject, how the signals are gathered    *)
(* Pipeline's; here each is one step.                                      *)
(***************************************************************************)
EXTENDS PolicyEngine, Sequences

CONSTANTS
    Requests,       \* client requests, each served by a goroutine
    Orgs,           \* organizations
    Users,          \* values of the X-ClearGate-User header
    PromptSet,      \* normalized bodies
    ConfigSet,      \* policies an administrator may set
    MaxRiskEvents,  \* risk events a user may cause before being locked out
    MaxUpdates,     \* bound on the policy updates of a behaviour
    RiskTTL,        \* ten minutes
    LockTTL,        \* one hour
    Failures        \* which services may fail: "policy", "log", "redis"

ASSUME GatewayAssumption ==
    /\ PromptSet \subseteq Prompts
    /\ ConfigSet \subseteq GlobalConfig
    /\ MaxRiskEvents \in Nat
    /\ MaxUpdates \in Nat
    /\ RiskTTL \in Nat \ {0}
    /\ LockTTL \in Nat
    /\ RiskTTL <= LockTTL
    /\ Failures \subseteq {"policy", "log", "redis"}

VARIABLES
    \* what the requests share
    policy,      \* policies.config of each organization
    cache,       \* the cached verdict of each organization and prompt, or ""
    logged,      \* the audit rows: request and verdict
    riskEvents,  \* "user:<id>:risk_events:10m"
    riskLeft,    \* how long that counter has to live
    lockLeft,    \* how long "user:<id>:blocked" has to live
    admin,       \* ServeConfig of each organization: "idle", "written" or "scan"
    togo,        \* the keys InvalidateOrg has yet to delete
    updates,     \* policy updates so far
    \* the state of one request
    pc,          \* the step it takes next
    org, user, prompt,
    config,      \* orgConfig, as loaded
    verdict,     \* verdict.Action
    body,        \* the body to forward
    sent,        \* the bodies the provider got
    answer,      \* how the client was answered
    \* history
    inForce,     \* the policies of its organization while a request is open
    everInForce, \* the policies an organization ever had
    missed       \* cached verdicts that an update was to delete, and did not

timers   == <<riskEvents, riskLeft, lockLeft>>
shared   == <<policy, cache, logged, timers>>
admins   == <<admin, togo, updates>>
client   == <<org, user, prompt>>
local    == <<config, verdict, body, sent, answer>>
history  == <<inForce, everInForce, missed>>
vars     == <<shared, admins, pc, client, local, history>>

\* What a call to a service may come to.
Outcome(service) == IF service \in Failures THEN BOOLEAN ELSE {TRUE}

Init ==
    /\ policy \in [Orgs -> ConfigSet]
    /\ cache = [o \in Orgs |-> [p \in PromptSet |-> ""]]
    /\ logged = {}
    /\ riskEvents = [u \in Users |-> 0]
    /\ riskLeft = [u \in Users |-> 0]
    /\ lockLeft = [u \in Users |-> 0]
    /\ admin = [o \in Orgs |-> "idle"]
    /\ togo = [o \in Orgs |-> {}]
    /\ updates = 0
    /\ pc = [r \in Requests |-> "idle"]
    /\ org \in [Requests -> Orgs]
    /\ user \in [Requests -> Users]
    /\ prompt \in [Requests -> PromptSet]
    /\ config = [r \in Requests |-> DefaultConfig]
    /\ verdict = [r \in Requests |-> "NONE"]
    /\ body = [r \in Requests |-> prompt[r].contents]
    /\ sent = [r \in Requests |-> <<>>]
    /\ answer = [r \in Requests |-> "none"]
    /\ inForce = [r \in Requests |-> {}]
    /\ everInForce = [o \in Orgs |-> {policy[o]}]
    /\ missed = [o \in Orgs |-> {}]

-----------------------------------------------------------------------------
(* Serving a request *)

Goto(r, step) == pc' = [pc EXCEPT ![r] = step]

Answer(r, how) ==
    /\ Goto(r, "done")
    /\ answer' = [answer EXCEPT ![r] = how]

\* A request with a valid key arrives.
Arrive(r) ==
    /\ pc[r] = "idle"
    /\ Goto(r, "load")
    /\ inForce' = [inForce EXCEPT ![r] = {policy[org[r]]}]
    /\ UNCHANGED <<shared, admins, client, local, everInForce, missed>>

\* GetPolicyByOrgID answers "{}" when the query fails.
LoadPolicy(r) ==
    /\ pc[r] = "load"
    /\ \E ok \in Outcome("policy") :
          config' = [config EXCEPT ![r] = IF ok THEN policy[org[r]] ELSE DefaultConfig]
    /\ Goto(r, "access")
    /\ UNCHANGED <<shared, admins, client, verdict, body, sent, answer, history>>

\* An unreachable Redis lets everyone in.
CheckAccess(r) ==
    /\ pc[r] = "access"
    /\ \E ok \in Outcome("redis") :
          IF "AnomalyDetection" \in config[r].On /\ ok /\ lockLeft[user[r]] > 0
          THEN Answer(r, "locked")
          ELSE Goto(r, "body") /\ UNCHANGED answer
    /\ UNCHANGED <<shared, admins, client, config, verdict, body, sent, history>>

\* Unknown provider, a body that is too large or cannot be read.
RejectBody(r) ==
    /\ pc[r] = "body"
    /\ Answer(r, "error")
    /\ UNCHANGED <<shared, admins, client, config, verdict, body, sent, history>>

\* Mistake: one key per prompt.
CacheOrgShared(r) == CHOOSE o \in Orgs : TRUE

\* The organization is part of a verdict's key.
CacheOrg(r) == org[r]

\* Mistake: the fast path takes every verdict that does not refuse.
AfterLookupHit(hit) == CASE hit \in {"SAFE", "PASS", "MODIFY"} -> "forward"
                         [] hit = "BLOCK" -> "done"
                         [] OTHER         -> "decide"

AfterLookup(hit) == CASE hit = "SAFE"  -> "forward"
                      [] hit = "BLOCK" -> "done"
                      [] OTHER         -> "decide"

LookupVerdict(r) ==
    /\ pc[r] = "body"
    /\ \E ok \in Outcome("redis") :
         LET hit == IF ok THEN cache[CacheOrg(r)][prompt[r]] ELSE ""
         IN  /\ Goto(r, AfterLookup(hit))
             /\ answer' = IF hit = "BLOCK" THEN [answer EXCEPT ![r] = "cached"]
                          ELSE answer
    /\ UNCHANGED <<shared, admins, client, config, verdict, body, sent, history>>

\* The checks, AnalyzeRisk and the choice of the body: nothing shared.
AnalyzeRequest(r) ==
    /\ pc[r] = "decide"
    /\ verdict' = [verdict EXCEPT ![r] = Decision(prompt[r], config[r]).Action]
    /\ body' = [body EXCEPT ![r] = ForwardBody(prompt[r], config[r])]
    /\ Goto(r, "log")
    /\ UNCHANGED <<shared, admins, client, config, sent, answer, history>>

\* LogRequest reports no error: a row that could not be written is lost.
LogRequest(r, v) ==
    \E ok \in Outcome("log") :
       logged' = IF ok THEN logged \cup {<<r, v>>} ELSE logged

\* Mistake: only refusals are logged.
LogRefusal(r) ==
    /\ pc[r] = "log"
    /\ IF verdict[r] = "BLOCK" THEN LogRequest(r, "BLOCK") ELSE UNCHANGED logged
    /\ Goto(r, "cache")
    /\ UNCHANGED <<policy, cache, timers, admins, client, local, history>>

LogDecision(r) ==
    /\ pc[r] = "log"
    /\ LogRequest(r, verdict[r])
    /\ Goto(r, "cache")
    /\ UNCHANGED <<policy, cache, timers, admins, client, local, history>>

\* Mistake: the verdicts are cached under the names of redis.go:35.
CacheRenamed(r) ==
    /\ pc[r] = "cache"
    /\ cache' = [cache EXCEPT ![CacheOrg(r)][prompt[r]] =
                   IF verdict[r] = "BLOCK" THEN "BLOCKED" ELSE "SAFE"]
    /\ Goto(r, IF verdict[r] = "BLOCK" THEN "track" ELSE "forward")
    /\ UNCHANGED <<policy, logged, timers, admins, client, local, history>>

CacheDecision(r) ==
    /\ pc[r] = "cache"
    /\ \/ /\ cache' = [cache EXCEPT ![CacheOrg(r)][prompt[r]] = verdict[r]]
          /\ missed' = [missed EXCEPT ![CacheOrg(r)] = @ \ {prompt[r]}]
       \/ /\ "redis" \in Failures
          /\ UNCHANGED <<cache, missed>>
    /\ Goto(r, IF verdict[r] = "BLOCK" THEN "track" ELSE "forward")
    /\ UNCHANGED <<policy, logged, timers, admins, client, local, inForce, everInForce>>

\* Whatever the policy says of anomaly detection, a refusal of high risk is
\* counted; the increment and the lock are two calls.
IsHighRisk(r) ==
    TotalRisk(Decision(prompt[r], config[r]), prompt[r].obfuscated) >= 70

\* Mistake: one offence too late.
ExceedsLate(count) == count > MaxRiskEvents + 1

Exceeds(count) == count > MaxRiskEvents

TrackRisk(r) ==
    /\ pc[r] = "track"
    /\ \E ok \in Outcome("redis") :
         LET counts == ok /\ IsHighRisk(r)
             count  == riskEvents[user[r]] + 1
         IN  /\ riskEvents' = IF counts THEN [riskEvents EXCEPT ![user[r]] = count]
                              ELSE riskEvents
             /\ riskLeft' = IF counts THEN [riskLeft EXCEPT ![user[r]] = RiskTTL]
                            ELSE riskLeft
             /\ IF counts /\ Exceeds(count)
                THEN Goto(r, "lock") /\ UNCHANGED answer
                ELSE Answer(r, "refused")
    /\ UNCHANGED <<policy, cache, logged, lockLeft, admins, client, config,
                   verdict, body, sent, history>>

BlockUser(r) ==
    /\ pc[r] = "lock"
    /\ \E ok \in Outcome("redis") :
          lockLeft' = IF ok THEN [lockLeft EXCEPT ![user[r]] = LockTTL] ELSE lockLeft
    /\ Answer(r, "refused")
    /\ UNCHANGED <<policy, cache, logged, riskEvents, riskLeft, admins, client, config,
                   verdict, body, sent, history>>

-----------------------------------------------------------------------------
(* Forwarding it *)

\* The provider got the body, whatever becomes of its response.
SendRequest(r) ==
    /\ pc[r] = "forward"
    /\ sent' = [sent EXCEPT ![r] = Append(@, body[r])]
    /\ Goto(r, "await")
    /\ UNCHANGED <<shared, admins, client, config, verdict, body, answer, history>>

\* Mistake: no timeout once the provider has the request.
ProviderUnreachable(r) ==
    /\ pc[r] = "forward"
    /\ Answer(r, "error")
    /\ UNCHANGED <<shared, admins, client, config, verdict, body, sent, history>>

\* The provider cannot be reached, its response is cut off or too large, the
\* client is gone, or the two minutes of the HTTP client are over.
ProviderFails(r) ==
    /\ pc[r] \in {"forward", "await"}
    /\ Answer(r, "error")
    /\ UNCHANGED <<shared, admins, client, config, verdict, body, sent, history>>

\* A response that is not streamed is buffered and scanned, and written within
\* the three minutes of the server.  The row of a response that is withheld or
\* redacted comes on top of the request's own; its verdict is cached under a
\* key that nothing looks up.
ProviderReplies(r) ==
    \E holds \in {"text", "personal", "forbidden"} :
      LET scanned(switch) == {"OutputControl", switch} \subseteq config[r].On
          withheld == holds = "forbidden" /\ scanned("VectorGuard")
          redacted == holds = "personal"  /\ scanned("EmailRedaction")
      IN  /\ pc[r] = "await"
          /\ IF withheld THEN LogRequest(r, "BLOCK")
             ELSE IF redacted THEN LogRequest(r, "MODIFY")
             ELSE UNCHANGED logged
          /\ Answer(r, IF withheld THEN "refused" ELSE "ok")
          /\ UNCHANGED <<policy, cache, timers, admins, client, config, verdict, body,
                         sent, history>>

\* A streamed response is relayed unscanned, chunk by chunk, and the server's
\* write deadline is lifted.
StartStream(r) ==
    /\ pc[r] = "await"
    /\ Goto(r, "relay")
    /\ UNCHANGED <<shared, admins, client, local, history>>

\* A chunk is read from the provider, to be written to the client.
ReadChunk(r) ==
    /\ pc[r] = "relay"
    /\ Goto(r, "write")
    /\ UNCHANGED <<shared, admins, client, local, history>>

\* The write returns when the client has read enough, or is gone.
WriteChunk(r) ==
    /\ pc[r] = "write"
    /\ \/ Goto(r, "relay") /\ UNCHANGED answer
       \/ Answer(r, "error")
    /\ UNCHANGED <<shared, admins, client, config, verdict, body, sent, history>>

\* The body ends or breaks off, or the two minutes of the HTTP client are over.
EndStream(r) ==
    /\ pc[r] = "relay"
    /\ Answer(r, "ok")
    /\ UNCHANGED <<shared, admins, client, config, verdict, body, sent, history>>

Relay(r) == StartStream(r) \/ ReadChunk(r) \/ WriteChunk(r) \/ EndStream(r)

ServeHTTP(r) ==
    \/ LoadPolicy(r)
    \/ CheckAccess(r)
    \/ RejectBody(r)
    \/ LookupVerdict(r)
    \/ AnalyzeRequest(r)
    \/ LogDecision(r)
    \/ CacheDecision(r)
    \/ TrackRisk(r)
    \/ BlockUser(r)
    \/ SendRequest(r)
    \/ ProviderFails(r)

-----------------------------------------------------------------------------
(* Administrators and time *)

\* The verdicts an organization has in the cache.
CachedPrompts(o) == {p \in PromptSet : cache[o][p] # ""}

\* POST /api/admin/config: the new policy is committed before any key goes.
UpdatePolicy(o) ==
    /\ admin[o] = "idle"
    /\ updates < MaxUpdates
    /\ updates' = updates + 1
    /\ \E c \in ConfigSet :
          /\ policy' = [policy EXCEPT ![o] = c]
          /\ inForce' = [r \in Requests |->
                           IF org[r] = o /\ pc[r] \notin {"idle", "done"}
                           THEN inForce[r] \cup {c} ELSE inForce[r]]
          /\ everInForce' = [everInForce EXCEPT ![o] = @ \cup {c}]
    /\ admin' = [admin EXCEPT ![o] = "written"]
    /\ UNCHANGED <<cache, logged, timers, togo, pc, client, local, missed>>

\* Mistake: a pattern that no key of a verdict matches.
ScannedNothing(o) == {}

\* SCAN returns every key that was there all along and perhaps later ones.
Scanned(o) == CachedPrompts(o)

\* What an earlier update missed is deleted by this one, or missed again.
InvalidateOrg(o) ==
    /\ admin[o] = "written"
    /\ admin' = [admin EXCEPT ![o] = "scan"]
    /\ togo' = [togo EXCEPT ![o] = Scanned(o)]
    /\ missed' = [missed EXCEPT ![o] = {}]
    /\ UNCHANGED <<shared, updates, pc, client, local, inForce, everInForce>>

\* A verdict is deleted, or a DEL fails, which is not noticed.
InvalidateKey(o, p) ==
    /\ admin[o] = "scan"
    /\ cache[o][p] # ""
    /\ togo' = [togo EXCEPT ![o] = @ \ {p}]
    /\ \/ /\ cache' = [cache EXCEPT ![o][p] = ""]
          /\ missed' = [missed EXCEPT ![o] = @ \ {p}]
       \/ /\ "redis" \in Failures
          /\ missed' = [missed EXCEPT ![o] = @ \cup (togo[o] \cap {p})]
          /\ UNCHANGED cache
    /\ UNCHANGED <<policy, logged, timers, admin, updates, pc, client,
                   local, inForce, everInForce>>

\* The scan has returned them all.
FinishUpdate(o) ==
    /\ admin[o] = "scan"
    /\ togo[o] = {}
    /\ admin' = [admin EXCEPT ![o] = "idle"]
    /\ UNCHANGED <<shared, togo, updates, pc, client, local, history>>

\* The update ends early, after its write: Redis fails, the administrator's
\* client is gone and with it the context of the calls, or the process stops.
CutUpdate(o) ==
    /\ "redis" \in Failures
    /\ admin[o] # "idle"
    /\ missed' = [missed EXCEPT ![o] =
                     @ \cup IF admin[o] = "scan" THEN togo[o] ELSE CachedPrompts(o)]
    /\ admin' = [admin EXCEPT ![o] = "idle"]
    /\ togo' = [togo EXCEPT ![o] = {}]
    /\ UNCHANGED <<shared, updates, pc, client, local, inForce, everInForce>>

\* A verdict lives for one hour.
ExpireVerdict(o, p) ==
    /\ cache[o][p] # ""
    /\ cache' = [cache EXCEPT ![o][p] = ""]
    /\ togo' = [togo EXCEPT ![o] = @ \ {p}]
    /\ missed' = [missed EXCEPT ![o] = @ \ {p}]
    /\ UNCHANGED <<policy, logged, timers, admin, updates, pc, client,
                   local, inForce, everInForce>>

LessOne(left) == IF left = 0 THEN 0 ELSE left - 1

\* Time passes for the keys of the anomaly detector: the risk counter lives for
\* RiskTTL after its last increment, a lock for LockTTL after it was last set.
PassTime ==
    /\ \E u \in Users : riskLeft[u] + lockLeft[u] > 0
    /\ riskLeft' = [u \in Users |-> LessOne(riskLeft[u])]
    /\ riskEvents' = [u \in Users |-> IF riskLeft[u] <= 1 THEN 0 ELSE riskEvents[u]]
    /\ lockLeft' = [u \in Users |-> LessOne(lockLeft[u])]
    /\ UNCHANGED <<policy, cache, logged, admins, pc, client, local, history>>

Next ==
    \/ \E r \in Requests : Arrive(r) \/ ServeHTTP(r) \/ ProviderReplies(r) \/ Relay(r)
    \/ \E o \in Orgs : UpdatePolicy(o) \/ InvalidateOrg(o) \/ FinishUpdate(o) \/ CutUpdate(o)
    \/ \E o \in Orgs, p \in PromptSet : InvalidateKey(o, p) \/ ExpireVerdict(o, p)
    \/ PassTime

Spec == Init /\ [][Next]_vars

\* A handler that can take its next step does, the wait for the provider ending
\* with the HTTP client's timeout at the latest.  Of the reads of a stream, one
\* comes after that timeout if there are enough of them, and fails.  Clients,
\* administrators, the provider and the clock owe nothing: nobody has to read
\* what WriteChunk writes.
Fairness == \A r \in Requests : WF_vars(ServeHTTP(r)) /\ SF_vars(EndStream(r))

FairSpec == Spec /\ Fairness

-----------------------------------------------------------------------------
(* Properties *)

Actions == {"PASS", "MODIFY", "BLOCK"}

Open(r) == pc[r] \notin {"idle", "done"}

\* Every variable has its type; in particular the two calls of TrackRisk never
\* leave a request between states.
TypeOK ==
    /\ policy \in [Orgs -> ConfigSet]
    /\ cache \in [Orgs -> [PromptSet -> Actions \cup {""}]]
    /\ logged \subseteq Requests \X Actions
    /\ riskEvents \in [Users -> Nat]
    /\ riskLeft \in [Users -> 0 .. RiskTTL]
    /\ lockLeft \in [Users -> 0 .. LockTTL]
    /\ admin \in [Orgs -> {"idle", "written", "scan"}]
    /\ togo \in [Orgs -> SUBSET PromptSet]
    /\ updates \in 0 .. MaxUpdates
    /\ pc \in [Requests -> {"idle", "load", "access", "body", "decide", "log", "cache",
                            "track", "lock", "forward", "await", "relay", "write", "done"}]
    /\ org \in [Requests -> Orgs]
    /\ user \in [Requests -> Users]
    /\ prompt \in [Requests -> PromptSet]
    /\ config \in [Requests -> ConfigSet \cup {DefaultConfig}]
    /\ verdict \in [Requests -> Actions \cup {"NONE"}]
    /\ body \in [Requests -> SUBSET Kinds]
    /\ sent \in [Requests -> Seq(SUBSET Kinds)]
    /\ answer \in [Requests -> {"none", "ok", "refused", "cached", "locked", "error"}]
    /\ inForce \in [Requests -> SUBSET ConfigSet]
    /\ everInForce \in [Orgs -> SUBSET ConfigSet]
    /\ missed \in [Orgs -> SUBSET PromptSet]

\* The gateway keeps GatewayContract: what reaches a provider is what a policy
\* of the organization, in force while the request was open, lets through, in
\* the form it asks for, and at most once.  Neither a policy replaced under
\* way, a verdict cached under another policy, nor a failing Redis or log lets
\* a prompt past (handler.go:102, 161-177, 245-261, 304-316, 403-406).
Contract == INSTANCE GatewayContract WITH
    status <- [r \in Requests |-> IF Open(r) THEN "open"
                                  ELSE IF pc[r] = "idle" THEN "idle" ELSE "closed"],
    passed <- sent

ImplementsContract == Contract!Spec

\* A cached verdict was decided for this very prompt under a policy of this
\* very organization: no tenant is served another's decision, whatever it
\* cached concurrently (handler.go:161, redis.go:60-80).
VerdictsStayWithTheirTenant ==
    \A o \in Orgs : \A p \in PromptSet :
        cache[o][p] = "" \/ \E c \in everInForce[o] : cache[o][p] = Decision(p, c).Action

\* Once an update is done, a cached verdict it was not cut short of deleting is
\* that of a request that was open under the policy in force.  That request may
\* have loaded the policy before: it caches its verdict behind the scan, where it
\* stays for the hour (handler.go:102, 395-398; redis.go:60-80; admin.go:205-213).
KeptVerdictsWereUnderWay ==
    \A o \in Orgs : \A p \in CachedPrompts(o) \ missed[o] :
        admin[o] = "idle" =>
            \E r \in Requests : /\ org[r] = o /\ prompt[r] = p
                                /\ verdict[r] = cache[o][p]
                                /\ policy[o] \in inForce[r]

Locking(u) == \E r \in Requests : user[r] = u /\ pc[r] = "lock"

\* A user whose refusals exceed the limit is locked out, or about to be, for as
\* long as the counter remembers them: neither concurrent refusals nor the
\* expiry of an earlier lock leave a repeat offender free (anomaly.go:32-45).
RepeatOffendersAreLocked ==
    \A u \in Users : riskEvents[u] > MaxRiskEvents => lockLeft[u] > 0 \/ Locking(u)

\* The decision on a prompt is in the log before the prompt leaves
\* (handler.go:415-416, "already sanitized and logged before we got here").
ForwardedWasLogged ==
    \A r \in Requests : sent[r] # <<>> => <<r, verdict[r]>> \in logged

\* Every request is eventually answered, whatever fails and however long a stream
\* goes on, unless its client stops reading and stays: no timeout ends such a
\* write (handler.go:334, 343; provider.go:24).
EveryRequestAnswered ==
    \A r \in Requests : []<>(pc[r] # "write") => (Open(r) ~> pc[r] = "done")
=============================================================================
