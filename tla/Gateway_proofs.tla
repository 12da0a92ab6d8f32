--------------------------- MODULE Gateway_proofs ---------------------------
(***************************************************************************)
(* What the gateway guarantees for any number of requests, organizations   *)
(* and users, any prompts and policies, and any number of updates.         *)
(*                                                                         *)
(* IInv ties what a handler has in hand to what it read and did before;    *)
(* it holds whatever fails.  What each theorem needs of the services comes *)
(* on top, as an assumption on Failures.                                   *)
(***************************************************************************)
EXTENDS Gateway, TLAPS

-----------------------------------------------------------------------------
(* The invariant *)

\* Past AnalyzeRequest, a handler holds the decision of the policy it loaded,
\* and it forwards no prompt that was refused.
DecidedInv ==
    \A r \in Requests :
        /\ pc[r] \in {"log", "cache", "track", "lock", "forward", "await"} =>
              /\ verdict[r] = Decision(prompt[r], config[r]).Action
              /\ body[r] = ForwardBody(prompt[r], config[r])
        /\ pc[r] \in {"forward", "await"} => verdict[r] # "BLOCK"

\* Nothing is sent before SendRequest.
SentInv ==
    \A r \in Requests :
        pc[r] \notin {"await", "relay", "write", "done"} => sent[r] = <<>>

\* The histories know the policies there are and those open requests have met.
HistoryInv ==
    /\ \A o \in Orgs : policy[o] \in everInForce[o]
    /\ \A r \in Requests :
          /\ Open(r) => policy[org[r]] \in inForce[r]
          /\ inForce[r] \subseteq everInForce[org[r]]

IInv == TypeOK /\ DecidedInv /\ SentInv /\ HistoryInv

-----------------------------------------------------------------------------
(* Operators *)

\* A decision has one of three actions, on any prompt and policy.
LEMMA DecisionType == \A p, c : Decision(p, c).Action \in Actions
BY DEF Decision, AnalyzeRisk, Actions

\* A body holds what a prompt may hold.
LEMMA ForwardBodyType ==
    ASSUME NEW p \in Prompts, NEW c PROVE ForwardBody(p, c) \in SUBSET Kinds
BY DEF ForwardBody, Prompts

\* A service that does not fail succeeds.
LEMMA OutcomeCertain ==
    ASSUME NEW service, service \notin Failures PROVE Outcome(service) = {TRUE}
BY DEF Outcome

\* A verdict in the cache is never the one that lets a prompt out by itself.
LEMMA LookupDecides ==
    ASSUME TypeOK, NEW r \in Requests, LookupVerdict(r)
    PROVE  pc[r] = "body" /\ \E step \in {"decide", "done"} : Goto(r, step)
<1>1. /\ CacheOrg(r) \in Orgs /\ prompt[r] \in PromptSet
      /\ cache[CacheOrg(r)][prompt[r]] \in Actions \cup {""}
  BY DEF TypeOK, CacheOrg
<1>2. PICK hit \in Actions \cup {""} : Goto(r, AfterLookup(hit))
  BY <1>1 DEF LookupVerdict
<1>3. AfterLookup(hit) \in {"decide", "done"}
  BY DEF AfterLookup, Actions
<1> QED BY <1>2, <1>3 DEF LookupVerdict

-----------------------------------------------------------------------------
(* Types *)

\* The initial values have their types.
LEMMA InitTypeOK == Init => TypeOK
<1> SUFFICES ASSUME Init PROVE TypeOK
  OBVIOUS
<1>1. PromptSet \subseteq Prompts /\ RiskTTL \in Nat /\ LockTTL \in Nat /\ MaxUpdates \in Nat
  BY GatewayAssumption
<1>2. \A p \in Prompts : p.contents \in SUBSET Kinds
  BY DEF Prompts
<1>3. prompt \in [Requests -> PromptSet]
  BY DEF Init
<1>4. body \in [Requests -> SUBSET Kinds]
  BY <1>1, <1>2, <1>3 DEF Init
<1>5. 0 \in 0 .. RiskTTL /\ 0 \in 0 .. LockTTL /\ 0 \in 0 .. MaxUpdates
  BY <1>1
<1>6. /\ riskEvents \in [Users -> Nat] /\ riskLeft \in [Users -> 0 .. RiskTTL]
      /\ lockLeft \in [Users -> 0 .. LockTTL] /\ updates \in 0 .. MaxUpdates
  BY <1>5 DEF Init
<1>7. /\ policy \in [Orgs -> ConfigSet] /\ everInForce \in [Orgs -> SUBSET ConfigSet]
      /\ cache \in [Orgs -> [PromptSet -> Actions \cup {""}]]
      /\ admin \in [Orgs -> {"idle", "written", "scan"}] /\ togo \in [Orgs -> SUBSET PromptSet]
      /\ logged \subseteq Requests \X Actions
  BY DEF Init
<1>8. /\ pc \in [Requests -> {"idle", "load", "access", "body", "decide", "log", "cache",
                               "track", "lock", "forward", "await", "relay", "write", "done"}]
      /\ org \in [Requests -> Orgs] /\ user \in [Requests -> Users]
      /\ config \in [Requests -> ConfigSet \cup {DefaultConfig}]
      /\ verdict \in [Requests -> Actions \cup {"NONE"}]
      /\ answer \in [Requests -> {"none", "ok", "refused", "cached", "locked", "error"}]
      /\ inForce \in [Requests -> SUBSET ConfigSet]
      /\ missed \in [Orgs -> SUBSET PromptSet]
  BY DEF Init
<1>9. sent \in [Requests -> Seq(SUBSET Kinds)]
  <2>1. <<>> \in Seq(SUBSET Kinds)
    OBVIOUS
  <2> QED BY <2>1 DEF Init
<1> QED BY <1>3, <1>4, <1>6, <1>7, <1>8, <1>9 DEF TypeOK

\* Setting one key keeps the type of the cache.
LEMMA CacheType ==
    ASSUME cache \in [Orgs -> [PromptSet -> Actions \cup {""}]],
           NEW o \in Orgs, NEW p \in PromptSet, NEW v \in Actions \cup {""}
    PROVE  [cache EXCEPT ![o][p] = v] \in [Orgs -> [PromptSet -> Actions \cup {""}]]
<1>1. [cache[o] EXCEPT ![p] = v] \in [PromptSet -> Actions \cup {""}]
  OBVIOUS
<1> QED BY <1>1

\* Setting one key changes that key alone.
LEMMA OneKeySet ==
    ASSUME cache \in [Orgs -> [PromptSet -> Actions \cup {""}]],
           NEW o \in Orgs, NEW p \in PromptSet, NEW v,
           cache' = [cache EXCEPT ![o][p] = v]
    PROVE  \A q \in Orgs : \A k \in PromptSet :
              cache'[q][k] = IF q = o /\ k = p THEN v ELSE cache[q][k]
<1> SUFFICES ASSUME NEW q \in Orgs, NEW k \in PromptSet
             PROVE  cache'[q][k] = IF q = o /\ k = p THEN v ELSE cache[q][k]
  OBVIOUS
<1>1. cache[q] \in [PromptSet -> Actions \cup {""}]
  OBVIOUS
<1>2. cache'[q] = IF q = o THEN [cache[q] EXCEPT ![p] = v] ELSE cache[q]
  OBVIOUS
<1>3. [cache[q] EXCEPT ![p] = v][k] = IF k = p THEN v ELSE cache[q][k]
  BY <1>1
<1> QED BY <1>2, <1>3

\* Stuttering changes no type.
LEMMA StutterTypeOK == TypeOK /\ UNCHANGED vars => TypeOK'
BY DEF TypeOK, vars, shared, timers, admins, client, local, history

\* Every step keeps the types.
LEMMA NextTypeOK ==
    ASSUME IInv, Next PROVE TypeOK'
<1> USE DEF shared, timers, admins, client, local, history, Goto, Answer
<1>1. TypeOK /\ DecidedInv
  BY DEF IInv
<1>a. /\ cache \in [Orgs -> [PromptSet -> Actions \cup {""}]]
      /\ logged \subseteq Requests \X Actions
      /\ \A r \in Requests : org[r] \in Orgs /\ prompt[r] \in PromptSet
  BY <1>1 DEF TypeOK
<1>2. ASSUME NEW r \in Requests, Arrive(r) PROVE TypeOK'
  <2>1. policy[org[r]] \in ConfigSet
    BY <1>1 DEF TypeOK
  <2>2. inForce' \in [Requests -> SUBSET ConfigSet]
    BY <1>1, <1>2, <2>1 DEF TypeOK, Arrive
  <2> QED BY <1>1, <1>2, <2>2 DEF TypeOK, Arrive
<1>3. ASSUME NEW r \in Requests, LoadPolicy(r) PROVE TypeOK'
  <2>1. policy[org[r]] \in ConfigSet
    BY <1>1 DEF TypeOK
  <2>2. PICK c \in ConfigSet \cup {DefaultConfig} : config' = [config EXCEPT ![r] = c]
    BY <1>3, <2>1 DEF LoadPolicy
  <2> QED BY <1>1, <1>3, <2>2 DEF TypeOK, LoadPolicy
<1>4. ASSUME NEW r \in Requests, CheckAccess(r) PROVE TypeOK'
  BY <1>1, <1>4 DEF TypeOK, CheckAccess
<1>5. ASSUME NEW r \in Requests, RejectBody(r) PROVE TypeOK'
  BY <1>1, <1>5 DEF TypeOK, RejectBody
<1>6. ASSUME NEW r \in Requests, LookupVerdict(r) PROVE TypeOK'
  <2>1. PICK step \in {"decide", "done"} : pc' = [pc EXCEPT ![r] = step]
    BY <1>1, <1>6, LookupDecides
  <2> QED BY <1>1, <1>6, <2>1 DEF TypeOK, LookupVerdict
<1>7. ASSUME NEW r \in Requests, AnalyzeRequest(r) PROVE TypeOK'
  <2>1. Decision(prompt[r], config[r]).Action \in Actions
    BY DecisionType
  <2>2. ForwardBody(prompt[r], config[r]) \in SUBSET Kinds
    BY <1>1, ForwardBodyType, GatewayAssumption DEF TypeOK
  <2> QED BY <1>1, <1>7, <2>1, <2>2 DEF TypeOK, AnalyzeRequest
<1>8. ASSUME NEW r \in Requests, LogDecision(r) PROVE TypeOK'
  <2>1. verdict[r] \in Actions
    BY <1>1, <1>8, DecisionType DEF DecidedInv, LogDecision
  <2>2. logged' \in {logged, logged \cup {<<r, verdict[r]>>}}
    BY <1>8 DEF LogDecision, LogRequest
  <2>3. logged' \subseteq Requests \X Actions
    <3>1. <<r, verdict[r]>> \in Requests \X Actions
      BY <2>1
    <3> QED BY <1>a, <2>2, <3>1
  <2> QED BY <1>1, <1>8, <2>3 DEF TypeOK, LogDecision
<1>9. ASSUME NEW r \in Requests, CacheDecision(r) PROVE TypeOK'
  <2>1. verdict[r] \in Actions
    BY <1>1, <1>9, DecisionType DEF DecidedInv, CacheDecision
  <2>2. cache' \in {cache, [cache EXCEPT ![org[r]][prompt[r]] = verdict[r]]}
    BY <1>9 DEF CacheDecision, CacheOrg
  <2>3. cache' \in [Orgs -> [PromptSet -> Actions \cup {""}]]
    <3>1. /\ verdict[r] \in Actions \cup {""}
          /\ org[r] \in Orgs /\ prompt[r] \in PromptSet
      BY <1>a, <2>1
    <3>2. [cache EXCEPT ![org[r]][prompt[r]] = verdict[r]]
             \in [Orgs -> [PromptSet -> Actions \cup {""}]]
      BY <1>a, <3>1, CacheType
    <3> QED BY <1>a, <2>2, <3>2
  <2>4. missed' \in [Orgs -> SUBSET PromptSet]
    <3>1. /\ missed \in [Orgs -> SUBSET PromptSet] /\ CacheOrg(r) \in Orgs
          /\ missed[CacheOrg(r)] \ {prompt[r]} \in SUBSET PromptSet
      BY <1>1 DEF TypeOK, CacheOrg
    <3>2. \/ missed' = missed
          \/ missed' = [missed EXCEPT ![CacheOrg(r)] = missed[CacheOrg(r)] \ {prompt[r]}]
      BY <1>9 DEF CacheDecision
    <3> QED BY <3>1, <3>2
  <2> QED BY <1>1, <1>9, <2>3, <2>4 DEF TypeOK, CacheDecision
<1>10. ASSUME NEW r \in Requests, TrackRisk(r) PROVE TypeOK'
  <2>1. riskEvents[user[r]] \in Nat
    BY <1>1 DEF TypeOK
  <2>2. RiskTTL \in 0 .. RiskTTL /\ riskEvents[user[r]] + 1 \in Nat
    BY <2>1, GatewayAssumption
  <2>3. PICK n \in Nat : riskEvents' \in {riskEvents, [riskEvents EXCEPT ![user[r]] = n]}
    BY <1>10, <2>2 DEF TrackRisk
  <2>6. riskLeft' \in {riskLeft, [riskLeft EXCEPT ![user[r]] = RiskTTL]}
    BY <1>10 DEF TrackRisk
  <2>4. PICK step \in {"lock", "done"} : pc' = [pc EXCEPT ![r] = step]
    BY <1>10 DEF TrackRisk
  <2>5. answer' \in {answer, [answer EXCEPT ![r] = "refused"]}
    BY <1>10 DEF TrackRisk
  <2>7. riskEvents' \in [Users -> Nat] /\ riskLeft' \in [Users -> 0 .. RiskTTL]
    BY <1>1, <2>2, <2>3, <2>6 DEF TypeOK
  <2> QED BY <1>1, <1>10, <2>4, <2>5, <2>7 DEF TypeOK, TrackRisk
<1>11. ASSUME NEW r \in Requests, BlockUser(r) PROVE TypeOK'
  <2>1. LockTTL \in 0 .. LockTTL
    BY GatewayAssumption
  <2>2. lockLeft' \in [Users -> 0 .. LockTTL]
    BY <1>1, <1>11, <2>1 DEF TypeOK, BlockUser
  <2> QED BY <1>1, <1>11, <2>2 DEF TypeOK, BlockUser
<1>12. ASSUME NEW r \in Requests, SendRequest(r) PROVE TypeOK'
  <2>1. sent[r] \in Seq(SUBSET Kinds) /\ body[r] \in SUBSET Kinds
    BY <1>1 DEF TypeOK
  <2>2. Append(sent[r], body[r]) \in Seq(SUBSET Kinds)
    BY <2>1
  <2> QED BY <1>1, <1>12, <2>2 DEF TypeOK, SendRequest
<1>13. ASSUME NEW r \in Requests, ProviderFails(r) PROVE TypeOK'
  BY <1>1, <1>13 DEF TypeOK, ProviderFails
<1>14. ASSUME NEW r \in Requests, ProviderReplies(r) PROVE TypeOK'
  <2>1. PICK v \in Actions : logged' \in {logged, logged \cup {<<r, v>>}}
    BY <1>14 DEF ProviderReplies, LogRequest, Actions
  <2>2. answer' \in {[answer EXCEPT ![r] = "refused"], [answer EXCEPT ![r] = "ok"]}
    BY <1>14 DEF ProviderReplies
  <2>3. logged' \subseteq Requests \X Actions
    <3>1. <<r, v>> \in Requests \X Actions
      OBVIOUS
    <3> QED BY <1>a, <2>1, <3>1
  <2> QED BY <1>1, <1>14, <2>2, <2>3 DEF TypeOK, ProviderReplies
<1>20. ASSUME NEW r \in Requests, StartStream(r) \/ ReadChunk(r) PROVE TypeOK'
  BY <1>1, <1>20 DEF TypeOK, StartStream, ReadChunk
<1>21. ASSUME NEW r \in Requests, WriteChunk(r) \/ EndStream(r) PROVE TypeOK'
  BY <1>1, <1>21 DEF TypeOK, WriteChunk, EndStream
<1>22. ASSUME NEW o \in Orgs, InvalidateOrg(o) PROVE TypeOK'
  BY <1>1, <1>22 DEF TypeOK, InvalidateOrg, Scanned, CachedPrompts
<1>23. ASSUME NEW o \in Orgs, CutUpdate(o) PROVE TypeOK'
  BY <1>1, <1>23 DEF TypeOK, CutUpdate, CachedPrompts
<1>15. ASSUME NEW o \in Orgs, UpdatePolicy(o) PROVE TypeOK'
  <2>1. PICK c \in ConfigSet :
          /\ policy' = [policy EXCEPT ![o] = c]
          /\ everInForce' = [everInForce EXCEPT ![o] = @ \cup {c}]
          /\ inForce' = [r \in Requests |->
                           IF org[r] = o /\ pc[r] \notin {"idle", "done"}
                           THEN inForce[r] \cup {c} ELSE inForce[r]]
    BY <1>15 DEF UpdatePolicy
  <2>2. /\ policy' \in [Orgs -> ConfigSet] /\ everInForce' \in [Orgs -> SUBSET ConfigSet]
        /\ inForce' \in [Requests -> SUBSET ConfigSet]
    BY <1>1, <2>1 DEF TypeOK
  <2>3. MaxUpdates \in Nat
    BY GatewayAssumption
  <2>4. updates' \in 0 .. MaxUpdates
    <3>1. updates \in 0 .. MaxUpdates /\ updates < MaxUpdates /\ updates' = updates + 1
      BY <1>1, <1>15 DEF TypeOK, UpdatePolicy
    <3> QED BY <2>3, <3>1
  <2> QED BY <1>1, <1>15, <2>2, <2>4 DEF TypeOK, UpdatePolicy
<1>16. ASSUME NEW o \in Orgs, FinishUpdate(o) PROVE TypeOK'
  BY <1>1, <1>16 DEF TypeOK, FinishUpdate
<1>17. ASSUME NEW o \in Orgs, NEW p \in PromptSet, InvalidateKey(o, p) PROVE TypeOK'
  <2>1. cache' \in {cache, [cache EXCEPT ![o][p] = ""]}
    BY <1>17 DEF InvalidateKey
  <2>2. cache' \in [Orgs -> [PromptSet -> Actions \cup {""}]]
    <3>1. "" \in Actions \cup {""}
      OBVIOUS
    <3>2. [cache EXCEPT ![o][p] = ""] \in [Orgs -> [PromptSet -> Actions \cup {""}]]
      BY <1>a, <3>1, CacheType
    <3> QED BY <1>a, <2>1, <3>2
  <2>3. /\ missed \in [Orgs -> SUBSET PromptSet] /\ togo \in [Orgs -> SUBSET PromptSet]
        /\ togo[o] \ {p} \in SUBSET PromptSet
        /\ missed[o] \ {p} \in SUBSET PromptSet
        /\ missed[o] \cup (togo[o] \cap {p}) \in SUBSET PromptSet
    BY <1>1 DEF TypeOK
  <2>4. /\ togo' = [togo EXCEPT ![o] = togo[o] \ {p}]
        /\ \/ missed' = [missed EXCEPT ![o] = missed[o] \ {p}]
           \/ missed' = [missed EXCEPT ![o] = missed[o] \cup (togo[o] \cap {p})]
    BY <1>17 DEF InvalidateKey
  <2>5. togo' \in [Orgs -> SUBSET PromptSet]
    BY <2>3, <2>4
  <2>6. missed' \in [Orgs -> SUBSET PromptSet]
    BY <2>3, <2>4
  <2> QED BY <1>1, <1>17, <2>2, <2>5, <2>6 DEF TypeOK, InvalidateKey
<1>18. ASSUME NEW o \in Orgs, NEW p \in PromptSet, ExpireVerdict(o, p) PROVE TypeOK'
  BY <1>1, <1>18 DEF TypeOK, ExpireVerdict
<1>19. ASSUME PassTime PROVE TypeOK'
  <2>1. \A n \in Nat : \A left \in 0 .. n : LessOne(left) \in 0 .. n
    BY DEF LessOne
  <2>2. /\ riskEvents' \in [Users -> Nat] /\ riskLeft' \in [Users -> 0 .. RiskTTL]
        /\ lockLeft' \in [Users -> 0 .. LockTTL]
    BY <1>1, <1>19, <2>1, GatewayAssumption DEF TypeOK, PassTime
  <2> QED BY <1>1, <1>19, <2>2 DEF TypeOK, PassTime
<1> QED BY <1>2, <1>3, <1>4, <1>5, <1>6, <1>7, <1>8, <1>9, <1>10, <1>11, <1>12, <1>13,
           <1>14, <1>15, <1>16, <1>17, <1>18, <1>19, <1>20, <1>21, <1>22, <1>23
        DEF Next, ServeHTTP, Relay

\* The steps of administrators and of time, and stuttering, leave every
\* handler as it is.
Elsewhere ==
    \/ \E o \in Orgs : UpdatePolicy(o) \/ InvalidateOrg(o) \/ FinishUpdate(o) \/ CutUpdate(o)
    \/ \E o \in Orgs, p \in PromptSet : InvalidateKey(o, p) \/ ExpireVerdict(o, p)
    \/ PassTime
    \/ UNCHANGED vars

\* None of these steps is a handler's.
LEMMA ElsewhereLeavesHandlers == Elsewhere => UNCHANGED <<pc, client, local>>
BY DEF Elsewhere, UpdatePolicy, InvalidateOrg, FinishUpdate, CutUpdate, InvalidateKey, ExpireVerdict, PassTime, vars

\* A step is a handler's or one of these.
LEMMA StepCases ==
    ASSUME [Next]_vars
    PROVE  \/ \E r \in Requests : Arrive(r) \/ ServeHTTP(r) \/ ProviderReplies(r) \/ Relay(r)
           \/ Elsewhere
BY DEF Next, Elsewhere

-----------------------------------------------------------------------------
(* What a handler has in hand *)

\* A handler keeps what it decided until it is done.
LEMMA NextDecidedInv ==
    ASSUME IInv, [Next]_vars PROVE DecidedInv'
<1> USE DEF shared, timers, admins, client, local, history, Goto, Answer
<1>1. TypeOK /\ DecidedInv
  BY DEF IInv
<1>2. ASSUME NEW r \in Requests, Arrive(r) PROVE DecidedInv'
  BY <1>1, <1>2 DEF TypeOK, DecidedInv, Arrive
<1>3. ASSUME NEW r \in Requests, LoadPolicy(r) PROVE DecidedInv'
  BY <1>1, <1>3 DEF TypeOK, DecidedInv, LoadPolicy
<1>4. ASSUME NEW r \in Requests, CheckAccess(r) PROVE DecidedInv'
  BY <1>1, <1>4 DEF TypeOK, DecidedInv, CheckAccess
<1>5. ASSUME NEW r \in Requests, RejectBody(r) PROVE DecidedInv'
  BY <1>1, <1>5 DEF TypeOK, DecidedInv, RejectBody
<1>6. ASSUME NEW r \in Requests, LookupVerdict(r) PROVE DecidedInv'
  <2>1. PICK step \in {"decide", "done"} : pc' = [pc EXCEPT ![r] = step]
    BY <1>1, <1>6, LookupDecides
  <2> QED BY <1>1, <1>6, <2>1 DEF TypeOK, DecidedInv, LookupVerdict
<1>7. ASSUME NEW r \in Requests, AnalyzeRequest(r) PROVE DecidedInv'
  BY <1>1, <1>7 DEF TypeOK, DecidedInv, AnalyzeRequest
<1>8. ASSUME NEW r \in Requests, LogDecision(r) PROVE DecidedInv'
  BY <1>1, <1>8 DEF TypeOK, DecidedInv, LogDecision
<1>9. ASSUME NEW r \in Requests, CacheDecision(r) PROVE DecidedInv'
  BY <1>1, <1>9 DEF TypeOK, DecidedInv, CacheDecision
<1>10. ASSUME NEW r \in Requests, TrackRisk(r) PROVE DecidedInv'
  <2>1. PICK step \in {"lock", "done"} : pc' = [pc EXCEPT ![r] = step]
    BY <1>10 DEF TrackRisk
  <2> QED BY <1>1, <1>10, <2>1 DEF TypeOK, DecidedInv, TrackRisk
<1>11. ASSUME NEW r \in Requests, BlockUser(r) PROVE DecidedInv'
  BY <1>1, <1>11 DEF TypeOK, DecidedInv, BlockUser
<1>12. ASSUME NEW r \in Requests, SendRequest(r) PROVE DecidedInv'
  BY <1>1, <1>12 DEF TypeOK, DecidedInv, SendRequest
<1>13. ASSUME NEW r \in Requests, ProviderFails(r) PROVE DecidedInv'
  BY <1>1, <1>13 DEF TypeOK, DecidedInv, ProviderFails
<1>14. ASSUME NEW r \in Requests, ProviderReplies(r) PROVE DecidedInv'
  BY <1>1, <1>14 DEF TypeOK, DecidedInv, ProviderReplies
<1>16. ASSUME NEW r \in Requests, Relay(r) PROVE DecidedInv'
  BY <1>1, <1>16 DEF TypeOK, DecidedInv, Relay, StartStream, ReadChunk, WriteChunk, EndStream
<1>15. CASE Elsewhere
  BY <1>1, <1>15, ElsewhereLeavesHandlers DEF DecidedInv
<1> QED BY StepCases, <1>2, <1>3, <1>4, <1>5, <1>6, <1>7, <1>8, <1>9, <1>10, <1>11, <1>12,
           <1>13, <1>14, <1>15, <1>16 DEF ServeHTTP

\* Only SendRequest sends, and its handler awaits the answer next.
LEMMA NextSentInv ==
    ASSUME IInv, [Next]_vars PROVE SentInv'
<1> USE DEF shared, timers, admins, client, local, history, Goto, Answer
<1>1. TypeOK /\ SentInv
  BY DEF IInv
<1>2. ASSUME NEW r \in Requests, Arrive(r) PROVE SentInv'
  BY <1>1, <1>2 DEF TypeOK, SentInv, Arrive
<1>3. ASSUME NEW r \in Requests, LoadPolicy(r) PROVE SentInv'
  BY <1>1, <1>3 DEF TypeOK, SentInv, LoadPolicy
<1>4. ASSUME NEW r \in Requests, CheckAccess(r) PROVE SentInv'
  BY <1>1, <1>4 DEF TypeOK, SentInv, CheckAccess
<1>5. ASSUME NEW r \in Requests, RejectBody(r) PROVE SentInv'
  BY <1>1, <1>5 DEF TypeOK, SentInv, RejectBody
<1>6. ASSUME NEW r \in Requests, LookupVerdict(r) PROVE SentInv'
  <2>1. PICK step \in {"decide", "done"} : pc' = [pc EXCEPT ![r] = step]
    BY <1>1, <1>6, LookupDecides
  <2> QED BY <1>1, <1>6, <2>1 DEF TypeOK, SentInv, LookupVerdict
<1>7. ASSUME NEW r \in Requests, AnalyzeRequest(r) PROVE SentInv'
  BY <1>1, <1>7 DEF TypeOK, SentInv, AnalyzeRequest
<1>8. ASSUME NEW r \in Requests, LogDecision(r) PROVE SentInv'
  BY <1>1, <1>8 DEF TypeOK, SentInv, LogDecision
<1>9. ASSUME NEW r \in Requests, CacheDecision(r) PROVE SentInv'
  BY <1>1, <1>9 DEF TypeOK, SentInv, CacheDecision
<1>10. ASSUME NEW r \in Requests, TrackRisk(r) PROVE SentInv'
  <2>1. PICK step \in {"lock", "done"} : pc' = [pc EXCEPT ![r] = step]
    BY <1>10 DEF TrackRisk
  <2> QED BY <1>1, <1>10, <2>1 DEF TypeOK, SentInv, TrackRisk
<1>11. ASSUME NEW r \in Requests, BlockUser(r) PROVE SentInv'
  BY <1>1, <1>11 DEF TypeOK, SentInv, BlockUser
<1>12. ASSUME NEW r \in Requests, SendRequest(r) PROVE SentInv'
  BY <1>1, <1>12 DEF TypeOK, SentInv, SendRequest
<1>13. ASSUME NEW r \in Requests, ProviderFails(r) PROVE SentInv'
  BY <1>1, <1>13 DEF TypeOK, SentInv, ProviderFails
<1>14. ASSUME NEW r \in Requests, ProviderReplies(r) PROVE SentInv'
  BY <1>1, <1>14 DEF TypeOK, SentInv, ProviderReplies
<1>16. ASSUME NEW r \in Requests, Relay(r) PROVE SentInv'
  BY <1>1, <1>16 DEF TypeOK, SentInv, Relay, StartStream, ReadChunk, WriteChunk, EndStream
<1>15. CASE Elsewhere
  BY <1>1, <1>15, ElsewhereLeavesHandlers DEF SentInv
<1> QED BY StepCases, <1>2, <1>3, <1>4, <1>5, <1>6, <1>7, <1>8, <1>9, <1>10, <1>11, <1>12,
           <1>13, <1>14, <1>15, <1>16 DEF ServeHTTP

-----------------------------------------------------------------------------
(* Histories *)

\* A handler's step moves that handler and no other, and never back to "idle".
LEMMA HandlerMoves ==
    ASSUME TypeOK, NEW r \in Requests, ServeHTTP(r) \/ ProviderReplies(r) \/ Relay(r)
    PROVE  \E step : step # "idle" /\ pc' = [pc EXCEPT ![r] = step]
<1>1. CASE LookupVerdict(r)
  BY <1>1, LookupDecides DEF Goto
<1>2. CASE TrackRisk(r)
  BY <1>2 DEF TrackRisk, Goto, Answer
<1>3. CASE CheckAccess(r)
  BY <1>3 DEF CheckAccess, Goto, Answer
<1> QED BY <1>1, <1>2, <1>3
        DEF ServeHTTP, LoadPolicy, RejectBody, AnalyzeRequest, LogDecision, CacheDecision,
            BlockUser, SendRequest, ProviderFails, ProviderReplies,
         Relay, StartStream, ReadChunk, WriteChunk, EndStream, Goto, Answer

\* Once it has arrived, a request only goes on, and nobody but an
\* administrator changes a policy.
LEMMA HandlersLeaveHistory ==
    ASSUME TypeOK, NEW r \in Requests, ServeHTTP(r) \/ ProviderReplies(r) \/ Relay(r)
    PROVE  /\ UNCHANGED <<policy, org, inForce, everInForce>>
           /\ \A q \in Requests : Open(q)' => Open(q)
<1>1. UNCHANGED <<policy, org, inForce, everInForce>>
  BY DEF ServeHTTP, LoadPolicy, CheckAccess, RejectBody, LookupVerdict, AnalyzeRequest,
         LogDecision, CacheDecision, TrackRisk, BlockUser, SendRequest, ProviderFails,
         ProviderReplies, Relay, StartStream, ReadChunk, WriteChunk, EndStream, shared,
         client, history
<1>2. Open(r)
  BY DEF ServeHTTP, LoadPolicy, CheckAccess, RejectBody, LookupVerdict, AnalyzeRequest,
         LogDecision, CacheDecision, TrackRisk, BlockUser, SendRequest, ProviderFails,
         ProviderReplies,
         Relay, StartStream, ReadChunk, WriteChunk, EndStream, Open
<1>3. \E step : pc' = [pc EXCEPT ![r] = step]
  BY HandlerMoves
<1>4. ASSUME NEW q \in Requests, Open(q)' PROVE Open(q)
  BY <1>2, <1>3, <1>4 DEF Open, TypeOK
<1> QED BY <1>1, <1>4

\* An arrival and an update record the policy of the moment.
LEMMA NextHistoryInv ==
    ASSUME IInv, [Next]_vars PROVE HistoryInv'
<1>1. TypeOK /\ HistoryInv
  BY DEF IInv
<1>2. ASSUME NEW r \in Requests, Arrive(r) PROVE HistoryInv'
  <2>1. /\ UNCHANGED <<policy, org, everInForce>>
        /\ pc' = [pc EXCEPT ![r] = "load"]
        /\ inForce' = [inForce EXCEPT ![r] = {policy[org[r]]}]
    BY <1>2 DEF Arrive, Goto, shared, client
  <2>2. org[r] \in Orgs
    BY <1>1 DEF TypeOK
  <2> QED BY <1>1, <2>1, <2>2 DEF HistoryInv, TypeOK, Open
<1>3. ASSUME NEW r \in Requests, ServeHTTP(r) \/ ProviderReplies(r) \/ Relay(r) PROVE HistoryInv'
  BY <1>1, <1>3, HandlersLeaveHistory DEF HistoryInv
<1>4. ASSUME NEW o \in Orgs, UpdatePolicy(o) PROVE HistoryInv'
  <2>1. PICK c \in ConfigSet :
          /\ policy' = [policy EXCEPT ![o] = c]
          /\ everInForce' = [everInForce EXCEPT ![o] = @ \cup {c}]
          /\ inForce' = [r \in Requests |->
                           IF org[r] = o /\ pc[r] \notin {"idle", "done"}
                           THEN inForce[r] \cup {c} ELSE inForce[r]]
    BY <1>4 DEF UpdatePolicy
  <2>2. UNCHANGED <<pc, org>>
    BY <1>4 DEF UpdatePolicy, client
  <2> QED BY <1>1, <2>1, <2>2 DEF HistoryInv, TypeOK, Open
<1>5. CASE UNCHANGED <<policy, pc, org, inForce, everInForce>>
  BY <1>1, <1>5 DEF HistoryInv, Open
<1> QED BY <1>2, <1>3, <1>4, <1>5
        DEF Next, InvalidateOrg, FinishUpdate, CutUpdate,
            InvalidateKey, ExpireVerdict, PassTime, vars, shared, client,
            history

-----------------------------------------------------------------------------
(* The invariant holds, whatever fails *)

\* The inductive invariant holds in every reachable state.
THEOREM Invariance == Spec => []IInv
<1>1. Init => IInv
  <2> SUFFICES ASSUME Init PROVE IInv
    OBVIOUS
  <2>1. TypeOK
    BY InitTypeOK
  <2>2. DecidedInv /\ SentInv /\ HistoryInv
    BY <2>1 DEF Init, DecidedInv, SentInv, HistoryInv, Open, TypeOK
  <2> QED BY <2>1, <2>2 DEF IInv
<1>2. IInv /\ [Next]_vars => IInv'
  <2> SUFFICES ASSUME IInv, [Next]_vars PROVE IInv'
    OBVIOUS
  <2>1. TypeOK'
    BY NextTypeOK, StutterTypeOK DEF IInv
  <2> QED BY <2>1, NextDecidedInv, NextSentInv, NextHistoryInv DEF IInv
<1> QED BY <1>1, <1>2, PTL DEF Spec

\* Every variable keeps its type (handler.go:78-511).
THEOREM TypeCorrect == Spec => []TypeOK
<1>1. IInv => TypeOK
  BY DEF IInv
<1> QED BY <1>1, Invariance, PTL

-----------------------------------------------------------------------------
(* What an update leaves in the cache *)

\* A request has no verdict before AnalyzeRequest.
UndecidedInv ==
    \A r \in Requests :
        pc[r] \in {"idle", "load", "access", "body", "decide"} => verdict[r] = "NONE"

\* A request that was open under the policy in force decided as the cache says.
Vouched(o, p) ==
    \E r \in Requests : /\ org[r] = o /\ prompt[r] = p
                        /\ verdict[r] = cache[o][p]
                        /\ policy[o] \in inForce[r]

\* From the scan on, a verdict is vouched for, about to be deleted or missed.
KeptInv ==
    \A o \in Orgs : \A p \in PromptSet :
        admin[o] # "written" /\ cache[o][p] # "" =>
            p \in missed[o] \/ p \in togo[o] \/ Vouched(o, p)

\* Nothing is left to delete when nobody scans.
ScanInv == \A o \in Orgs : admin[o] = "idle" => togo[o] = {}

\* Whoever decides has had no verdict before, and keeps the one he gets.
LEMMA NextUndecidedInv ==
    ASSUME IInv, UndecidedInv, [Next]_vars
    PROVE  /\ UndecidedInv'
           /\ \A r \in Requests : verdict[r] = "NONE" \/ verdict'[r] = verdict[r]
<1> USE DEF shared, timers, admins, client, local, history, Goto, Answer
<1>1. TypeOK
  BY DEF IInv
<1>2. ASSUME NEW r \in Requests, AnalyzeRequest(r)
      PROVE  /\ UndecidedInv'
             /\ \A q \in Requests : verdict[q] = "NONE" \/ verdict'[q] = verdict[q]
  BY <1>1, <1>2 DEF AnalyzeRequest, UndecidedInv, TypeOK
<1>3. ASSUME NEW r \in Requests, Arrive(r) \/ ServeHTTP(r) \/ ProviderReplies(r) \/ Relay(r),
             ~AnalyzeRequest(r)
      PROVE  UndecidedInv' /\ UNCHANGED verdict
  <2>1. UNCHANGED verdict
    BY <1>3 DEF Arrive, ServeHTTP, LoadPolicy, CheckAccess, RejectBody, LookupVerdict,
                LogDecision, CacheDecision, TrackRisk, BlockUser, SendRequest,
                ProviderFails, ProviderReplies, Relay, StartStream, ReadChunk, WriteChunk,
                EndStream
  <2>2. PICK step : pc' = [pc EXCEPT ![r] = step]
    BY <1>1, <1>3, HandlerMoves DEF Arrive
  <2>3. \/ step \notin {"idle", "load", "access", "body", "decide"}
        \/ pc[r] \in {"idle", "load", "access", "body", "decide"}
    <3>1. CASE Arrive(r) \/ LoadPolicy(r) \/ CheckAccess(r) \/ RejectBody(r) \/ LookupVerdict(r)
      BY <3>1 DEF Arrive, LoadPolicy, CheckAccess, RejectBody, LookupVerdict
    <3>2. CASE LogDecision(r) \/ CacheDecision(r) \/ TrackRisk(r) \/ BlockUser(r)
      BY <1>1, <2>2, <3>2 DEF LogDecision, CacheDecision, TrackRisk, BlockUser, TypeOK
    <3>3. CASE SendRequest(r) \/ ProviderFails(r) \/ ProviderReplies(r) \/ Relay(r)
      BY <1>1, <2>2, <3>3 DEF SendRequest, ProviderFails, ProviderReplies, Relay, StartStream,
                              ReadChunk, WriteChunk, EndStream, TypeOK
    <3> QED BY <1>3, <3>1, <3>2, <3>3 DEF ServeHTTP
  <2> QED BY <1>1, <2>1, <2>2, <2>3 DEF UndecidedInv, TypeOK
<1>4. CASE Elsewhere
  BY <1>4, ElsewhereLeavesHandlers DEF UndecidedInv
<1> QED BY StepCases, <1>2, <1>3, <1>4

\* Who vouches for a verdict goes on doing so while the policy stays in force
\* and the verdict in the cache.
LEMMA VouchedStays ==
    ASSUME IInv, UndecidedInv, [Next]_vars, NEW o \in Orgs, NEW p \in PromptSet,
           Vouched(o, p), cache[o][p] # "", cache'[o][p] = cache[o][p],
           ~\E q \in Orgs : UpdatePolicy(q)
    PROVE  Vouched(o, p)'
<1> USE DEF shared, timers, admins, client, local, history, Goto, Answer
<1>1. TypeOK
  BY DEF IInv
<1>2. PICK r \in Requests : /\ org[r] = o /\ prompt[r] = p
                            /\ verdict[r] = cache[o][p] /\ policy[o] \in inForce[r]
  BY DEF Vouched
<1>3. verdict[r] # "NONE" /\ verdict'[r] = verdict[r]
  <2>1. cache[o][p] \in Actions
    <3>1. cache \in [Orgs -> [PromptSet -> Actions \cup {""}]]
      BY <1>1 DEF TypeOK
    <3> QED BY <3>1
  <2>2. verdict[r] # "NONE"
    BY <1>2, <2>1 DEF Actions
  <2> QED BY <2>2, NextUndecidedInv
<1>4. ~Arrive(r)
  BY <1>3 DEF Arrive, UndecidedInv
<1>5. UNCHANGED <<policy, org, prompt>> /\ inForce'[r] = inForce[r]
  <2>1. ASSUME NEW q \in Requests, Arrive(q)
        PROVE  UNCHANGED <<policy, org, prompt>> /\ inForce'[r] = inForce[r]
    <3>1. q # r
      BY <1>4, <2>1
    <3> QED BY <1>1, <2>1, <3>1 DEF Arrive, TypeOK
  <2>2. ASSUME NEW q \in Requests, ServeHTTP(q) \/ ProviderReplies(q) \/ Relay(q)
        PROVE  UNCHANGED <<policy, org, prompt, inForce>>
    <3>1. UNCHANGED prompt
      BY <2>2 DEF ServeHTTP, LoadPolicy, CheckAccess, RejectBody, LookupVerdict,
                  AnalyzeRequest, LogDecision, CacheDecision, TrackRisk, BlockUser,
                  SendRequest, ProviderFails, ProviderReplies, Relay, StartStream,
                  ReadChunk, WriteChunk, EndStream
    <3> QED BY <1>1, <2>2, <3>1, HandlersLeaveHistory
  <2>3. CASE Elsewhere
    BY <2>3 DEF Elsewhere, InvalidateOrg, FinishUpdate, CutUpdate, InvalidateKey,
                ExpireVerdict, PassTime, vars
  <2> QED BY <2>1, <2>2, <2>3, StepCases
<1> QED BY <1>2, <1>3, <1>5 DEF Vouched

\* A verdict that is there after a step was there before, or is its handler's.
LEMMA CacheSteps ==
    ASSUME TypeOK, [Next]_vars, NEW o \in Orgs, NEW p \in PromptSet, cache'[o][p] # ""
    PROVE  \/ cache'[o][p] = cache[o][p]
           \/ \E r \in Requests : /\ CacheDecision(r) /\ org[r] = o /\ prompt[r] = p
                                  /\ cache'[o][p] = verdict[r]
<1>1. cache \in [Orgs -> [PromptSet -> Actions \cup {""}]]
  BY DEF TypeOK
<1>2. ASSUME NEW r \in Requests, CacheDecision(r), cache' # cache
      PROVE  \/ cache'[o][p] = cache[o][p]
             \/ org[r] = o /\ prompt[r] = p /\ cache'[o][p] = verdict[r]
  <2>1. org[r] \in Orgs /\ prompt[r] \in PromptSet
    BY DEF TypeOK
  <2>2. PICK v : v = verdict[r]
    OBVIOUS
  <2>3. cache' = [cache EXCEPT ![org[r]][prompt[r]] = v]
    BY <1>2, <2>2 DEF CacheDecision, CacheOrg
  <2> QED BY <1>1, <2>1, <2>2, <2>3, OneKeySet
<1>3. ASSUME NEW q \in Orgs, NEW k \in PromptSet, InvalidateKey(q, k) \/ ExpireVerdict(q, k)
      PROVE  cache'[o][p] = cache[o][p]
  <2>1. cache' = cache \/ cache' = [cache EXCEPT ![q][k] = ""]
    BY <1>3 DEF InvalidateKey, ExpireVerdict
  <2>2. CASE cache' = [cache EXCEPT ![q][k] = ""]
    BY <1>1, <2>2, OneKeySet
  <2> QED BY <2>1, <2>2
<1> QED BY <1>2, <1>3
        DEF Next, Arrive, ServeHTTP, LoadPolicy, CheckAccess, RejectBody, LookupVerdict,
            AnalyzeRequest, LogDecision, TrackRisk, BlockUser, SendRequest, ProviderFails,
            ProviderReplies, Relay, StartStream, ReadChunk, WriteChunk, EndStream,
            UpdatePolicy, InvalidateOrg, FinishUpdate, CutUpdate, PassTime, vars, shared

\* A verdict that was missed, or is to be deleted, is so until it is gone,
\* replaced, or a scan finds it again.
LEMMA AccountStays ==
    ASSUME TypeOK, ScanInv, [Next]_vars, NEW o \in Orgs, NEW p \in PromptSet,
           cache'[o][p] # "", p \in missed[o] \/ p \in togo[o], admin'[o] # "written",
           ~\E r \in Requests : CacheDecision(r) /\ org[r] = o /\ prompt[r] = p
    PROVE  p \in missed'[o] \/ p \in togo'[o]
<1>1. /\ missed \in [Orgs -> SUBSET PromptSet] /\ togo \in [Orgs -> SUBSET PromptSet]
      /\ admin \in [Orgs -> {"idle", "written", "scan"}]
      /\ cache \in [Orgs -> [PromptSet -> Actions \cup {""}]]
  BY DEF TypeOK
<1>2. ASSUME NEW r \in Requests, CacheDecision(r) PROVE p \in missed'[o] \/ p \in togo'[o]
  <2>1. UNCHANGED togo /\ org[r] \in Orgs /\ (org[r] # o \/ prompt[r] # p)
    BY <1>2 DEF CacheDecision, admins, TypeOK
  <2>2. missed' \in {missed, [missed EXCEPT ![org[r]] = missed[org[r]] \ {prompt[r]}]}
    BY <1>2 DEF CacheDecision, CacheOrg
  <2> QED BY <1>1, <2>1, <2>2
<1>3. ASSUME NEW q \in Orgs, InvalidateOrg(q) PROVE p \in missed'[o] \/ p \in togo'[o]
  <2>1. /\ admin[q] = "written" /\ UNCHANGED cache
        /\ togo' = [togo EXCEPT ![q] = CachedPrompts(q)]
        /\ missed' = [missed EXCEPT ![q] = {}]
    BY <1>3 DEF InvalidateOrg, Scanned, shared
  <2> QED BY <1>1, <2>1 DEF CachedPrompts
<1>4. ASSUME NEW q \in Orgs, NEW k \in PromptSet, InvalidateKey(q, k)
      PROVE  p \in missed'[o] \/ p \in togo'[o]
  <2>1. togo' = [togo EXCEPT ![q] = togo[q] \ {k}]
    BY <1>4 DEF InvalidateKey
  <2>2. CASE q # o \/ k # p
    <3>1. \/ missed' = [missed EXCEPT ![q] = missed[q] \ {k}]
          \/ missed' = [missed EXCEPT ![q] = missed[q] \cup (togo[q] \cap {k})]
      BY <1>4 DEF InvalidateKey
    <3> QED BY <1>1, <2>1, <2>2, <3>1
  <2>3. CASE q = o /\ k = p
    <3>1. ASSUME cache' = [cache EXCEPT ![q][k] = ""] PROVE FALSE
      <4>1. cache'[o][p] = ""
        BY <1>1, <2>3, <3>1, OneKeySet
      <4> QED BY <4>1
    <3>2. missed' = [missed EXCEPT ![q] = missed[q] \cup (togo[q] \cap {k})]
      BY <1>4, <3>1 DEF InvalidateKey
    <3> QED BY <1>1, <2>3, <3>2
  <2> QED BY <2>2, <2>3
<1>5. ASSUME NEW q \in Orgs, NEW k \in PromptSet, ExpireVerdict(q, k)
      PROVE  p \in missed'[o] \/ p \in togo'[o]
  <2>1. /\ togo' = [togo EXCEPT ![q] = togo[q] \ {k}]
        /\ missed' = [missed EXCEPT ![q] = missed[q] \ {k}]
        /\ cache' = [cache EXCEPT ![q][k] = ""]
    BY <1>5 DEF ExpireVerdict
  <2>2. q # o \/ k # p
    BY <1>1, <2>1, OneKeySet
  <2> QED BY <1>1, <2>1, <2>2
<1>6. ASSUME NEW q \in Orgs, CutUpdate(q) PROVE p \in missed'[o] \/ p \in togo'[o]
  <2>1. /\ togo' = [togo EXCEPT ![q] = {}] /\ UNCHANGED cache
        /\ missed' = [missed EXCEPT ![q] = missed[q] \cup IF admin[q] = "scan" THEN togo[q]
                                                        ELSE CachedPrompts(q)]
    BY <1>6 DEF CutUpdate, shared
  <2> QED BY <1>1, <2>1 DEF CachedPrompts
<1>7. CASE UNCHANGED <<missed, togo>>
  BY <1>7
<1> QED BY <1>2, <1>3, <1>4, <1>5, <1>6, <1>7
        DEF Next, Arrive, ServeHTTP, LoadPolicy, CheckAccess, RejectBody, LookupVerdict,
            AnalyzeRequest, LogDecision, TrackRisk, BlockUser, SendRequest, ProviderFails,
            ProviderReplies, Relay, StartStream, ReadChunk, WriteChunk, EndStream,
            UpdatePolicy, FinishUpdate, PassTime, vars, admins, history

\* An update empties the cache of what was there when it wrote; what requests
\* under way cache later they vouch for.
LEMMA NextKeptInv ==
    ASSUME IInv, UndecidedInv, ScanInv, KeptInv, [Next]_vars PROVE KeptInv' /\ ScanInv'
<1>1. TypeOK /\ HistoryInv
  BY DEF IInv
<1>2. ASSUME NEW o \in Orgs, NEW p \in PromptSet, admin'[o] # "written", cache'[o][p] # ""
      PROVE  p \in missed'[o] \/ p \in togo'[o] \/ Vouched(o, p)'
  <2>1. ASSUME NEW r \in Requests, CacheDecision(r), org[r] = o, prompt[r] = p,
               cache'[o][p] = verdict[r]
        PROVE  Vouched(o, p)'
    <3>1. policy[o] \in inForce[r]
      BY <1>1, <2>1 DEF HistoryInv, Open, CacheDecision
    <3>2. UNCHANGED <<policy, org, prompt, verdict, inForce>>
      BY <2>1 DEF CacheDecision, client, local
    <3> QED BY <2>1, <3>1, <3>2 DEF Vouched
  <2>2. CASE admin[o] = "written"
    <3>1. PICK q \in Orgs : InvalidateOrg(q) \/ CutUpdate(q)
      BY <1>1, <1>2, <2>2 DEF Next, Arrive, ServeHTTP, LoadPolicy, CheckAccess, RejectBody,
            LookupVerdict, AnalyzeRequest, LogDecision, CacheDecision, TrackRisk, BlockUser,
            SendRequest, ProviderFails, ProviderReplies, Relay, StartStream, ReadChunk,
            WriteChunk, EndStream, UpdatePolicy, FinishUpdate, InvalidateKey, ExpireVerdict,
            PassTime, vars, admins, TypeOK
    <3>2. /\ admin[q] = "written" \/ q # o
          /\ UNCHANGED cache
          /\ \E to : admin' = [admin EXCEPT ![q] = to]
      BY <2>2, <3>1 DEF InvalidateOrg, CutUpdate, shared
    <3>3. q = o
      BY <1>1, <1>2, <2>2, <3>2 DEF TypeOK
    <3>4. p \in CachedPrompts(o)
      BY <1>2, <3>2 DEF CachedPrompts
    <3>5. CASE InvalidateOrg(o)
      BY <1>1, <3>4, <3>5 DEF InvalidateOrg, Scanned, TypeOK
    <3>6. CASE CutUpdate(o)
      BY <1>1, <2>2, <3>4, <3>6 DEF CutUpdate, TypeOK
    <3> QED BY <3>1, <3>3, <3>5, <3>6
  <2>3. CASE admin[o] # "written" /\ cache'[o][p] = cache[o][p]
             /\ ~\E r \in Requests : CacheDecision(r) /\ org[r] = o /\ prompt[r] = p
    <3>1. p \in missed[o] \/ p \in togo[o] \/ Vouched(o, p)
      BY <1>2, <2>3 DEF KeptInv
    <3>2. CASE p \in missed[o] \/ p \in togo[o]
      BY <1>1, <1>2, <2>3, <3>2, AccountStays
    <3>3. CASE Vouched(o, p) /\ ~\E q \in Orgs : UpdatePolicy(q)
      BY <1>2, <2>3, <3>3, VouchedStays
    <3>4. ASSUME NEW q \in Orgs, UpdatePolicy(q), Vouched(o, p) PROVE Vouched(o, p)'
      <4>1. /\ UNCHANGED <<cache, org, prompt, verdict>> /\ admin' = [admin EXCEPT ![q] = "written"]
            /\ \A r \in Requests : inForce[r] \subseteq inForce'[r]
            /\ \E c : policy' = [policy EXCEPT ![q] = c]
        BY <3>4 DEF UpdatePolicy, client, local
      <4>2. q # o
        BY <1>1, <1>2, <4>1 DEF TypeOK
      <4>3. policy'[o] = policy[o]
        BY <1>1, <4>1, <4>2 DEF TypeOK
      <4> QED BY <3>4, <4>1, <4>3 DEF Vouched
    <3> QED BY <3>1, <3>2, <3>3, <3>4
  <2>4. ASSUME NEW r \in Requests, CacheDecision(r), org[r] = o, prompt[r] = p,
               cache'[o][p] # verdict[r], admin[o] # "written"
        PROVE  p \in missed'[o] \/ p \in togo'[o] \/ Vouched(o, p)'
    <3>1. cache \in [Orgs -> [PromptSet -> Actions \cup {""}]]
      BY <1>1 DEF TypeOK
    <3>2. PICK v : v = verdict[r]
      OBVIOUS
    <3>3. UNCHANGED <<cache, missed, togo>>
      <4>1. CASE cache' = [cache EXCEPT ![o][p] = v]
        <5>1. cache'[o][p] = v
          BY <3>1, <4>1, OneKeySet
        <5> QED BY <2>4, <3>2, <5>1
      <4>2. CASE UNCHANGED <<cache, missed>>
        BY <2>4, <4>2 DEF CacheDecision, admins
      <4> QED BY <2>4, <3>2, <4>1, <4>2 DEF CacheDecision, CacheOrg
    <3>4. p \in missed[o] \/ p \in togo[o] \/ Vouched(o, p)
      BY <1>2, <2>4, <3>3 DEF KeptInv
    <3>5. UNCHANGED <<policy, org, prompt, verdict, inForce>>
      BY <2>4 DEF CacheDecision, client, local
    <3> QED BY <3>3, <3>4, <3>5 DEF Vouched
  <2>5. CASE admin[o] # "written" /\ ~\E r \in Requests : /\ CacheDecision(r)
                                                         /\ org[r] = o /\ prompt[r] = p
    <3>1. cache'[o][p] = cache[o][p]
      BY <1>1, <1>2, <2>5, CacheSteps
    <3> QED BY <2>3, <2>5, <3>1
  <2>6. CASE admin[o] # "written" /\ \E r \in Requests : /\ CacheDecision(r)
                                                        /\ org[r] = o /\ prompt[r] = p
    BY <2>1, <2>4, <2>6
  <2> QED BY <2>2, <2>5, <2>6
<1>3. ScanInv'
  <2>1. ASSUME NEW q \in Orgs, UpdatePolicy(q) \/ InvalidateOrg(q) \/ FinishUpdate(q) \/ CutUpdate(q)
        PROVE  ScanInv'
    BY <1>1, <2>1 DEF UpdatePolicy, InvalidateOrg, FinishUpdate, CutUpdate, ScanInv, TypeOK
  <2>2. ASSUME NEW q \in Orgs, NEW k \in PromptSet, InvalidateKey(q, k) \/ ExpireVerdict(q, k)
        PROVE  ScanInv'
    <3>1. UNCHANGED admin /\ togo' = [togo EXCEPT ![q] = togo[q] \ {k}]
      BY <2>2 DEF InvalidateKey, ExpireVerdict
    <3> QED BY <1>1, <3>1 DEF ScanInv, TypeOK
  <2>3. CASE UNCHANGED <<admin, togo>>
    BY <2>3 DEF ScanInv
  <2> QED BY <2>1, <2>2, <2>3
          DEF Next, Arrive, ServeHTTP, LoadPolicy, CheckAccess, RejectBody, LookupVerdict,
              AnalyzeRequest, LogDecision, CacheDecision, TrackRisk, BlockUser, SendRequest,
              ProviderFails, ProviderReplies, Relay, StartStream, ReadChunk, WriteChunk,
              EndStream, PassTime, vars, admins
<1> QED BY <1>2, <1>3 DEF KeptInv

\* Once an update is done, what it was not cut short of deleting was cached by a
\* request that was open under the new policy, though it may have loaded the old
\* one (handler.go:102, 395-398; redis.go:60-80; admin.go:205-213).
THEOREM KeptVerdictsAreRecent == Spec => []KeptVerdictsWereUnderWay
<1>1. Init => UndecidedInv /\ ScanInv /\ KeptInv
  <2> SUFFICES ASSUME Init PROVE UndecidedInv /\ ScanInv /\ KeptInv
    OBVIOUS
  <2>1. cache = [o \in Orgs |-> [p \in PromptSet |-> ""]]
    BY DEF Init
  <2>2. \A o \in Orgs : \A p \in PromptSet : cache[o][p] = ""
    BY <2>1
  <2>3. UndecidedInv /\ ScanInv
    BY DEF Init, UndecidedInv, ScanInv
  <2> QED BY <2>2, <2>3 DEF KeptInv
<1>2. IInv /\ UndecidedInv /\ ScanInv /\ KeptInv /\ [Next]_vars
         => (UndecidedInv /\ ScanInv /\ KeptInv)'
  BY NextKeptInv, NextUndecidedInv
<1>3. IInv /\ UndecidedInv /\ ScanInv /\ KeptInv => KeptVerdictsWereUnderWay
  <2> SUFFICES ASSUME ScanInv, KeptInv, NEW o \in Orgs,
                      NEW p \in CachedPrompts(o) \ missed[o], admin[o] = "idle"
               PROVE  \E r \in Requests : /\ org[r] = o /\ prompt[r] = p
                                          /\ verdict[r] = cache[o][p]
                                          /\ policy[o] \in inForce[r]
    BY DEF KeptVerdictsWereUnderWay
  <2>1. p \in PromptSet /\ cache[o][p] # "" /\ p \notin missed[o]
    BY DEF CachedPrompts
  <2>2. Vouched(o, p)
    BY <2>1 DEF ScanInv, KeptInv
  <2> QED BY <2>2 DEF Vouched
<1> QED BY <1>1, <1>2, <1>3, Invariance, PTL DEF Spec

-----------------------------------------------------------------------------
(* As long as policies can be read *)

\* A handler works with a policy that was its organization's while the request
\* was open.
ConfigInv ==
    \A r \in Requests : pc[r] \notin {"idle", "load", "done"} => config[r] \in inForce[r]

\* A handler reads a policy in force and keeps it, however often it is replaced.
LEMMA NextConfigInv ==
    ASSUME "policy" \notin Failures, IInv, ConfigInv, [Next]_vars
    PROVE  ConfigInv'
<1>1. TypeOK /\ HistoryInv
  BY DEF IInv
<1>2. ASSUME NEW r \in Requests, Arrive(r) PROVE ConfigInv'
  BY <1>1, <1>2 DEF TypeOK, ConfigInv, Arrive, Goto, local
<1>3. ASSUME NEW r \in Requests, LoadPolicy(r) PROVE ConfigInv'
  <2>1. config' = [config EXCEPT ![r] = policy[org[r]]]
    <3>1. Outcome("policy") = {TRUE}
      BY OutcomeCertain
    <3> QED BY <1>3, <3>1 DEF LoadPolicy
  <2>2. policy[org[r]] \in inForce[r]
    BY <1>1, <1>3 DEF HistoryInv, Open, LoadPolicy
  <2>3. pc' = [pc EXCEPT ![r] = "access"] /\ UNCHANGED inForce
    BY <1>3 DEF LoadPolicy, Goto, history
  <2> QED BY <1>1, <2>1, <2>2, <2>3 DEF TypeOK, ConfigInv
<1>4. ASSUME NEW r \in Requests, ServeHTTP(r) \/ ProviderReplies(r) \/ Relay(r), ~LoadPolicy(r)
      PROVE  ConfigInv'
  <2>1. UNCHANGED <<config, inForce>>
    BY <1>4 DEF ServeHTTP, CheckAccess, RejectBody, LookupVerdict, AnalyzeRequest,
                LogDecision, CacheDecision, TrackRisk, BlockUser, SendRequest,
                ProviderFails, ProviderReplies,
         Relay, StartStream, ReadChunk, WriteChunk, EndStream, local, history
  <2>2. pc[r] \notin {"idle", "load", "done"}
    BY <1>4 DEF ServeHTTP, CheckAccess, RejectBody, LookupVerdict, AnalyzeRequest,
                LogDecision, CacheDecision, TrackRisk, BlockUser, SendRequest,
                ProviderFails, ProviderReplies, Relay, StartStream, ReadChunk, WriteChunk,
                EndStream
  <2>3. \E step : pc' = [pc EXCEPT ![r] = step]
    BY <1>1, <1>4, HandlerMoves
  <2> QED BY <1>1, <2>1, <2>2, <2>3 DEF TypeOK, ConfigInv
<1>5. ASSUME NEW o \in Orgs, UpdatePolicy(o) PROVE ConfigInv'
  <2>1. \A r \in Requests : inForce[r] \subseteq inForce'[r]
    BY <1>5 DEF UpdatePolicy
  <2>2. UNCHANGED <<pc, config>>
    BY <1>5 DEF UpdatePolicy, local
  <2> QED BY <2>1, <2>2 DEF ConfigInv
<1>6. CASE UNCHANGED <<pc, config, inForce>>
  BY <1>6 DEF ConfigInv
<1> QED BY <1>2, <1>3, <1>4, <1>5, <1>6
        DEF Next, InvalidateOrg, FinishUpdate, CutUpdate,
            InvalidateKey, ExpireVerdict, PassTime, vars, local, history

\* Every handler at work holds a policy that was in force while it was.
THEOREM ConfigInvariance ==
    ASSUME "policy" \notin Failures PROVE Spec => [](IInv /\ ConfigInv)
<1>1. Init => ConfigInv
  BY DEF Init, ConfigInv
<1>2. IInv /\ ConfigInv /\ [Next]_vars => ConfigInv'
  BY NextConfigInv
<1> QED BY <1>1, <1>2, Invariance, PTL DEF Spec

\* A cached verdict was decided for its prompt under a policy of its own
\* organization, whatever the handlers of others cache and clear meanwhile
\* (handler.go:161, redis.go:60-80).
THEOREM TenantsHaveTheirOwnVerdicts ==
    ASSUME "policy" \notin Failures PROVE Spec => []VerdictsStayWithTheirTenant
<1>1. Init => VerdictsStayWithTheirTenant
  <2>1. Init => cache = [o \in Orgs |-> [p \in PromptSet |-> ""]]
    BY DEF Init
  <2>2. ASSUME NEW o \in Orgs, NEW p \in PromptSet, Init PROVE cache[o][p] = ""
    <3>1. cache[o] = [k \in PromptSet |-> ""]
      BY <2>1, <2>2
    <3> QED BY <3>1
  <2> QED BY <2>2 DEF VerdictsStayWithTheirTenant
<1>2. ASSUME IInv, ConfigInv, VerdictsStayWithTheirTenant, [Next]_vars
      PROVE  VerdictsStayWithTheirTenant'
  <2>1. TypeOK /\ DecidedInv /\ HistoryInv
    BY <1>2 DEF IInv
  <2>2. ASSUME NEW r \in Requests, CacheDecision(r) PROVE VerdictsStayWithTheirTenant'
    <3>1. PICK v : v = Decision(prompt[r], config[r]).Action
      OBVIOUS
    <3>2. /\ cache' = cache \/ cache' = [cache EXCEPT ![org[r]][prompt[r]] = v]
          /\ UNCHANGED everInForce
      BY <2>1, <2>2, <3>1 DEF DecidedInv, CacheDecision, CacheOrg, history
    <3>3. config[r] \in everInForce[org[r]]
      BY <1>2, <2>1, <2>2 DEF ConfigInv, HistoryInv, CacheDecision
    <3>4. /\ cache \in [Orgs -> [PromptSet -> Actions \cup {""}]]
          /\ org[r] \in Orgs /\ prompt[r] \in PromptSet
      BY <2>1 DEF TypeOK
    <3>5. ASSUME NEW o \in Orgs, NEW p \in PromptSet
          PROVE  \/ cache'[o][p] = cache[o][p]
                 \/ cache'[o][p] = v /\ o = org[r] /\ p = prompt[r]
      <4>1. CASE cache' = [cache EXCEPT ![org[r]][prompt[r]] = v]
        BY <3>4, <4>1, OneKeySet
      <4>2. CASE cache' = cache
        BY <4>2
      <4> QED BY <3>2, <4>1, <4>2
    <3>6. ASSUME NEW o \in Orgs, NEW p \in PromptSet
          PROVE  \/ cache'[o][p] = ""
                 \/ \E c \in everInForce'[o] : cache'[o][p] = Decision(p, c).Action
      <4>1. cache[o][p] = "" \/ \E c \in everInForce[o] : cache[o][p] = Decision(p, c).Action
        BY <1>2 DEF VerdictsStayWithTheirTenant
      <4>2. CASE cache'[o][p] = v /\ o = org[r] /\ p = prompt[r]
        BY <3>1, <3>2, <3>3, <4>2
      <4>3. CASE cache'[o][p] = cache[o][p]
        BY <3>2, <4>1, <4>3
      <4> QED BY <3>5, <4>2, <4>3
    <3> QED BY <3>6 DEF VerdictsStayWithTheirTenant
  <2>3. ASSUME NEW o \in Orgs, UpdatePolicy(o) PROVE VerdictsStayWithTheirTenant'
    <3>1. UNCHANGED cache
      BY <2>3 DEF UpdatePolicy
    <3>2. \A q \in Orgs : everInForce[q] \subseteq everInForce'[q]
      <4>1. everInForce \in [Orgs -> SUBSET ConfigSet]
        BY <2>1 DEF TypeOK
      <4>2. \E c \in ConfigSet : everInForce' = [everInForce EXCEPT ![o] = @ \cup {c}]
        BY <2>3 DEF UpdatePolicy
      <4> QED BY <4>1, <4>2
    <3> QED BY <1>2, <3>1, <3>2 DEF VerdictsStayWithTheirTenant
  <2>4. ASSUME NEW o \in Orgs, NEW p \in PromptSet, InvalidateKey(o, p) \/ ExpireVerdict(o, p)
        PROVE  VerdictsStayWithTheirTenant'
    <3>1. /\ cache' = cache \/ cache' = [cache EXCEPT ![o][p] = ""]
          /\ UNCHANGED everInForce
      BY <2>4 DEF InvalidateKey, ExpireVerdict, history
    <3>2. cache \in [Orgs -> [PromptSet -> Actions \cup {""}]]
      BY <2>1 DEF TypeOK
    <3>3. ASSUME NEW q \in Orgs, NEW k \in PromptSet
          PROVE  cache'[q][k] = cache[q][k] \/ cache'[q][k] = ""
      <4>1. CASE cache' = [cache EXCEPT ![o][p] = ""]
        BY <3>2, <4>1, OneKeySet
      <4>2. CASE cache' = cache
        BY <4>2
      <4> QED BY <3>1, <4>1, <4>2
    <3>4. ASSUME NEW q \in Orgs, NEW k \in PromptSet
          PROVE  \/ cache'[q][k] = ""
                 \/ \E c \in everInForce'[q] : cache'[q][k] = Decision(k, c).Action
      <4>1. cache[q][k] = "" \/ \E c \in everInForce[q] : cache[q][k] = Decision(k, c).Action
        BY <1>2 DEF VerdictsStayWithTheirTenant
      <4> QED BY <3>1, <3>3, <4>1
    <3> QED BY <3>4 DEF VerdictsStayWithTheirTenant
  <2>5. CASE UNCHANGED <<cache, everInForce>>
    BY <1>2, <2>5 DEF VerdictsStayWithTheirTenant
  <2> QED BY <1>2, <2>2, <2>3, <2>4, <2>5
          DEF Next, Arrive, ServeHTTP, LoadPolicy, CheckAccess, RejectBody, LookupVerdict,
              AnalyzeRequest, LogDecision, TrackRisk, BlockUser, SendRequest, ProviderFails,
              ProviderReplies, Relay, StartStream, ReadChunk, WriteChunk, EndStream,
              InvalidateOrg, FinishUpdate, CutUpdate, PassTime, vars, shared, history
<1> QED BY <1>1, <1>2, ConfigInvariance, PTL DEF Spec

-----------------------------------------------------------------------------
(* As long as the log takes rows *)

\* The row of a decision is in the log from LogDecision on.
LoggedInv ==
    \A r \in Requests :
        pc[r] \in {"cache", "track", "lock", "forward", "await"} \/ sent[r] # <<>> =>
            <<r, verdict[r]>> \in logged

\* No step of the gateway takes a row from the log.
LEMMA LogGrows == [Next]_vars => logged \subseteq logged'
BY DEF Next, Arrive, ServeHTTP, LoadPolicy, CheckAccess, RejectBody, LookupVerdict,
       AnalyzeRequest, LogDecision, LogRequest, CacheDecision, TrackRisk, BlockUser,
       SendRequest, ProviderFails, ProviderReplies,
         Relay, StartStream, ReadChunk, WriteChunk, EndStream, UpdatePolicy, InvalidateOrg, FinishUpdate,
       CutUpdate, InvalidateKey, ExpireVerdict, PassTime, vars, shared

\* The row is there when the handler goes on, and stays.
LEMMA NextLoggedInv ==
    ASSUME "log" \notin Failures, IInv, LoggedInv, [Next]_vars PROVE LoggedInv'
<1>1. TypeOK /\ SentInv /\ logged \subseteq logged'
  BY LogGrows DEF IInv
<1>2. ASSUME NEW r \in Requests, Arrive(r) PROVE LoggedInv'
  BY <1>1, <1>2 DEF TypeOK, LoggedInv, Arrive, Goto, local
<1>3. ASSUME NEW r \in Requests, AnalyzeRequest(r) PROVE LoggedInv'
  BY <1>1, <1>3 DEF TypeOK, SentInv, LoggedInv, AnalyzeRequest, Goto
<1>4. ASSUME NEW r \in Requests, LogDecision(r) PROVE LoggedInv'
  <2>1. <<r, verdict[r]>> \in logged'
    <3>1. Outcome("log") = {TRUE}
      BY OutcomeCertain
    <3>2. logged' = logged \cup {<<r, verdict[r]>>}
      BY <1>4, <3>1 DEF LogDecision, LogRequest
    <3> QED BY <3>2
  <2> QED BY <1>1, <1>4, <2>1 DEF TypeOK, LoggedInv, LogDecision, Goto, local
<1>5. ASSUME NEW r \in Requests, CacheDecision(r) \/ TrackRisk(r) \/ BlockUser(r)
                                  \/ ProviderFails(r) \/ ProviderReplies(r)
      PROVE  LoggedInv'
  <2>1. pc[r] \in {"cache", "track", "lock", "forward", "await"} /\ UNCHANGED <<verdict, sent>>
    BY <1>5 DEF CacheDecision, TrackRisk, BlockUser, ProviderFails, ProviderReplies,
         Relay, StartStream, ReadChunk, WriteChunk, EndStream, local
  <2>2. \E step : pc' = [pc EXCEPT ![r] = step]
    BY <1>1, <1>5, HandlerMoves DEF ServeHTTP
  <2> QED BY <1>1, <2>1, <2>2 DEF TypeOK, LoggedInv
<1>6. ASSUME NEW r \in Requests, SendRequest(r) PROVE LoggedInv'
  BY <1>1, <1>6 DEF TypeOK, LoggedInv, SendRequest, Goto
<1>7. ASSUME NEW r \in Requests,
             LoadPolicy(r) \/ CheckAccess(r) \/ RejectBody(r) \/ LookupVerdict(r)
      PROVE  LoggedInv'
  <2>1. UNCHANGED <<verdict, sent>>
    BY <1>7 DEF LoadPolicy, CheckAccess, RejectBody, LookupVerdict
  <2>2. PICK step \in {"access", "body", "decide", "done"} : pc' = [pc EXCEPT ![r] = step]
    BY <1>1, <1>7, LookupDecides DEF LoadPolicy, CheckAccess, RejectBody, Goto, Answer
  <2> QED BY <1>1, <2>1, <2>2 DEF TypeOK, LoggedInv
<1>8. ASSUME NEW r \in Requests, Relay(r) PROVE LoggedInv'
  <2>1. UNCHANGED <<verdict, sent>>
    BY <1>8 DEF Relay, StartStream, ReadChunk, WriteChunk, EndStream, local
  <2>2. PICK step \in {"relay", "write", "done"} : pc' = [pc EXCEPT ![r] = step]
    BY <1>8 DEF Relay, StartStream, ReadChunk, WriteChunk, EndStream, Goto, Answer
  <2> QED BY <1>1, <2>1, <2>2 DEF TypeOK, LoggedInv
<1>9. CASE Elsewhere
  BY <1>1, <1>9, ElsewhereLeavesHandlers DEF LoggedInv, local
<1> QED BY StepCases, <1>2, <1>3, <1>4, <1>5, <1>6, <1>7, <1>8, <1>9 DEF ServeHTTP

\* No prompt leaves before its row is in the log (handler.go:374-399, 415-416).
THEOREM NothingLeavesUnlogged ==
    ASSUME "log" \notin Failures PROVE Spec => []ForwardedWasLogged
<1>1. Init => LoggedInv
  BY DEF Init, LoggedInv
<1>2. IInv /\ LoggedInv /\ [Next]_vars => LoggedInv'
  BY NextLoggedInv
<1>3. LoggedInv => ForwardedWasLogged
  BY DEF LoggedInv, ForwardedWasLogged
<1> QED BY <1>1, <1>2, <1>3, Invariance, PTL DEF Spec

-----------------------------------------------------------------------------
(* As long as Redis answers *)

\* A counter lives as long as it counts anything, and the lock of a user above
\* the limit, once set, lives at least as long as the counter.
RiskInv ==
    \A u \in Users :
        /\ riskEvents[u] > 0 => riskLeft[u] > 0
        /\ riskEvents[u] > MaxRiskEvents => Locking(u) \/ lockLeft[u] >= riskLeft[u]

\* Who is about to lock a user stays so until BlockUser.
LEMMA LockingStays ==
    ASSUME TypeOK, NEW r \in Requests, NEW step, pc' = [pc EXCEPT ![r] = step],
           UNCHANGED user, NEW u, Locking(u), pc[r] # "lock" \/ user[r] # u
    PROVE  Locking(u)'
<1>1. PICK q \in Requests : user[q] = u /\ pc[q] = "lock"
  BY DEF Locking
<1>2. q # r
  BY <1>1
<1> QED BY <1>1, <1>2 DEF Locking, TypeOK

\* Counters and times to live are numbers.
LEMMA TimerTypes ==
    ASSUME TypeOK, NEW u \in Users
    PROVE  /\ riskEvents[u] \in Nat /\ riskLeft[u] \in Nat /\ lockLeft[u] \in Nat
           /\ riskLeft[u] <= RiskTTL
<1>1. RiskTTL \in Nat /\ LockTTL \in Nat
  BY GatewayAssumption
<1>2. riskEvents[u] \in Nat /\ riskLeft[u] \in 0 .. RiskTTL /\ lockLeft[u] \in 0 .. LockTTL
  BY DEF TypeOK
<1> QED BY <1>1, <1>2

\* Counting, locking and the passing of time keep locks ahead of counters.
LEMMA NextRiskInv ==
    ASSUME "redis" \notin Failures, IInv, RiskInv, [Next]_vars PROVE RiskInv'
<1>1. TypeOK
  BY DEF IInv
<1>2. \A u \in Users : /\ riskEvents[u] \in Nat /\ riskLeft[u] \in Nat /\ lockLeft[u] \in Nat
                       /\ riskLeft[u] <= RiskTTL
  BY <1>1, TimerTypes
<1>3. MaxRiskEvents \in Nat /\ RiskTTL \in Nat \ {0} /\ LockTTL \in Nat /\ RiskTTL <= LockTTL
  BY GatewayAssumption
<1>4. Outcome("redis") = {TRUE}
  BY OutcomeCertain
<1>5. ASSUME NEW r \in Requests, TrackRisk(r) PROVE RiskInv'
  <2>1. pc[r] = "track" /\ UNCHANGED <<user, lockLeft>>
    BY <1>5 DEF TrackRisk, client
  <2>2. \A u \in Users : Locking(u) => Locking(u)'
    <3>1. PICK step : pc' = [pc EXCEPT ![r] = step]
      BY <1>1, <1>5, HandlerMoves DEF ServeHTTP
    <3> QED BY <1>1, <2>1, <3>1, LockingStays
  <2>3. CASE ~IsHighRisk(r)
    <3>1. UNCHANGED <<riskEvents, riskLeft>>
      BY <1>4, <1>5, <2>3 DEF TrackRisk
    <3> QED BY <2>1, <2>2, <3>1 DEF RiskInv
  <2>4. CASE IsHighRisk(r)
    <3>1. PICK count : count = riskEvents[user[r]] + 1
      OBVIOUS
    <3>2. user[r] \in Users /\ count \in Nat
      <4>1. user[r] \in Users
        BY <1>1 DEF TypeOK
      <4> QED BY <1>2, <3>1, <4>1
    <3>3. /\ riskEvents' = [riskEvents EXCEPT ![user[r]] = count]
          /\ riskLeft' = [riskLeft EXCEPT ![user[r]] = RiskTTL]
          /\ Exceeds(count) => pc' = [pc EXCEPT ![r] = "lock"]
      BY <1>4, <1>5, <2>4, <3>1 DEF TrackRisk, Goto
    <3>4. \A u : u = user[r] /\ count > MaxRiskEvents => Locking(u)'
      BY <1>1, <2>1, <3>3 DEF Exceeds, Locking, TypeOK
    <3>5. ASSUME NEW u \in Users
          PROVE  /\ riskEvents'[u] > 0 => riskLeft'[u] > 0
                 /\ riskEvents'[u] > MaxRiskEvents =>
                       Locking(u)' \/ lockLeft'[u] >= riskLeft'[u]
      <4>1. CASE u = user[r]
        <5>1. riskEvents'[u] = count /\ riskLeft'[u] = RiskTTL
          BY <1>1, <3>3, <4>1 DEF TypeOK
        <5>2. count > MaxRiskEvents => Locking(u)'
          BY <3>4, <4>1
        <5> QED BY <1>3, <5>1, <5>2
      <4>2. CASE u # user[r]
        <5>1. riskEvents'[u] = riskEvents[u] /\ riskLeft'[u] = riskLeft[u]
          BY <1>1, <3>3, <4>2 DEF TypeOK
        <5> QED BY <2>1, <2>2, <5>1 DEF RiskInv
      <4> QED BY <4>1, <4>2
    <3> QED BY <3>5 DEF RiskInv
  <2> QED BY <2>3, <2>4
<1>6. ASSUME NEW r \in Requests, BlockUser(r) PROVE RiskInv'
  <2>1. /\ UNCHANGED <<user, riskEvents, riskLeft>>
        /\ pc' = [pc EXCEPT ![r] = "done"]
        /\ lockLeft' = [lockLeft EXCEPT ![user[r]] = LockTTL]
    BY <1>4, <1>6 DEF BlockUser, Answer, Goto, client
  <2>2. ASSUME NEW u \in Users
        PROVE  riskEvents[u] > MaxRiskEvents => Locking(u)' \/ lockLeft'[u] >= riskLeft[u]
    <3>1. CASE u = user[r]
      <4>1. lockLeft'[u] = LockTTL
        BY <1>1, <2>1, <3>1 DEF TypeOK
      <4> QED BY <1>2, <1>3, <4>1
    <3>2. CASE u # user[r]
      <4>1. Locking(u) => Locking(u)'
        BY <1>1, <2>1, <3>2, LockingStays
      <4>2. lockLeft'[u] = lockLeft[u]
        BY <1>1, <2>1, <3>2 DEF TypeOK
      <4> QED BY <4>1, <4>2 DEF RiskInv
    <3> QED BY <3>1, <3>2
  <2> QED BY <2>1, <2>2 DEF RiskInv
<1>7. ASSUME PassTime PROVE RiskInv'
  <2>1. UNCHANGED <<user, pc>>
    BY <1>7 DEF PassTime, client
  <2>2. \A u \in Users : Locking(u) => Locking(u)'
    BY <2>1 DEF Locking
  <2>3. ASSUME NEW u \in Users
        PROVE  /\ riskEvents'[u] > 0 => riskLeft'[u] > 0
               /\ riskEvents'[u] > MaxRiskEvents => Locking(u)' \/ lockLeft'[u] >= riskLeft'[u]
    <3>1. /\ riskEvents'[u] = IF riskLeft[u] <= 1 THEN 0 ELSE riskEvents[u]
          /\ riskLeft'[u] = LessOne(riskLeft[u]) /\ lockLeft'[u] = LessOne(lockLeft[u])
      BY <1>7 DEF PassTime
    <3>2. CASE riskLeft[u] <= 1
      BY <1>3, <3>1, <3>2
    <3>3. CASE riskLeft[u] > 1
      <4>1. riskLeft'[u] = riskLeft[u] - 1
        BY <1>2, <3>1, <3>3 DEF LessOne
      <4>2. lockLeft[u] >= riskLeft[u] => lockLeft'[u] >= riskLeft'[u]
        BY <1>2, <3>1, <3>3, <4>1 DEF LessOne
      <4>3. riskEvents'[u] = riskEvents[u]
        BY <1>2, <3>1, <3>3
      <4> QED BY <1>2, <2>2, <3>3, <4>1, <4>2, <4>3 DEF RiskInv
    <3> QED BY <1>2, <3>2, <3>3
  <2> QED BY <2>3 DEF RiskInv
<1>8. ASSUME UNCHANGED <<timers, user>>, \A u \in Users : Locking(u) => Locking(u)'
      PROVE  RiskInv'
  BY <1>8 DEF RiskInv, timers
<1>9. ASSUME NEW r \in Requests, Arrive(r) \/ ServeHTTP(r) \/ ProviderReplies(r) \/ Relay(r),
             ~TrackRisk(r), ~BlockUser(r)
      PROVE  RiskInv'
  <2>1. pc[r] # "lock" /\ UNCHANGED <<timers, user>>
    BY <1>9 DEF Arrive, ServeHTTP, LoadPolicy, CheckAccess, RejectBody, LookupVerdict,
                AnalyzeRequest, LogDecision, CacheDecision, SendRequest, ProviderFails,
                ProviderReplies,
         Relay, StartStream, ReadChunk, WriteChunk, EndStream, shared, client
  <2>2. PICK step : pc' = [pc EXCEPT ![r] = step]
    BY <1>1, <1>9, HandlerMoves DEF Arrive, Goto
  <2>3. \A u \in Users : Locking(u) => Locking(u)'
    BY <1>1, <2>1, <2>2, LockingStays
  <2> QED BY <1>8, <2>1, <2>3
<1>10. CASE UNCHANGED <<timers, user, pc>>
  <2>1. \A u \in Users : Locking(u) => Locking(u)'
    BY <1>10 DEF Locking
  <2> QED BY <1>8, <1>10, <2>1
<1> QED BY <1>5, <1>6, <1>7, <1>9, <1>10
        DEF Next, UpdatePolicy, InvalidateOrg, FinishUpdate, CutUpdate,
            InvalidateKey, ExpireVerdict, vars, shared, client

\* Neither concurrent refusals nor the expiry of an earlier lock leave a repeat
\* offender free, because a lock lives longer than the counter
\* (anomaly.go:32-45, redis.go:82-107).
THEOREM OffendersAreLocked ==
    ASSUME "redis" \notin Failures PROVE Spec => []RepeatOffendersAreLocked
<1>1. Init => RiskInv
  <2>1. MaxRiskEvents \in Nat
    BY GatewayAssumption
  <2>2. Init => riskEvents = [u \in Users |-> 0]
    BY DEF Init
  <2> QED BY <2>1, <2>2 DEF RiskInv
<1>2. IInv /\ RiskInv /\ [Next]_vars => RiskInv'
  BY NextRiskInv
<1>3. IInv /\ RiskInv => RepeatOffendersAreLocked
  <2> SUFFICES ASSUME IInv, RiskInv, NEW u \in Users, riskEvents[u] > MaxRiskEvents
               PROVE  lockLeft[u] > 0 \/ Locking(u)
    BY DEF RepeatOffendersAreLocked
  <2>1. riskEvents[u] \in Nat /\ riskLeft[u] \in Nat /\ lockLeft[u] \in Nat
    BY TimerTypes DEF IInv
  <2>2. MaxRiskEvents \in Nat
    BY GatewayAssumption
  <2> QED BY <2>1, <2>2 DEF RiskInv
<1> QED BY <1>1, <1>2, <1>3, Invariance, PTL DEF Spec

-----------------------------------------------------------------------------
(* The contract *)

\* The contract counts as the gateway does.
LEMMA SameCardinality == \A S : Contract!Cardinality(S) = Cardinality(S)
BY DEF Cardinality, Contract!Cardinality

\* The contract and the gateway speak of the same decisions.
LEMMA SameDecision ==
    /\ \A p, c : Contract!Decision(p, c) = Decision(p, c)
    /\ \A p, c : Contract!ForwardBody(p, c) = ForwardBody(p, c)
<1> USE DEF Points, Contract!Points, Percent, Contract!Percent
<1>1. \A p, c : Contract!Redacted(p, c) = Redacted(p, c)
  BY DEF Redacted, Contract!Redacted
<1>2. ASSUME NEW p, NEW c PROVE Contract!Signals(p, c) = Signals(p, c)
  <2>1. \A w : Contract!ScanRisk(w) = ScanRisk(w)
    BY DEF Unit, Rounding, CalculateAttackWeight, PredictRisk, ScanRisk, Contract!Unit,
           Contract!Rounding, Contract!CalculateAttackWeight, Contract!PredictRisk,
           Contract!ScanRisk
  <2>2. Contract!InjectionRisk(p, TRUE) = InjectionRisk(p, TRUE)
    BY <2>1 DEF InjectionRisk, Contract!InjectionRisk, Unit, Contract!Unit
  <2>3. PICK i, t, r : /\ i = InjectionRisk(p, TRUE) /\ i = Contract!InjectionRisk(p, TRUE)
                       /\ t = TopicRisk(p) /\ t = Contract!TopicRisk(p)
                       /\ r = Redacted(p, c) /\ r = Contract!Redacted(p, c)
    BY <1>1, <2>2 DEF TopicRisk, Contract!TopicRisk
  <2>4. Signals(p, c) =
          [InjectionScore |-> IF "PromptInjection" \in c.On THEN i ELSE 0,
           VectorScore    |-> IF "VectorGuard" \in c.On THEN t ELSE 0,
           LeakDetected   |-> "PromptLeaking" \in c.On /\ p.leak,
           Obfuscated     |-> p.obfuscated,
           PIICount       |-> Cardinality(r),
           HasPerson      |-> "PERSON" \in r,
           HasMedical     |-> "MEDICAL" \in r,
           OutOfDomain    |-> "VectorGuard" \in c.On /\ p.offTopic]
    BY <2>3 DEF Signals
  <2>5. Contract!Signals(p, c) =
          [InjectionScore |-> IF "PromptInjection" \in c.On THEN i ELSE 0,
           VectorScore    |-> IF "VectorGuard" \in c.On THEN t ELSE 0,
           LeakDetected   |-> "PromptLeaking" \in c.On /\ p.leak,
           Obfuscated     |-> p.obfuscated,
           PIICount       |-> Cardinality(r),
           HasPerson      |-> "PERSON" \in r,
           HasMedical     |-> "MEDICAL" \in r,
           OutOfDomain    |-> "VectorGuard" \in c.On /\ p.offTopic]
    BY <2>3, SameCardinality DEF Contract!Signals
  <2> QED BY <2>4, <2>5
<1>3. \A x : Contract!BaseScore(x) = BaseScore(x)
  BY DEF BaseScore, Contract!BaseScore
<1>4. \A x : Contract!MatrixScore(x) = MatrixScore(x)
  BY <1>3 DEF MatrixScore, Contract!MatrixScore
<1>5. \A n, t : Contract!AdjustedScore(n, t) = AdjustedScore(n, t)
  BY DEF AdjustedScore, Contract!AdjustedScore
<1>6. \A t : Contract!Threshold(t) = Threshold(t)
  BY DEF Threshold, Contract!Threshold
<1>7. \A x, c : Contract!AnalyzeRisk(x, c) = AnalyzeRisk(x, c)
  BY <1>4, <1>5, <1>6 DEF AnalyzeRisk, HasPII, VectorHardBlock, Contract!AnalyzeRisk,
                          Contract!HasPII, Contract!VectorHardBlock
<1>8. \A p, c : Contract!Decision(p, c) = Decision(p, c)
  BY <1>2, <1>7 DEF Decision, Contract!Decision
<1>9. \A p, c : Contract!ForwardBody(p, c) = ForwardBody(p, c)
  BY <1>1, <1>8 DEF ForwardBody, Contract!ForwardBody
<1> QED BY <1>8, <1>9

\* The initial states of the gateway are ones of the contract.
LEMMA InitContract == Init => Contract!Init
BY DEF Init, Contract!Init, Open

\* A handler that neither arrives nor sends closes its request or is not seen.
LEMMA HandlerInContract ==
    ASSUME TypeOK, NEW r \in Requests, ServeHTTP(r) \/ ProviderReplies(r) \/ Relay(r), ~SendRequest(r)
    PROVE  Contract!Close(r) \/ UNCHANGED Contract!vars
<1>a. Open(r)
  BY DEF ServeHTTP, LoadPolicy, CheckAccess, RejectBody, LookupVerdict, AnalyzeRequest,
         LogDecision, CacheDecision, TrackRisk, BlockUser, SendRequest, ProviderFails,
         ProviderReplies, Relay, StartStream, ReadChunk, WriteChunk, EndStream, Open
<1>b. UNCHANGED <<prompt, sent>>
  BY DEF ServeHTTP, LoadPolicy, CheckAccess, RejectBody, LookupVerdict, AnalyzeRequest,
         LogDecision, CacheDecision, TrackRisk, BlockUser, ProviderFails, ProviderReplies,
         Relay, StartStream, ReadChunk, WriteChunk, EndStream, client, local
<1>1. Open(r) /\ UNCHANGED <<policy, org, prompt, inForce, sent>>
  BY <1>a, <1>b, HandlersLeaveHistory
<1>2. PICK step : step # "idle" /\ pc' = [pc EXCEPT ![r] = step]
  BY HandlerMoves
<1>3. pc[r] \notin {"idle", "done"}
  BY <1>1 DEF Open
<1>4. CASE step = "done"
  BY <1>1, <1>2, <1>3, <1>4 DEF TypeOK, Contract!Close, Open
<1>5. CASE step # "done"
  BY <1>1, <1>2, <1>3, <1>5 DEF TypeOK, Contract!vars, Open
<1> QED BY <1>4, <1>5

\* A step of the gateway is one of the contract or is not seen there.
LEMMA NextContract ==
    ASSUME IInv, ConfigInv, [Next]_vars
    PROVE  [Contract!Next]_(Contract!vars)
<1>1. TypeOK /\ DecidedInv /\ SentInv
  BY DEF IInv
<1>2. ASSUME NEW r \in Requests, Arrive(r) PROVE Contract!Open(r)
  <2>1. /\ pc[r] = "idle" /\ pc' = [pc EXCEPT ![r] = "load"]
        /\ inForce' = [inForce EXCEPT ![r] = {policy[org[r]]}]
        /\ UNCHANGED <<policy, org, prompt, sent>>
    BY <1>2 DEF Arrive, Goto, shared, client, local
  <2> QED BY <1>1, <2>1 DEF TypeOK, Contract!Open, Open
<1>3. ASSUME NEW r \in Requests, SendRequest(r) PROVE Contract!Pass(r)
  <2>1. /\ pc[r] = "forward" /\ pc' = [pc EXCEPT ![r] = "await"]
        /\ sent' = [sent EXCEPT ![r] = Append(sent[r], body[r])]
        /\ UNCHANGED <<policy, org, prompt, inForce>>
    BY <1>3 DEF SendRequest, Goto, shared, client, history
  <2>2. /\ sent[r] = <<>> /\ config[r] \in inForce[r]
        /\ Decision(prompt[r], config[r]).Action # "BLOCK"
        /\ body[r] = ForwardBody(prompt[r], config[r])
    BY <1>1, <2>1 DEF SentInv, ConfigInv, DecidedInv
  <2>3. sent' = [sent EXCEPT ![r] = <<ForwardBody(prompt[r], config[r])>>]
    BY <2>1, <2>2
  <2>4. UNCHANGED [q \in Requests |-> IF Open(q) THEN "open"
                                     ELSE IF pc[q] = "idle" THEN "idle" ELSE "closed"]
    BY <1>1, <2>1 DEF TypeOK, Open
  <2> QED BY <2>1, <2>2, <2>3, <2>4, SameDecision DEF Contract!Pass, Open
<1>4. ASSUME NEW o \in Orgs, UpdatePolicy(o) PROVE \E c \in ConfigSet : Contract!SetPolicy(o, c)
  <2>1. PICK c \in ConfigSet :
          /\ policy' = [policy EXCEPT ![o] = c]
          /\ inForce' = [r \in Requests |->
                           IF org[r] = o /\ pc[r] \notin {"idle", "done"}
                           THEN inForce[r] \cup {c} ELSE inForce[r]]
    BY <1>4 DEF UpdatePolicy
  <2>2. UNCHANGED <<pc, org, prompt, sent>>
    BY <1>4 DEF UpdatePolicy, client, local
  <2> QED BY <2>1, <2>2 DEF Contract!SetPolicy, Open
<1>5. CASE UNCHANGED <<policy, pc, client, local, inForce>>
  BY <1>5 DEF Contract!vars, client, local, Open
<1> QED BY <1>1, <1>2, <1>3, <1>4, <1>5, HandlerInContract
        DEF Next, Contract!Next, InvalidateOrg, FinishUpdate, CutUpdate,
            InvalidateKey, ExpireVerdict, PassTime, vars,
            shared, history

\* The gateway implements its contract for any number of requests and updates:
\* a prompt leaves at most once, in the form some policy in force while the
\* request was open lets it out in (handler.go:102, 161-177, 245-261, 304-316).
THEOREM GatewayKeepsContract ==
    ASSUME "policy" \notin Failures PROVE Spec => ImplementsContract
<1>1. IInv /\ ConfigInv /\ [Next]_vars => [Contract!Next]_(Contract!vars)
  BY NextContract
<1> QED BY InitContract, <1>1, ConfigInvariance, PTL DEF Spec, ImplementsContract, Contract!Spec
=============================================================================
