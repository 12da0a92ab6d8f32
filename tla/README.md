# ClearGate in TLA+

ClearGate is a gateway between applications and LLM providers: it judges every
prompt by the policy of the organization that sends it, refuses, redacts or
forwards it, and keeps a hash-chained audit log. This directory models that
program in TLA+, checks it with TLC and proves theorems about it with TLAPS.
Source files are named relative to the repository (`pkg/...`, `cmd/...`).

1. [The system](#the-system)
2. [The modules and the code](#the-modules-and-the-code)
3. [What the runs check](#what-the-runs-check)
4. [Fairness](#fairness)
5. [What is proved](#what-is-proved)
6. [Where the code and its documents disagree](#where-the-code-and-its-documents-disagree)
7. [What is not modelled](#what-is-not-modelled)
8. [Plan](#plan)

## The system

| Part | State | Operations | Talks to | Hard behaviour | Correct when |
|---|---|---|---|---|---|
| Audit log (`pkg/storage/postgres.go`, `pkg/integrity`) | `request_logs`, its id sequence, an advisory lock per organization | `LogRequest`, `VerifyIntegrity`, 90-day flush, reset tool | Postgres, through 25 shared connections | concurrent transactions, lost connections, timestamps rounded by Postgres | chains never fork, an honest log verifies, a log that verifies is genuine unless hashes were forged |
| Proxy (`pkg/proxy/handler.go`, `pkg/provider`) | none of its own; one goroutine per request | `ServeHTTP`, `forwardToProvider` | everything below | policy, cache and counters change while a request is under way; any service may fail | only what a policy allows, in the form it asks for, leaves; every client that reads is answered |
| Policy engine and detectors (`pkg/policy`, `pkg/security`) | none | `AnalyzeRisk`, `Detect`, `PredictRisk`, ... | Ollama | sums, caps and thresholds of floating-point scores; services fail open | more evidence never excuses a prompt; certain threats are refused |
| Policies and their administration (`pkg/api/admin.go`) | `policies` | read, replace, invalidate the cache | Postgres, Redis | replaced under running requests | a decision is one some policy of the organization makes |
| Verdict cache (`pkg/cache`) | Redis keys `org:<id>:<hash>` | get, set for an hour, scan-and-delete | Redis | stale and foreign verdicts, a scan that requests overtake | verdicts stay with their tenant; those that survive an update are of requests under way |
| Anomaly detector (`pkg/security/anomaly.go`) | counter and lock per user in Redis | `CheckAccess`, `TrackRisk`, `TrackUsage` | Redis | count and lock are two calls; both expire | repeat offenders are locked out |
| Sanitizer and vault (`pkg/sanitizer`) | mapping in Redis for 30 minutes | `Sanitize`, `Rehydrate` | Presidio, Redis | placeholders collide, passes meet each other's placeholders, map order | nothing found leaves, originals come back where they were, to their own client |
| Simulator (`pkg/api/simulator.go`) | none | `Simulate` | the detectors | a second implementation | differs from the proxy only where it weighs less |
| Knowledge base and guard (`pkg/vector`, `pkg/api/vector.go`) | Qdrant collections, `documents` | upload, delete, exceptions, seed, search | Qdrant, Postgres | two stores without a transaction | rows and vectors agree; tenants do not touch each other's |
| Accounts (`signup.go`, `public.go`, `superadmin.go`, `auth.go`) | `users`, `organizations`, `invitations` | signup, invite, complete, login, bootstrap | Postgres, SMTP | check-then-create races, half-done sequences | an account has one organization; an invitation makes one account |
| Rate limiter (`ratelimit.go`) | token buckets, or fixed windows in Redis | allow, sweep | Redis | the clock is read before the mutex, sweep against refill, late calls | a bound on any interval; nobody is refused early |
| Lifecycle (`cmd/server`) | channels of one for reloads and signals | start, reload, shutdown | all | stops in the middle of handlers | an accepted reload and a signal are acted upon; what a stop cuts short is known |
| Watermark, chunking, stream scanner, mail, dashboard | – | encodings and clients | – | boundaries | round trips, coverage |

The life of a request joins them: `ServeHTTP` authenticates the organization,
reads its policy, asks the anomaly detector, looks in the cache, gathers the
signals of the detectors and the sanitizer, lets the engine decide, writes the
audit row, caches the verdict, and refuses (counting the refusal) or forwards
the body and scans the response. Administrators change policies meanwhile.
`PROJECT.json` lists, under "hazards", each line at which this can go wrong.

## The modules and the code

Time, hashes, texts and scores are abstracted to what the properties tell
apart. A database or Redis call is a step; what lies between two calls is not
divided.

**AuditChain** – `Store.LogRequest` as the five database calls it makes
(`BeginTx`, `AcquireOrgLock`, `ReadPrevHash`, `InsertRow`, `CommitTx`), any of
which may fail (`Rollback`), for any number of handlers, with the process
dying at any moment (`Crash`). `rows` is the table, `nextId` its sequence
(never rolled back), `lock` the advisory locks, `MaxOpenConns` the pool.
Hashes are symbolic: the hash of a row is the sequence of all data hashed into
it, so two hashes are equal only for equal histories (SHA-256 without
collisions). The clock ticks in half microseconds, enough to tell the rounding
of Postgres, the truncation of `LogRequest` and `UnixMicro` apart. A database
upgraded from a version without hashes starts with a row whose hash is empty.
`VerifyIntegrity` is the operator of that name. What is logged is an entry of
`Entries`: the decision on the prompt of a request (`Arrive`) or, for the
requests in `Flagged`, a second one on its response, with the same id and a time
of its own (`LogResponse`), which comes when the request was passed on
(`forwarded`).

**AuditRetention** – the same log next to the operations that do not take the
lock: the 90-day flush of the admin API, `TRUNCATE` by `cmd/reset_logs` (which
Postgres holds up until no transaction has touched the table for writing), and
rows erased or edited by hand. `EditRow` gives a row another time, another
decision, another previous hash and a current hash that is left alone or
computed afresh (`Changed`), at most `MaxEdited` rows at a time; ids and
organizations stay, and the columns no hash is computed from are not modelled.
History variables remember what each log has looked like, whose rows were
touched (`touched`) and where a current hash was altered (`forged`).

**PolicyEngine** – the arithmetic of `PredictRisk`, `Detect`, `IsBlocked` and
`AnalyzeRisk` as operators. A prompt is a record of what the detectors can see
in it. Scores are thousandths; the one sum of heuristics that binary floating
point moves across a threshold (0.4+0.15+0.05 > 0.6) is moved here too
(`Rounding`). Of the switches, those that reach the decision or the shared
state are kept.

**Pipeline** – the signal gathering of one request, check by check, in which a
service behind a check (Ollama, Qdrant, Presidio) may fail and the check fails
open (`DependenciesFail`).

**Gateway** – concurrent requests (`Requests`) through the whole of
`ServeHTTP` and `forwardToProvider`: one action per access to shared state
(`LoadPolicy`, `CheckAccess`, `LookupVerdict`, `LogDecision`, `CacheDecision`,
`TrackRisk`, `BlockUser`, `SendRequest`) and one for all that
happens between two (`AnalyzeRequest`, which is the whole of Pipeline with
every service up; where it fails open the decision is that of a prompt with
less to be seen in it). A buffered response is one step (`ProviderReplies`); a
streamed one is relayed chunk by chunk (`StartStream`, `ReadChunk`, `WriteChunk`,
`EndStream`), and `WriteChunk` waits for the client. `ServeConfig`'s POST is
`UpdatePolicy`, the write; `InvalidateOrg`, the SCAN, which finds the keys that
are there (`Scanned`) and may find later ones; `InvalidateKey`, one DEL, which
may fail unnoticed; and `FinishUpdate`, or `CutUpdate` where Redis, the
administrator or the process gives up. An organization has one update at a time.
`missed` is a history variable: the verdicts an update was to delete and did not.
`ExpireVerdict` and `PassTime` are the expiry of Redis keys. `Failures` says which services may
fail: `"redis"` (every call separately), `"log"` (the row is lost) and
`"policy"` (`GetPolicyByOrgID` answers `{}`).

**GatewayContract** – what the proxy promises, in four actions: a prompt
reaches the provider at most once, in the form that a policy asks for which
the organization had at some moment while the request was open. Gateway
implements it (`Contract`, the refinement mapping): `SendRequest` is `Pass`,
every early return is `Close`, `UpdatePolicy` is `SetPolicy`, the rest are
stutters.

**Accounts** – signup, CreateOrganization with its invitation, CompleteSetup
and the bootstrap of the super administrator, each database call a step of
its own (`LookupUser`, `CreateOrganization`, `UpdatePolicy`, `CreateUser`,
`ReadAccount`, `CreateInvitation`, `GetInvitationByToken`,
`MarkInvitationUsed`, `CountUsers`). The handlers share these actions where
they make the same call; `kind` says which of them a process is. An account
records in `password` the process that chose it. Every start has the address it
finds in its environment (`SuperAdminEmail`); one that finds none, or too short a
password, makes nobody and is not modelled. `overlooked` is a history variable:
the starts whose super administrator a start could not see when it counted the
users. A server that dies and starts
again is two elements of `Servers`, of which the first takes no more steps,
nor do the calls it served.

**Simulator** – `Simulate` on the prompt that Pipeline has just decided, with
the same policy and services that answer or fail independently of the proxy's.
`threshold` is the injection threshold the simulator obeys and the proxy
ignores; `entities` says that the prompt is written in HTML entities, which
`NormalizePrompt` decodes without calling it obfuscation, so that the simulator
goes on with the undecoded text (`CurrentPrompt`).

**Sanitizer** – the passes of `Sanitize` and `Rehydrate` as operators on
sequences of atoms. An atom is what a pattern matches as a whole, a keyword, a
title, a candidate for a password or a name, or a placeholder; space separates
words. Every pass works on what the passes before it left, replaces a value at
its first occurrence (`Substituted`), and numbers its placeholders from 1. The
entropy scan works on words and may swallow a placeholder with punctuation at
its edge.

**Vault** – requests through Sanitizer, Redis (`SetVault`, `vault` keyed by the
request id), the provider, which repeats the prompt or says something of its
own, the output scan and `RehydrateAnswer`, which walks the map in any order.
A stream is relayed as it comes.

**RateLimiter** – the requests of one address. `Arrive` reads the clock,
`TakeToken` is what `memLimiter.allow` does under the mutex, later, when other
requests may have gone ahead; `Sweep` is the sweeper. `CountRequest` and
`FailOpen` are `redisLimiter.allow` with a counter per window that expires.
Tokens are counted in fractions of which a request costs `limit.Per`, so that
all amounts are integers.

**KnowledgeBase** – uploads, deletes, seeds and exceptions, each call to
Qdrant or Postgres a step that may fail before or after it had its effect.
`points` are vectors by what identifies them in Qdrant: a fresh id per chunk of
an upload, the number of a topic, and 1 for every exception. `ChunkText` is the
list of windows it cuts a text of that many runes into.

**PolicyStore** – POST `/api/config`: the body over the zero values
(`Decoded`), marshalled, written by `UpdatePolicy` in two statements
(`CheckExists`, `WriteRow`) into a table without a key on the organization,
then `InvalidateOrg`. `ParseConfig` reads it over the defaults. What becomes of
the verdicts in Redis is Gateway's subject.

**Server** – the process around it: pings with their limit, schema, Redis or
no Redis, `ListenAndServe` before `signal.Notify`, the loop over the two
channels, `Shutdown` with its five seconds, and the next start. `Handle` lets
the updates of PolicyStore run only in a server that serves or drains; `Stop`
cuts short those under way.

**MCAuditChain, MCAuditRetention, MCPipeline, MCGateway, MCAccounts, MCVault,
MCRateLimiter, MCKnowledgeBase, MCServer** hold the inputs of the runs;
**Audit_proofs, Pipeline_proofs, Gateway_proofs, Accounts_proofs,
Server_proofs, KnowledgeBase_proofs, RateLimiter_proofs, Vault_proofs** the
theorems. Definitions marked "Mistake" are faulty versions of the definition
that follows them, which no specification uses: each is what a plausible bug
would make of it, and replacing the definition by it makes a property fail.

## What the runs check

| Run | Bounds | Shows |
|---|---|---|
| `AuditChain.cfg` | 3 handlers, 2 organizations, 3 requests of which 1 has its response flagged, 2 connections, 2 clock values | `ChainLinked`: no fork, no gap. `HonestLogVerifies`. `AppendOnly`. |
| `AuditChainLive.cfg` | 3 handlers, 1 organization, 3 requests of which 1 is flagged, 2 connections | `LogRequestReturns`: pool and lock never block each other |
| `AuditTamper.cfg` | 2 handlers, 1 organization, 2 requests of which 1 is flagged, 3 clock values, 1 edited row at a time | `ValidLogIsGenuine`: flush, truncate, erase, edit anything but the current hashes, a log that verifies is one `LogRequest` left. `UntouchedLogVerifies`: also with TRUNCATE at any time |
| `Pipeline.cfg` | prompts and policies on both sides of every threshold, injection thresholds 0 and 0.8 | `NothingFoundIsReleased`, `CertainThreatsAreRefused`, `EvidenceNeverExcuses`; with the simulator next to it, `UnannouncedRefusalsAreExplained`, `SimulatedPromptIsForwarded` |
| `Gateway.cfg` | 2 requests, 2 organizations, 3 policies, 1 update, log and Redis failing | `ImplementsContract`, `VerdictsStayWithTheirTenant`, `KeptVerdictsWereUnderWay` |
| `GatewayLockout.cfg` | 3 requests of one user, limit 1, 1 update, locks of 6 units and counters of 1 | `RepeatOffendersAreLocked`, `ForwardedWasLogged` |
| `Accounts.cfg` | 2 starts of a server, 3 calls, 3 addresses of which 2 differ in case only; the first start's address is nobody else's, the second's that of a client | `AcknowledgedAccountIsMine`, `SessionIsMyOwn`, `OneAccountPerOrganization`, `SecondSuperAdminWasOverlooked`, `SpentInvitationMadeAccount` |
| `GatewayLive.cfg` | 2 requests, Redis failing, streams of any length | `EveryRequestAnswered`, of clients that read or leave |
| `RateLimiter.cfg` | a burst and a period on either side of the sweeper's idle time, a few moments, waits of up to one | `BucketKeepsRate`, `WindowKeepsBurst`: no interval admits more than burst and rate allow. `RefusalIsDue`: requests in order are refused only when the burst is used up |
| `Vault.cfg` | all texts of 2 of 17 words and of 3 of 11, a second request, policies with and without each pass, Presidio and Redis failing | `NothingFoundLeaves`, `OwnValuesOnly`, `GeneratedLeaksAreCaught`, `RoundTrip` |
| `KnowledgeBase.cfg` | 4 handlers or starts, 2 organizations, 2 file names, documents of 3 chunks, every call failing with or without effect | `ListedIsSearchable`, `NothingLeftBehind` |
| `Server.cfg` | 2 updates, 2 starts, 2 pings, partial and full bodies, every statement failing | `AcknowledgedUpdateSupersedes`, `PolicyReadsBack`, `AcceptedReloadIsHandled`, `SignalStopsServer` |

*Why these bounds.* The chain can fork with two handlers of one organization;
the third shares the pool with them from another one, and a fourth row, the
flagged response, gives a chain with something before and after the conflict.
Two connections for three handlers make the pool run out. AuditTamper has chains
of three rows, of which the first, a middle or the last one is edited; that
several are is covered by the theorem, for any `MaxEdited`.
The number 5 of `TrackRisk` is
`MaxRiskEvents`, 1 in the runs, so that three requests exceed it twice. The
policies of MCGateway are the default (redacts the prompt of the run), HIGH
(refuses it), one that redacts nothing, and one that refuses but does not ask
the anomaly detector; one update takes a request from any to any other. Ten
minutes and an hour keep their ratio in `RiskTTL` and `LockTTL` where it
matters. `MCPrompts` takes the values 0, 55, 60, 90 and 120 percent (uncapped)
of the heuristics and topics below, at and above 0.40 and 0.82.

In `Accounts.cfg` a failing statement has been executed all the same
(`Failures = {"lost"}`): one that was refused leaves the tables as a call does
that takes no further step, which any call may do at any time. Three calls are
a creation and two redemptions of its invitation, or two signups and an
intruder; ids of organizations grow with the calls and need no bound.

Two concurrent requests and two updates are enough for the races of RateLimiter
and PolicyStore, which are races of two. A second start comes after an update
that the first did not finish. Four processes of KnowledgeBase are two uploads
of one name, the delete of one of them, and one more that crosses. In a document
of 7 runes, windows of 4 that overlap by 1 leave a last window that is shorter
than the others. `MCPrompts` of MCVault has every text of two of 17
words, among them every kind of value, glued ones, a secret between two values,
what announces passwords and names and a placeholder the user wrote, and every text of three of the 11 that
depend on what is next to them: two passes can meet in them in every order. A
second request next to one of these words uses the same placeholder names.

`CHECK_DEADLOCK` is off where behaviours end: a request that was answered
stays so, and in AuditTamper everything that can be logged has been and every
row was erased. In AuditChain an integrity check is always possible. Redis does
not fail in GatewayLockout: a counter that goes up without its lock is what a
failure, or a client that leaves between the two calls, makes of
`RepeatOffendersAreLocked`.

## Fairness

*AuditChain*: weak fairness of the steps of a handler that runs, because the
scheduler runs runnable goroutines and Postgres executes statements; strong
fairness of the two waits, because `database/sql` hands connections out in the
order of the requests and Postgres queues for locks in order. The former is how
`database/sql` works, not what it promises. Nothing is assumed of arrivals,
failures or the clock.

*Gateway*: weak fairness of `ServeHTTP(r)`, each request by itself. It includes
`ProviderFails`, which the 120-second timeout of `sharedClient` guarantees when
the provider does nothing; the write of a buffered response ends with the
server's `WriteTimeout` of 180 seconds (`main.go:185`). Strong fairness of
`EndStream(r)`: the same 120 seconds end the reading of a stream's body, so of
reads that come again and again one fails. Nothing is assumed of `WriteChunk`:
a stream's write deadline is lifted (`handler.go:334`), and a client that keeps
its connection and reads nothing holds the handler in `w.Write`
(`handler.go:343`) for ever. `EveryRequestAnswered` therefore has the condition
that the handler is outside a write again and again. Administrators, the
provider and time owe nothing.

*Server*: weak fairness of the start, of the two receives of the `select` (one
that is ready and stays ready is chosen, as the choice is random) and of the
end of `Shutdown`, by its five seconds at the latest. Handlers, administrators
and signals owe nothing.

## What is proved

For every value of the constants, from `PoolAssumption`, `FlaggedAssumption` and
`NoneAssumption` (AuditChain), these, `RetentionAssumption` and `HashAssumption`
(AuditRetention), `PipelineAssumption`
(Pipeline), `SimulatorAssumption` (Simulator), `GatewayAssumption` (Gateway),
`AccountsAssumption` (Accounts), `PolicyStoreAssumption` (Server),
`KnowledgeBaseAssumption` (KnowledgeBase), `LimiterAssumption` (RateLimiter) and
`VaultAssumption` (Vault):

*Audit_proofs.* Of AuditChain: `TypeCorrect`, `ChainNeverForks`,
`HonestLogsVerify`, `LogOnlyGrows`. `ChainLinked` alone is not inductive: a transaction between
its read and its commit holds a hash that must still be the last one when it
commits. The invariant `IInv` adds that
the lock of an organization is held by exactly the handler between
`AcquireOrgLock` and the end of its transaction (`LockInv`), that the hash a
handler read is still the last of its organization (`ReadInv`), that a pending
row is the one to follow it (`PendingInv`), that ids are unique and below
`nextId`, those of pending rows included (`IdInv`), that timestamps are even,
so that the three roundings agree (`TimestampInv`), that the table is finite
and the last row of a set of rows therefore exists (`FiniteInv`, `LastInv`).
The lock is what makes `ReadInv` survive the steps of the other handlers.

Of AuditRetention: `UntouchedLogsVerify`, `ValidLogsAreGenuine`. The same `IInv`
serves the logs nobody touched, being stated for a set of organizations that
shrinks (`UntouchedIInv`). For the others nothing is known of the rows there
are but that each has the id and organization of one that was written and, where
no current hash was altered, its current hash (`PresentInv`). `HistoryInv` speaks of everything that was ever written
(`WrittenInv`): a row has the hash of the one that came before it in its log
when it was inserted, so wherever one row's hash is the next one's previous
hash, nothing was written between them that is still there (`LinksFollow`, with
`ReadFollows` and `PendingFollows` for handlers on the way). Rows that chain
and end with the row just committed are therefore all there is (`WholeChain`),
and the commit has recorded them as a log that was (`GenuineInv`). An entry is
logged once (`EntryInv`), which makes the hashes of different rows differ.
`HashAssumption` says that no hash is the empty string old rows have instead.
`ValidRows` is where the check comes in: a row with the current hash it was
written with passes only with the time, decision and previous hash it was written
with. All of this is claimed of organizations outside `forged`, because
`LogRequest` chains on to a forged hash without looking and the forgery then
verifies.

*Pipeline_proofs.* `TypeCorrect`, `RedactionHolds`, `CertainThreatsRefused`,
`EvidenceAccumulates`. `IInv` adds to the types that the signals and the
mapping agree (`SignalsInv`: whatever was replaced is counted, so the engine
asks for a redacted body) and that a verdict is the engine's on the signals
(`VerdictInv`). The heart is the lemma `Monotone`: if every signal of one
context is at least that of another and the sensitivity at least as strict,
then a refusal of the latter is one of the former, although a combination
replaces the sum by 100 – which is at least every threshold.

For the simulator next to it: `SimulatorLeavesThePipelineAlone`,
`RefusalsAreExplained`, `SimulatedIsForwarded`. Both sides are related to the
prompt instead of to each other. `Evidence` says that each signal of the proxy
has its cause in the prompt and a check that is switched on, `SimulatedInv` that
what the simulator passed shows none of the causes it weighs and was shown
without what the sanitizer replaces. What refuses one and passes the other is
then one of the causes that are left, and where both pass, both texts are the
prompt without its replaced contents.

*Gateway_proofs.* `IInv` holds whatever fails: a handler that has decided holds
the decision of the policy it loaded and forwards nothing that was refused
(`DecidedInv`), nothing is sent before `SendRequest` (`SentInv`), and the
histories contain the policies there are (`HistoryInv`). `TypeCorrect` follows
from it.

`KeptVerdictsAreRecent` holds whatever fails, too. `KeptVerdictsWereUnderWay`
speaks of updates that are done. Once the SCAN has begun, a verdict that is
neither to be deleted nor missed is of a request that was open under the policy
in force (`KeptInv`); nothing is left to delete when an update is done
(`ScanInv`); and a request that has yet to decide has no verdict (`UndecidedInv`),
so that whoever vouches for a cached verdict keeps it.

Each of the others has one assumption on `Failures`:

- policies can be read: `ConfigInv`, a handler works with a policy that was in
  force while its request was open, gives `TenantsHaveTheirOwnVerdicts` and
  `GatewayKeepsContract`, the refinement: `Arrive` is the contract's `Open`,
  `SendRequest` its `Pass` with the loaded policy as witness, `UpdatePolicy` its
  `SetPolicy`, and every other step of a handler closes the request or stutters
  (`HandlerInContract`). The contract has its own copy of the engine's
  operators; `SameDecision` says that it decides alike;
- the log takes rows: `LoggedInv` gives `NothingLeavesUnlogged`;
- Redis answers: `RiskInv`, the lock of a user above the limit is about to be
  set or lives at least as long as the counter, gives `OffendersAreLocked`. It
  needs `RiskTTL <= LockTTL`: ten minutes against an hour.

*Accounts_proofs.* `TypeCorrect`, `AccountsAreMine`, `SessionsAreMine`,
`TenantsStayApart`, `SuperAdminsWereOverlooked`, `InvitationsAreNotLost`, for any
number of servers, calls and addresses and whatever statements fail.
`AcknowledgedAccountIsMine` says nothing of a call between the creation of its
account and its answer; `MineInv` extends it to those steps. That nobody else
gets into an organization rests on a chain: an id is drawn by one process
(`OwnInv`), an invitation and whoever redeems it carry the address and the id
of the call that drew it (`LinkInv`), every account has the address and the id
of such a process (`UserInv`), and addresses are unique (`KeyInv`, from the
unique key). Two accounts of one organization would have been drawn by one
process, hence have one address, hence be one. `ProcInv` says which of its
variables a process has set at each of its database calls. For the super
administrators, `CountInv` says that of two starts on the way to an account, one
of which may have made it, one has overlooked the other: whoever counts while the
other is on the way records it, whoever counts when the other's account is there
sees it, unless the count fails. `BootInv` says that an account of a super
administrator is that of a start.

*Server_proofs.* `Supersedes`, `ReadsBack`, for any number of racing updates and of starts and whatever cuts them short. The
rows never become none again (`PresenceInv`), so an update that found no row
came after no acknowledged one (`AbsenceInv`) and may add its own; one that
found a row replaces all there are, and nobody it came after is still to write
(`BeforeInv`, `SupersededInv`). All of the process but `Stop` leaves the policy
alone (`ProcessSteps`).

*KnowledgeBase_proofs.* `TypeCorrect`, `Searchable`, `NoVectorsLeftBehind`, for
any number of uploads, deletes, seeds and exceptions, texts of any length and
chunks of any size and overlap. `ChunksCover` is the arithmetic of `ChunkText`.
`ListedIsSearchable` is not inductive: a row comes after its vectors, so
`CompleteInv` says of an upload that has yet to write its row, too, that its
vectors are there until its name is deleted, and `JobInv` that a handler about
to delete vectors has deleted a row of their name.

*RateLimiter_proofs.* `WindowsKeepTheirBurst`, for any limit and any number of
requests. `WindowKeepsBurst` speaks of stretches of many windows; it becomes
inductive with what holds in each of them: the counter has counted whom it
admitted and lives until the last request of its window has its answer
(`CountInv`, from `WaitInv` and the second that `WindowTTL` adds). `Windows` is
the arithmetic of `Slot`. `MaxWait <= 1`, the timeout of the call, is needed.

`BucketsKeepTheirRate`, `RefusalsAreDue`. `Potential` is what the bucket would
have held at moment 0 had it always filled at its rate. Neither time nor a
refill raises it, whoever overtakes whom, and an admission lowers it by a
request's worth; so whatever was admitted from a moment on is paid for by what
the bucket could hold then (`Began`, in `BucketInv`). A swept bucket starts full
again, but only after the time in which it would have filled (`FillTimeIs`) and
with nobody from before it waiting, which is where `2 * MaxWait <= IdleLimit` is
needed. In the other direction `OrderInv` says that without overtaking the
bucket was full at some moment and has given since only what was admitted; a
refusal then has a burst to show for it (`DueInv`, and `SharedInv` for the
windows, where the counter counts no more than it admitted until the burst is
used up).

*Vault_proofs.* `OwnValues`, `GeneratedLeaksCaught`, `NothingFound`, for
prompts and answers of any length, any number of requests and any switches.
The passes of `Sanitize` are folds, which the provers cannot evaluate; each is
first shown to be the last of a row of values made one from the other (the
lemmas `...Steps`, all from `FoldSteps`, which rests on `FoldExists`: the
recursion of the community modules' fold has a solution). `FoundGone` is the
heart: the loop over the matches replaces the first occurrence of each value,
and that is the match itself, because the matches come in the order of the text
and an equal one before it was replaced before. So every match goes, however
often a value stands there. `SanitizeIn` puts the passes together: its text has
nothing a pattern matches and its mapping nothing but atoms of the original.

Secrets and passwords are found by where they stand, and the first occurrence of
a value need not be that place: it may lie in a word that was left. `RowClears`
shows why nothing is lost by that. The values found stand one behind the other
(`FieldsPlaces`, `PasswordsPlaces`); the loop clears the text up to the end of
the value it is at, and when it replaces an earlier occurrence instead, all of
the value also stands in what is cleared already, so it is harmless. With that,
`SecretsKept` says that a secret is left only inside a word (`Sheltered`, which
every pass before keeps). For the context, the patterns that run first change no
space and no keyword, so the passwords of the masked text stand where those of
the prompt do (`SameShape`); `PasswordGone` and `NameGone` follow the one place
of a value through the passes, and `SplicedTitled` says that replacing a
password does not come between a title and the name it announces.

The invariant says of which atoms the texts of a request consist, `Own`, `Read`
or `Admitted`. That no value crosses from one request to another rests on
`VaultInv`.

`RoundTripHolds` says that what `Rehydrate` does undoes what the passes of
`Sanitize` did, in whatever order Go walks the map. Both sides are compared with
a third thing, `Expanded`: the text with the value of each placeholder in its
place, all at once. It distributes over concatenation (`ExpandedConcat`), so it
is the same before and after one placeholder is replaced (`ExpandedReplaced`),
and when all of them were, none is left to expand, because no value brings one
along: `RehydrateExpands`, in which the order no longer occurs. On the other
side `Returns` says of a scan that its text, expanded, is the prompt. Cutting a
value out and putting its placeholder there keeps it (`SubstitutedReturns`) as
long as the mapping does not give that placeholder to another value already,
which is why `Restores` carries along the kinds of placeholders in use and every
pass brings a kind of its own, numbered from 1; the IBANs share one placeholder,
so there may be one IBAN. `SanitizeRestores` puts the passes together. The scan
of the answer may run without Presidio although the property speaks of the one
with it: `Rescan` shows that a scan that leaves a text as it is then does so
too, by an order on texts in which every pass climbs and none comes back
(`Reached`, `ReachedBack`). `JInv` adds to the invariant what ties these facts
to a request: the vault holds the mapping once it is written (`StoredInv`), the
body and the mapping give the prompt (`ReturnInv`), and an answer the scan found
nothing in is the provider's (`ScanInv`).

Only model-checked: liveness (`LogRequestReturns`, `EveryRequestAnswered`,
`AcceptedReloadIsHandled`, `SignalStopsServer`), because fairness is out of the
prover's reach.

## Where the code and its documents disagree

The models show the following, which the repository describes otherwise; the
properties above are stated so that they hold of the code.

- *Tenants wait for one another.* `postgres.go:345` says one tenant's traffic
  can't stall another's: `AcquireOrgLock` waits holding one of the
  `MaxOpenConns` connections that all tenants share. `LogRequestReturns` says
  only that the wait ends.
- *The product's own flush looks like tampering* (`admin.go:253`):
  `DeleteOldAuditLogs` removes the start of a chain, which `VerifyIntegrity`
  expects at the genesis hash. `UntouchedLogVerifies` excludes flushed logs.
- *Not every decision is written* (`README.md:29`): those from the cache
  (`AfterLookup`) and of the lockout (`CheckAccess`) are not, and `LogRequest`
  reports no error. `ForwardedWasLogged` is about what leaves, with a log that
  works.
- *"Clears all cache entries"* (`redis.go:60`): a request under way that loaded
  the old policy (`handler.go:102`) caches its verdict behind the SCAN, for an
  hour (`handler.go:395-398`), and an update that dies or loses Redis clears some
  or none. `KeptVerdictsWereUnderWay` says what is left: verdicts an update was
  cut short of deleting, and those of requests that were open under the new
  policy.
- *"Edits are detectable"* (`README.md:29-30`): the hash has no key
  (`chain.go:21-37`), so whoever edits a row and recomputes its hash and those
  after it passes, the last row being enough; `LogRequest` goes on from a forged
  hash. Columns no hash is computed from (`LogData`) can be edited unseen. The
  fields of the payload are joined by `|`, which the model takes to tell apart
  what a value with a `|` in it may not. `ValidLogIsGenuine` excludes logs of
  which a current hash was altered.
- *A stream can hold a handler for ever* (`handler.go:333`, "so a long stream
  isn't cut off"): with the write deadline the limit for clients that do not read
  goes too; the two minutes of `sharedClient` (`provider.go:24`) do not end a
  write to the client.
- *"The first super_admin"* (`postgres.go:196`): starts that count at the same
  time, or whose count fails, make one each if their `SUPERADMIN_EMAIL` differ.
  `SecondSuperAdminWasOverlooked` says that nothing else does.
- *"Whitelist a blocked prompt"* (`admin.go:272`): every exception is stored
  under point 1 and takes the place of the one before, whoever added it, and a
  BLOCK that was cached outlives it.
- *"Simulator stops too for accuracy"* (`simulator.go:136`): it obeys the
  injection threshold, which the proxy ignores, and does not know obfuscation,
  the domain or combinations; it may scan another text than the proxy
  (`CurrentPrompt`).
- *Reversible tokens*: placeholders are numbered per kind, not unique
  (`UseVault` is never set). An email the provider makes up becomes `[EMAIL_1]`
  in the scan of the answer and is then rehydrated to the client's own; so is an
  `[EMAIL_1]` the user wrote next to an email (the proof of `RoundTripHolds` needs
  that there is none, which is the condition on `DOMAIN mapping[r]` in
  `RoundTrip`). All IBANs share a placeholder. A password that also stands earlier in the prompt
  is replaced there and leaves where it was announced. `"password: Dr Ann"`
  takes the title and lets the name go. A word or a
  password that begins and ends with replaced values passes for a placeholder
  (`entropy.go:41`, `sanitizer.go:117`), so a secret in its middle leaves, and
  one that also stands alone after it. A vault that was not written leaves the
  placeholders to the client.
- *Rate limits*: a bucket that was idle for half an hour starts full, so five
  signups an hour may be ten; fixed windows admit twice the burst around a
  boundary; a request that was overtaken between the clock and the mutex may be
  refused within the burst. `Incr` (`redis.go:82`) "sets expiration if new" and
  sets it always.
- *The guard never scores at this commit*: no sector is seeded and the search
  asks for an `org_id` that seeds do not carry (`guard.go:71`, `main.go:81`).
- *Documents of one name* share their vectors' fate, across tenants
  (`vector.go:179`). The loser of a race to create a collection fails, and so
  does every call whose Get failed (`client.go:36-42`).

The models also contain that the rule for a person next to medical terms
(`engine.go:139`) never fires because no placeholder is named after them, that
a bootstrap takes a failing count of users for 0 (`postgres.go:202`) and an
update a failing EXISTS for no (`postgres.go:437`), that deleting the newest
rows of a log is not detected (`postgres.go:656` knows no length), that source
code only raises an alert (`sanitizer.go:235`), that an unreadable policy is
replaced by the default (`postgres.go:429`), that no verdict but BLOCK is ever
served from the cache (`handler.go:164` looks for `SAFE`, which nothing
stores), that a streamed response is relayed unscanned (`handler.go:418`), and
that a reload reloads nothing (`main.go:204-211`).

## What is not modelled

Patterns and their matching, embeddings, similarity and normalization of text:
a prompt is what the detectors make of it, and a text the atoms they find. The
windows in which long prompts are scanned (`injection.go:64`) are attributes of
a prompt. `TrackUsage`, whose counter only leads to a log line. The verdict
`logAndCache` stores under the key `N/A`, which nothing reads. Redirects and
retries inside Go's HTTP client (`provider.go:24,106`), which may send a body
again: `SendRequest` is the one call the handler makes. The FIFO order and
scheduling of waits, beyond the fairness above. Encryption of
log details, the public key of an organization, which is one UPDATE. The
watermark and the stream scanner, the mail of an invitation (three attempts
nobody waits for), middleware, metrics, health checks, the dashboard's display.
`sanitizer.SanitizeOutput` and the tokens of `UseVault` have no caller.

## Plan

Left to do: KnowledgeBase composed with the guard's
search in Pipeline, so that an exception added while a verdict is cached can be
followed; the watermark's round trip against a reference definition.
