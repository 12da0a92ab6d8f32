------------------------------ MODULE Pipeline ------------------------------
(***************************************************************************)
(* The part of ProxyHandler.ServeHTTP (pkg/proxy/handler.go) between       *)
(* reading a body and acting on the decision, for one request: the checks  *)
(* gather their signals one after the other, AnalyzeRisk decides, and the  *)
(* decision selects the body that may leave.  Each check asks a service    *)
(* that may be down (DependenciesFail): all of them then fail open.        *)
(***************************************************************************)
EXTENDS PolicyEngine

CONSTANTS
    PromptSet,         \* the prompts considered
    ConfigSet,         \* the policies considered
    DependenciesFail   \* whether a service that a check calls may fail

ASSUME PipelineAssumption == /\ PromptSet \subseteq Prompts
                             /\ ConfigSet \subseteq GlobalConfig
                             /\ DependenciesFail \in BOOLEAN

VARIABLES
    prompt,     \* the request body, as the detectors see it
    orgConfig,  \* the organization's policy
    stage,      \* the check that runs next
    riskCtx,    \* the signals gathered so far
    mapping,    \* scanRes.Mapping: the kinds replaced by placeholders
    verdict,    \* the engine's verdict
    finalBody   \* what is left of prompt.contents in the body to forward

vars == <<prompt, orgConfig, stage, riskCtx, mapping, verdict, finalBody>>

Undecided == [Score |-> 0, Action |-> "NONE"]

\* Whether a call to the service behind a check answers.
Answers == IF DependenciesFail THEN BOOLEAN ELSE {TRUE}

Enabled(switch) == switch \in orgConfig.On

Init ==
    /\ prompt \in PromptSet
    /\ orgConfig \in ConfigSet
    /\ stage = "normalize"
    /\ riskCtx = NoSignals
    /\ mapping = {}
    /\ verdict = Undecided
    /\ finalBody = prompt.contents

\* One check: it may change the signals and nothing else.
Check(from, to, signals) ==
    /\ stage = from
    /\ stage' = to
    /\ riskCtx' = signals
    /\ UNCHANGED <<prompt, orgConfig, mapping, verdict, finalBody>>

NormalizePrompt ==
    Check("normalize", "leak", [riskCtx EXCEPT !.Obfuscated = prompt.obfuscated])

PromptLeak ==
    Check("leak", "injection",
          [riskCtx EXCEPT !.LeakDetected = Enabled("PromptLeaking") /\ prompt.leak])

PromptInjection ==
    \E classified \in Answers :
        Check("injection", "vector",
              IF Enabled("PromptInjection")
              THEN [riskCtx EXCEPT !.InjectionScore = InjectionRisk(prompt, classified)]
              ELSE riskCtx)

VectorGuard ==
    \E searched \in Answers :
        Check("vector", "domain",
              IF Enabled("VectorGuard") /\ searched
              THEN [riskCtx EXCEPT !.VectorScore = TopicRisk(prompt)]
              ELSE riskCtx)

DomainCheck ==
    \E searched \in Answers :
        Check("domain", "sanitize",
              [riskCtx EXCEPT !.OutOfDomain =
                  Enabled("VectorGuard") /\ searched /\ prompt.offTopic])

\* Presidio may be the only recognizer of a name; the flags are read off the
\* placeholders' names, of which none holds MEDICAL or HEALTH.
Sanitize ==
    \E recognized \in Answers :
      LET found == Redacted(prompt, orgConfig) \ (IF recognized THEN {} ELSE {"PERSON"})
      IN  /\ stage = "sanitize"
          /\ stage' = "decide"
          /\ mapping' = found
          /\ riskCtx' = [riskCtx EXCEPT !.PIICount   = Cardinality(found),
                                        !.HasPerson  = "PERSON" \in found,
                                        !.HasMedical = "MEDICAL" \in found]
          /\ UNCHANGED <<prompt, orgConfig, verdict, finalBody>>

Decide ==
    /\ stage = "decide"
    /\ stage' = "done"
    /\ verdict' = AnalyzeRisk(riskCtx, orgConfig)
    /\ finalBody' = IF verdict'.Action = "MODIFY" THEN finalBody \ mapping
                    ELSE finalBody
    /\ UNCHANGED <<prompt, orgConfig, riskCtx, mapping>>

Next == \/ NormalizePrompt
        \/ PromptLeak
        \/ PromptInjection
        \/ VectorGuard
        \/ DomainCheck
        \/ Sanitize
        \/ Decide

Spec == Init /\ [][Next]_vars

-----------------------------------------------------------------------------
(* Properties *)

Decided  == stage = "done"
Refused  == Decided /\ verdict.Action = "BLOCK"
Released == Decided /\ verdict.Action \in {"PASS", "MODIFY"}

\* Every variable has its type; in particular no sum of heuristics leaves the
\* range of a score.
TypeOK ==
    /\ prompt \in PromptSet
    /\ orgConfig \in ConfigSet
    /\ stage \in {"normalize", "leak", "injection", "vector", "domain",
                  "sanitize", "decide", "done"}
    /\ riskCtx \in RiskContext
    /\ mapping \in SUBSET prompt.contents
    /\ verdict \in [Score : Nat, Action : {"NONE", "PASS", "MODIFY", "BLOCK"}]
    /\ finalBody \in SUBSET prompt.contents

\* A body that is released holds nothing the sanitizer found, whatever the
\* score and however the sensitivity scales it: LOW may zero the score of a
\* request, it may not turn its redaction off (engine.go:165-175,
\* handler.go:248-261).
NothingFoundIsReleased == Released => finalBody \cap mapping = {}

\* What a detector reports with certainty (a prompt leak, the external
\* classifier's "unsafe", a topic match above 0.82) is refused at every
\* sensitivity and next to any other signal: no combination rule lowers the
\* score below a threshold (engine.go:110-186).
CertainThreatsAreRefused ==
    Decided /\ (\/ riskCtx.LeakDetected
                \/ riskCtx.InjectionScore = Unit
                \/ VectorHardBlock(riskCtx)) => Refused

\* The signals one detection away from ctx.
Aggravated(ctx) ==
    {[ctx EXCEPT !.Obfuscated = TRUE],  [ctx EXCEPT !.OutOfDomain = TRUE],
     [ctx EXCEPT !.LeakDetected = TRUE], [ctx EXCEPT !.HasPerson = TRUE],
     [ctx EXCEPT !.HasMedical = TRUE],
     [ctx EXCEPT !.InjectionScore = Unit], [ctx EXCEPT !.VectorScore = Unit]}

Stricter(sensitivity) ==
    CASE sensitivity = "LOW"  -> {"LOW", "MEDIUM", "OTHER", "HIGH"}
      [] sensitivity = "HIGH" -> {"HIGH"}
      [] OTHER                -> {"MEDIUM", "OTHER", "HIGH"}

\* A refused request would still be refused had one more detector fired, or
\* under a stricter sensitivity: though a combination rule replaces the sum
\* by 100, which may be less, no evidence excuses a prompt (engine.go:131-162).
EvidenceNeverExcuses ==
    Refused =>
        \A ctx \in Aggravated(riskCtx) \cup {riskCtx} :
          \A s \in Stricter(orgConfig.Sensitivity) :
            AnalyzeRisk(ctx, [orgConfig EXCEPT !.Sensitivity = s]).Action = "BLOCK"
=============================================================================
