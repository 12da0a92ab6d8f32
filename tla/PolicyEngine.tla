---------------------------- MODULE PolicyEngine ----------------------------
(***************************************************************************)
(* The decision of the gateway as pure operators: what the detectors say   *)
(* of a prompt (pkg/security, pkg/vector, pkg/sanitizer) and the           *)
(* contextual risk matrix that turns their signals into PASS, MODIFY or    *)
(* BLOCK (pkg/policy/engine.go).                                           *)
(*                                                                         *)
(* A prompt is what the detectors can tell of it.  Scores, which the code  *)
(* keeps in floating point between 0 and 1, are integers in                *)
(* thousandths, the last digit standing for what is left over by binary    *)
(* rounding (see Rounding).                                                *)
(***************************************************************************)
EXTENDS Integers, FiniteSets

Unit   == 1000
Scores == 0 .. Unit

\* What a signal adds to a sum when it is present.
Points(present, n) == IF present THEN n ELSE 0

\* int(score * 100)
Percent(score) == score \div 10

-----------------------------------------------------------------------------
(* Configuration *)

\* "OTHER" is any string that none of the cases of AnalyzeRisk knows.
Sensitivities == {"LOW", "MEDIUM", "HIGH", "OTHER"}

Switches == {"EmailRedaction", "ApiKeyProtection", "SourceCodeDLP",
             "PromptInjection", "VectorGuard", "NerEnabled", "MedicalCheck",
             "PromptLeaking", "OutputControl", "AnomalyDetection"}

GlobalConfig == [Sensitivity : Sensitivities,
                 On          : SUBSET Switches]

DefaultConfig ==
    [Sensitivity |-> "MEDIUM",
     On          |-> Switches \ {"NerEnabled", "MedicalCheck"}]

-----------------------------------------------------------------------------
(* Prompts and detectors *)

Heuristics == {"role", "conflict", "urgency", "secrecy", "persuasion"}

Kinds == {"EMAIL", "SECRET", "PERSON", "MEDICAL", "CODE"}

\* windows: the heuristics that fire in each window the injection scan looks
\* at (one window when the prompt is short); topic: similarity of the closest
\* forbidden topic, 0 for a whitelisted prompt; contents: what the text holds.
Prompts == [obfuscated : BOOLEAN,
            leak       : BOOLEAN,
            windows    : SUBSET (SUBSET Heuristics) \ {{}},
            unsafe     : BOOLEAN,
            topic      : Scores,
            offTopic   : BOOLEAN,
            contents   : SUBSET Kinds]

\* 0.4 + (0.15 + 0.05) is 0.6000000000000001 in binary: above 0.6, and 60%.
\* The 31 other sums compare and truncate as their decimal values do.
Rounding(fired) == Points(fired = {"role", "secrecy", "persuasion"}, 1)

CalculateAttackWeight(fired) ==
    Points("urgency" \in fired, 100) + Points("secrecy" \in fired, 150)
    + Points("persuasion" \in fired, 50)

\* Mistake: the sum of the heuristics is not capped.
PredictRiskUncapped(fired) ==
    Points("role" \in fired, 400) + Points("conflict" \in fired, 500)
    + CalculateAttackWeight(fired)

PredictRisk(fired) ==
    LET score == Points("role" \in fired, 400) + Points("conflict" \in fired, 500)
                 + CalculateAttackWeight(fired) + Rounding(fired)
    IN  IF score > Unit THEN Unit ELSE score

\* The riskiest window: scanWindowed, and PredictRisk when there is just one.
ScanRisk(windows) ==
    PredictRisk(CHOOSE w \in windows :
                   \A v \in windows : PredictRisk(v) <= PredictRisk(w))

\* The score of IntentClassifier.Detect; an external classifier that is not
\* configured, fails or answers "safe" leaves the local heuristics.
InjectionRisk(prompt, classified) ==
    IF classified /\ prompt.unsafe THEN Unit ELSE ScanRisk(prompt.windows)

\* Guard.IsBlocked: a similarity that does not exceed 0.40 counts for nothing.
TopicRisk(prompt) == IF prompt.topic > 400 THEN prompt.topic ELSE 0

\* The kinds Sanitize replaces by a placeholder and enters in its mapping.
\* Medical terms and source code only raise alerts: no placeholder exists
\* for them.
Redacted(prompt, cfg) ==
    {k \in prompt.contents :
        \/ k = "EMAIL"  /\ "EmailRedaction"   \in cfg.On
        \/ k = "SECRET" /\ "ApiKeyProtection" \in cfg.On
        \/ k = "PERSON" /\ "NerEnabled"       \in cfg.On}

-----------------------------------------------------------------------------
(* The contextual risk matrix *)

RiskContext == [InjectionScore : Scores,
                VectorScore    : Scores,
                LeakDetected   : BOOLEAN,
                Obfuscated     : BOOLEAN,
                PIICount       : Nat,
                HasPerson      : BOOLEAN,
                HasMedical     : BOOLEAN,
                OutOfDomain    : BOOLEAN]

NoSignals == [InjectionScore |-> 0,     VectorScore |-> 0,
              LeakDetected   |-> FALSE, Obfuscated  |-> FALSE,
              PIICount       |-> 0,     HasPerson   |-> FALSE,
              HasMedical     |-> FALSE, OutOfDomain |-> FALSE]

BaseScore(ctx) ==
    Points(ctx.Obfuscated, 30) + Points(ctx.OutOfDomain, 30)
    + Points(ctx.LeakDetected, 100)
    + Percent(ctx.InjectionScore) + Percent(ctx.VectorScore)

\* Mistake: the health rule replaces the sum by less than a threshold.
MatrixScoreMild(ctx) ==
    IF ctx.HasPerson /\ ctx.HasMedical THEN 80
    ELSE BaseScore(ctx) + Points(ctx.HasPerson, 20)

MatrixScore(ctx) ==
    LET attack == IF ctx.InjectionScore > 600 /\ ctx.Obfuscated
                  THEN 100 ELSE BaseScore(ctx)
    IN  IF ctx.HasPerson /\ ctx.HasMedical THEN 100
        ELSE attack + Points(ctx.HasPerson, 20)

\* Mistake: LOW takes points off every score.
AdjustedScoreLenient(score, sensitivity) ==
    CASE sensitivity = "LOW"  -> IF score < 20 THEN 0 ELSE score - 20
      [] sensitivity = "HIGH" -> score + 10
      [] OTHER                -> score

AdjustedScore(score, sensitivity) ==
    CASE sensitivity = "LOW"  -> IF score < 50 THEN 0 ELSE score
      [] sensitivity = "HIGH" -> score + 10
      [] OTHER                -> score

Threshold(sensitivity) ==
    CASE sensitivity = "LOW"  -> 90
      [] sensitivity = "HIGH" -> 60
      [] OTHER                -> 80

\* Mistake: names are the only personal data.
HasPIINamed(ctx) == ctx.HasPerson

HasPII(ctx) == ctx.PIICount > 0 \/ ctx.HasPerson

VectorHardBlock(ctx) == ctx.VectorScore > 820

AnalyzeRisk(ctx, cfg) ==
    LET score == AdjustedScore(MatrixScore(ctx), cfg.Sensitivity)
    IN  [Score  |-> score,
         Action |-> IF score >= Threshold(cfg.Sensitivity) \/ VectorHardBlock(ctx)
                    THEN "BLOCK"
                    ELSE IF HasPII(ctx) THEN "MODIFY" ELSE "PASS"]

\* The last penalty is ServeHTTP's own: obfuscation counts a second time in
\* the risk that is logged and tracked.
TotalRisk(verdict, obfuscated) == verdict.Score + Points(obfuscated, 30)

\* The signals when every service a check calls answers.
Signals(prompt, cfg) ==
    [InjectionScore |-> IF "PromptInjection" \in cfg.On
                        THEN InjectionRisk(prompt, TRUE) ELSE 0,
     VectorScore    |-> IF "VectorGuard" \in cfg.On THEN TopicRisk(prompt) ELSE 0,
     LeakDetected   |-> "PromptLeaking" \in cfg.On /\ prompt.leak,
     Obfuscated     |-> prompt.obfuscated,
     PIICount       |-> Cardinality(Redacted(prompt, cfg)),
     HasPerson      |-> "PERSON" \in Redacted(prompt, cfg),
     HasMedical     |-> "MEDICAL" \in Redacted(prompt, cfg),
     OutOfDomain    |-> "VectorGuard" \in cfg.On /\ prompt.offTopic]

Decision(prompt, cfg) == AnalyzeRisk(Signals(prompt, cfg), cfg)

\* What the body that may leave still holds.
ForwardBody(prompt, cfg) ==
    IF Decision(prompt, cfg).Action = "MODIFY"
    THEN prompt.contents \ Redacted(prompt, cfg) ELSE prompt.contents
=============================================================================
