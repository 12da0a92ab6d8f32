--------------------------- MODULE Pipeline_proofs ---------------------------
(***************************************************************************)
(* What the decision guarantees for every prompt and every policy.         *)
(*                                                                         *)
(* The heart is Monotone, a fact about the risk matrix alone: it compares  *)
(* the scores of two contexts of which one holds at least the evidence of  *)
(* the other.  The invariant that carries it to the pipeline says that the *)
(* verdict is the matrix's answer to the signals and that the signals      *)
(* agree with the sanitizer's mapping.                                     *)
(*                                                                         *)
(* The simulator repeats the checks: the last section shows that it leaves *)
(* the pipeline alone and what its answer tells of the proxy's.            *)
(***************************************************************************)
EXTENDS Simulator, FiniteSetTheorems, TLAPS

-----------------------------------------------------------------------------
(* Detectors *)

\* No set of heuristics, and hence no prompt, leaves the range of a score.
LEMMA RiskIsScore ==
    /\ \A fired : PredictRisk(fired) \in Scores
    /\ \A p, c : InjectionRisk(p, c) \in Scores
<1>1. ASSUME NEW fired PROVE PredictRisk(fired) \in Scores
  BY DEF PredictRisk, CalculateAttackWeight, Rounding, Points, Scores, Unit
<1>2. ASSUME NEW p, NEW c PROVE InjectionRisk(p, c) \in Scores
  BY <1>1 DEF InjectionRisk, ScanRisk, Scores, Unit
<1> QED BY <1>1, <1>2

\* A forbidden topic that is close counts for its similarity.
LEMMA TopicRiskIsScore ==
    ASSUME NEW p \in Prompts PROVE TopicRisk(p) \in Scores
BY DEF TopicRisk, Scores, Prompts, Unit

\* The sanitizer replaces only what the text holds, and counts nothing
\* exactly when it replaced nothing.
LEMMA RedactedCount ==
    ASSUME NEW p \in Prompts, NEW found \in SUBSET p.contents
    PROVE  /\ Cardinality(found) \in Nat
           /\ Cardinality(found) = 0 => found = {}
<1>1. ASSUME NEW S, IsFiniteSet(S), NEW x PROVE IsFiniteSet(S \cup {x})
  BY <1>1, FS_AddElement
<1>2. IsFiniteSet({})
  BY FS_EmptySet
<1>3. IsFiniteSet((((({} \cup {"EMAIL"}) \cup {"SECRET"}) \cup {"PERSON"})
                    \cup {"MEDICAL"}) \cup {"CODE"})
  BY <1>1, <1>2
<1>4. Kinds = (((({} \cup {"EMAIL"}) \cup {"SECRET"}) \cup {"PERSON"})
                    \cup {"MEDICAL"}) \cup {"CODE"}
  BY DEF Kinds
<1>5. found \in SUBSET Kinds
  BY DEF Prompts
<1>6. IsFiniteSet(found)
  BY <1>3, <1>4, <1>5, FS_Subset
<1> QED BY <1>6, FS_CardinalityType, FS_EmptySet

-----------------------------------------------------------------------------
(* The risk matrix *)

\* The scores of a context are natural numbers.
LEMMA ContextFields ==
    ASSUME NEW c \in RiskContext
    PROVE  c.InjectionScore \in Nat /\ c.VectorScore \in Nat
<1>1. \A x \in Scores : x \in Nat
  BY DEF Scores, Unit
<1>2. c.InjectionScore \in Scores /\ c.VectorScore \in Scores
  BY DEF RiskContext
<1> QED BY <1>1, <1>2

\* Truncation to a percentage keeps the order.
LEMMA PercentType ==
    ASSUME NEW x \in Nat PROVE Percent(x) \in Nat
BY SMT DEF Percent

LEMMA PercentMonotone ==
    ASSUME NEW x \in Nat, NEW y \in Nat, x >= y
    PROVE  Percent(x) >= Percent(y)
BY SMT DEF Percent

\* A signal adds its points or nothing, and never less for being present.
LEMMA PointsType ==
    ASSUME NEW b, NEW n \in Nat PROVE Points(b, n) \in Nat
BY DEF Points

LEMMA PointsMonotone ==
    ASSUME NEW a, NEW b, a => b, NEW n \in Nat
    PROVE  Points(b, n) >= Points(a, n)
BY DEF Points

\* The terms of a context's score, as numbers.
LEMMA Terms ==
    ASSUME NEW c \in RiskContext
    PROVE  /\ Percent(c.InjectionScore) \in Nat
           /\ Percent(c.VectorScore) \in Nat
           /\ Points(c.Obfuscated, 30) \in Nat
           /\ Points(c.OutOfDomain, 30) \in Nat
           /\ Points(c.LeakDetected, 100) \in Nat
           /\ Points(c.HasPerson, 20) \in Nat
           /\ BaseScore(c) \in Nat
           /\ MatrixScore(c) \in Nat
<1>1. c.InjectionScore \in Nat /\ c.VectorScore \in Nat
  BY ContextFields
<1>2. PICK i, v \in Nat : i = Percent(c.InjectionScore) /\ v = Percent(c.VectorScore)
  BY <1>1, PercentType
<1>3. /\ Points(c.Obfuscated, 30) \in Nat
      /\ Points(c.OutOfDomain, 30) \in Nat
      /\ Points(c.LeakDetected, 100) \in Nat
      /\ Points(c.HasPerson, 20) \in Nat
  BY PointsType
<1>4. PICK o, a, l, p \in Nat :
        /\ o = Points(c.Obfuscated, 30)     /\ a = Points(c.OutOfDomain, 30)
        /\ l = Points(c.LeakDetected, 100)  /\ p = Points(c.HasPerson, 20)
  BY <1>3
<1>5. BaseScore(c) = o + a + l + i + v
  BY <1>2, <1>4 DEF BaseScore
<1>6. PICK b \in Nat : b = BaseScore(c)
  BY <1>2, <1>4, <1>5
<1>7. MatrixScore(c) \in {100, b + p, 100 + p}
  BY <1>4, <1>6 DEF MatrixScore
<1> QED BY <1>2, <1>3, <1>4, <1>6, <1>7

\* The verdict has its type.
LEMMA AnalyzeRiskType ==
    ASSUME NEW c \in RiskContext, NEW cfg \in GlobalConfig
    PROVE  AnalyzeRisk(c, cfg) \in
             [Score : Nat, Action : {"PASS", "MODIFY", "BLOCK"}]
<1>1. PICK m \in Nat : m = MatrixScore(c)
  BY Terms
<1>2. AdjustedScore(m, cfg.Sensitivity) \in Nat
  BY <1>1 DEF AdjustedScore
<1> QED BY <1>1, <1>2 DEF AnalyzeRisk

\* d holds all the evidence of c.
AtLeast(d, c) ==
    /\ d.InjectionScore >= c.InjectionScore
    /\ d.VectorScore >= c.VectorScore
    /\ c.LeakDetected => d.LeakDetected
    /\ c.Obfuscated => d.Obfuscated
    /\ c.OutOfDomain => d.OutOfDomain
    /\ c.HasPerson => d.HasPerson
    /\ c.HasMedical => d.HasMedical

\* More evidence gives a score that is higher or at least critical.
LEMMA MoreEvidenceScoresMore ==
    ASSUME NEW c \in RiskContext, NEW d \in RiskContext, AtLeast(d, c)
    PROVE  MatrixScore(d) >= MatrixScore(c) \/ MatrixScore(d) >= 100
<1>1. PICK i, v, o, a, l, p, b \in Nat :
        /\ i = Percent(c.InjectionScore)    /\ v = Percent(c.VectorScore)
        /\ o = Points(c.Obfuscated, 30)     /\ a = Points(c.OutOfDomain, 30)
        /\ l = Points(c.LeakDetected, 100)  /\ p = Points(c.HasPerson, 20)
        /\ b = BaseScore(c)
  BY Terms
<1>2. PICK i2, v2, o2, a2, l2, p2, b2 \in Nat :
        /\ i2 = Percent(d.InjectionScore)    /\ v2 = Percent(d.VectorScore)
        /\ o2 = Points(d.Obfuscated, 30)     /\ a2 = Points(d.OutOfDomain, 30)
        /\ l2 = Points(d.LeakDetected, 100)  /\ p2 = Points(d.HasPerson, 20)
        /\ b2 = BaseScore(d)
  BY Terms
<1>3. PICK ci, cv \in Nat : ci = c.InjectionScore /\ cv = c.VectorScore
  BY ContextFields
<1>4. PICK di, dv \in Nat : di = d.InjectionScore /\ dv = d.VectorScore
  BY ContextFields
<1>5. di >= ci /\ dv >= cv
  BY <1>3, <1>4 DEF AtLeast
<1>6. i2 >= i /\ v2 >= v
  <2>1. Percent(di) >= Percent(ci) /\ Percent(dv) >= Percent(cv)
    BY <1>3, <1>4, <1>5, PercentMonotone
  <2> QED BY <1>1, <1>2, <1>3, <1>4, <2>1
<1>7. o2 >= o /\ a2 >= a /\ l2 >= l /\ p2 >= p
  <2>1. /\ Points(d.Obfuscated, 30) >= Points(c.Obfuscated, 30)
        /\ Points(d.OutOfDomain, 30) >= Points(c.OutOfDomain, 30)
        /\ Points(d.LeakDetected, 100) >= Points(c.LeakDetected, 100)
        /\ Points(d.HasPerson, 20) >= Points(c.HasPerson, 20)
    BY PointsMonotone DEF AtLeast
  <2> QED BY <1>1, <1>2, <2>1
<1>8. b2 >= b
  <2>1. b = o + a + l + i + v
    BY <1>1 DEF BaseScore
  <2>2. b2 = o2 + a2 + l2 + i2 + v2
    BY <1>2 DEF BaseScore
  <2> QED BY <1>1, <1>2, <1>6, <1>7, <2>1, <2>2
<1>9. MatrixScore(c) = IF c.HasPerson /\ c.HasMedical THEN 100
                       ELSE (IF ci > 600 /\ c.Obfuscated THEN 100 ELSE b) + p
  BY <1>1, <1>3 DEF MatrixScore
<1>10. MatrixScore(d) = IF d.HasPerson /\ d.HasMedical THEN 100
                        ELSE (IF di > 600 /\ d.Obfuscated THEN 100 ELSE b2) + p2
  BY <1>2, <1>4 DEF MatrixScore
<1> QED BY <1>1, <1>2, <1>3, <1>4, <1>5, <1>7, <1>8, <1>9, <1>10 DEF AtLeast

\* One more detection is more evidence.
LEMMA AggravatedAtLeast ==
    ASSUME NEW c \in RiskContext, NEW d \in Aggravated(c) \cup {c}
    PROVE  d \in RiskContext /\ AtLeast(d, c)
<1>1. /\ c.InjectionScore \in Nat /\ c.InjectionScore <= Unit
      /\ c.VectorScore \in Nat /\ c.VectorScore <= Unit
      /\ Unit \in Scores /\ Unit \in Nat
  <2>1. /\ c.InjectionScore \in Scores /\ c.VectorScore \in Scores
    BY DEF RiskContext
  <2>2. \A x \in Scores : x \in Nat /\ x <= Unit
    BY DEF Scores, Unit
  <2>3. Unit \in Scores /\ Unit \in Nat
    BY DEF Scores, Unit
  <2> QED BY <2>1, <2>2, <2>3
<1>2. AtLeast(c, c)
  BY <1>1 DEF AtLeast
<1>3. CASE d \in {[c EXCEPT !.Obfuscated = TRUE],   [c EXCEPT !.OutOfDomain = TRUE],
                 [c EXCEPT !.LeakDetected = TRUE], [c EXCEPT !.HasPerson = TRUE],
                 [c EXCEPT !.HasMedical = TRUE]}
  <2>1. CASE d = [c EXCEPT !.Obfuscated = TRUE]
    <3>1. d \in RiskContext
      BY <2>1 DEF RiskContext
    <3>2. /\ d.Obfuscated = TRUE
          /\ d.InjectionScore = c.InjectionScore /\ d.VectorScore = c.VectorScore
          /\ d.LeakDetected = c.LeakDetected /\ d.OutOfDomain = c.OutOfDomain
          /\ d.HasPerson = c.HasPerson /\ d.HasMedical = c.HasMedical
      BY <2>1 DEF RiskContext
    <3>3. d.InjectionScore >= c.InjectionScore /\ d.VectorScore >= c.VectorScore
      BY <1>1, <3>2
    <3> QED BY <3>1, <3>2, <3>3, Zenon DEF AtLeast
  <2>2. CASE d = [c EXCEPT !.OutOfDomain = TRUE]
    <3>1. d \in RiskContext
      BY <2>2 DEF RiskContext
    <3>2. /\ d.OutOfDomain = TRUE
          /\ d.InjectionScore = c.InjectionScore /\ d.VectorScore = c.VectorScore
          /\ d.LeakDetected = c.LeakDetected /\ d.Obfuscated = c.Obfuscated
          /\ d.HasPerson = c.HasPerson /\ d.HasMedical = c.HasMedical
      BY <2>2 DEF RiskContext
    <3>3. d.InjectionScore >= c.InjectionScore /\ d.VectorScore >= c.VectorScore
      BY <1>1, <3>2
    <3> QED BY <3>1, <3>2, <3>3, Zenon DEF AtLeast
  <2>3. CASE d = [c EXCEPT !.LeakDetected = TRUE]
    <3>1. d \in RiskContext
      BY <2>3 DEF RiskContext
    <3>2. /\ d.LeakDetected = TRUE
          /\ d.InjectionScore = c.InjectionScore /\ d.VectorScore = c.VectorScore
          /\ d.Obfuscated = c.Obfuscated /\ d.OutOfDomain = c.OutOfDomain
          /\ d.HasPerson = c.HasPerson /\ d.HasMedical = c.HasMedical
      BY <2>3 DEF RiskContext
    <3>3. d.InjectionScore >= c.InjectionScore /\ d.VectorScore >= c.VectorScore
      BY <1>1, <3>2
    <3> QED BY <3>1, <3>2, <3>3, Zenon DEF AtLeast
  <2>4. CASE d = [c EXCEPT !.HasPerson = TRUE]
    <3>1. d \in RiskContext
      BY <2>4 DEF RiskContext
    <3>2. /\ d.HasPerson = TRUE
          /\ d.InjectionScore = c.InjectionScore /\ d.VectorScore = c.VectorScore
          /\ d.LeakDetected = c.LeakDetected /\ d.Obfuscated = c.Obfuscated
          /\ d.OutOfDomain = c.OutOfDomain /\ d.HasMedical = c.HasMedical
      BY <2>4 DEF RiskContext
    <3>3. d.InjectionScore >= c.InjectionScore /\ d.VectorScore >= c.VectorScore
      BY <1>1, <3>2
    <3> QED BY <3>1, <3>2, <3>3, Zenon DEF AtLeast
  <2>5. CASE d = [c EXCEPT !.HasMedical = TRUE]
    <3>1. d \in RiskContext
      BY <2>5 DEF RiskContext
    <3>2. /\ d.HasMedical = TRUE
          /\ d.InjectionScore = c.InjectionScore /\ d.VectorScore = c.VectorScore
          /\ d.LeakDetected = c.LeakDetected /\ d.Obfuscated = c.Obfuscated
          /\ d.OutOfDomain = c.OutOfDomain /\ d.HasPerson = c.HasPerson
      BY <2>5 DEF RiskContext
    <3>3. d.InjectionScore >= c.InjectionScore /\ d.VectorScore >= c.VectorScore
      BY <1>1, <3>2
    <3> QED BY <3>1, <3>2, <3>3, Zenon DEF AtLeast
  <2> QED BY <1>3, <2>1, <2>2, <2>3, <2>4, <2>5
<1>4. CASE d = [c EXCEPT !.InjectionScore = Unit]
  BY <1>1, <1>4 DEF AtLeast, RiskContext
<1>5. CASE d = [c EXCEPT !.VectorScore = Unit]
  BY <1>1, <1>5 DEF AtLeast, RiskContext
<1> QED BY <1>2, <1>3, <1>4, <1>5 DEF Aggravated

\* THE monotonicity of the engine: what is refused stays refused with more
\* evidence and under a stricter sensitivity.
LEMMA Monotone ==
    ASSUME NEW c \in RiskContext, NEW d \in RiskContext, AtLeast(d, c),
           NEW cfg \in GlobalConfig,
           NEW s \in Stricter(cfg.Sensitivity),
           AnalyzeRisk(c, cfg).Action = "BLOCK"
    PROVE  AnalyzeRisk(d, [cfg EXCEPT !.Sensitivity = s]).Action = "BLOCK"
<1> DEFINE t == cfg.Sensitivity
           stricter == [cfg EXCEPT !.Sensitivity = s]
<1>1. /\ t \in Sensitivities
      /\ stricter.Sensitivity = s
      /\ s \in Sensitivities
  BY DEF GlobalConfig, Sensitivities, Stricter
<1>2. CASE VectorHardBlock(c)
  <2>1. VectorHardBlock(d)
    <3>1. PICK cv \in Nat : cv = c.VectorScore
      BY ContextFields
    <3>2. PICK dv \in Nat : dv = d.VectorScore
      BY ContextFields
    <3> QED BY <1>2, <3>1, <3>2 DEF VectorHardBlock, AtLeast
  <2> QED BY <2>1 DEF AnalyzeRisk
<1>3. CASE ~VectorHardBlock(c)
  <2>1. AdjustedScore(MatrixScore(c), t) >= Threshold(t)
    BY <1>3 DEF AnalyzeRisk
  <2>2. MatrixScore(c) \in Nat /\ MatrixScore(d) \in Nat
    BY Terms
  <2>3. AdjustedScore(MatrixScore(d), s) >= Threshold(s)
    BY <1>1, <2>1, <2>2, MoreEvidenceScoresMore
    DEF AdjustedScore, Threshold, Stricter, Sensitivities
  <2> QED BY <1>1, <2>3 DEF AnalyzeRisk
<1> QED BY <1>2, <1>3

\* A certain threat is worth 100 in the matrix, whatever the other signals.
LEMMA CertainThreatScores ==
    ASSUME NEW c \in RiskContext, NEW cfg \in GlobalConfig,
           c.LeakDetected \/ c.InjectionScore = Unit \/ VectorHardBlock(c)
    PROVE  AnalyzeRisk(c, cfg).Action = "BLOCK"
<1>1. CASE VectorHardBlock(c)
  BY <1>1 DEF AnalyzeRisk
<1>2. CASE c.LeakDetected \/ c.InjectionScore = Unit
  <2>1. PICK i, v, o, a, l, p, b \in Nat :
          /\ i = Percent(c.InjectionScore)    /\ v = Percent(c.VectorScore)
          /\ o = Points(c.Obfuscated, 30)     /\ a = Points(c.OutOfDomain, 30)
          /\ l = Points(c.LeakDetected, 100)  /\ p = Points(c.HasPerson, 20)
          /\ b = BaseScore(c)
    BY Terms
  <2>2. c.InjectionScore = Unit => i = 100
    BY <2>1 DEF Percent, Unit
  <2>3. c.LeakDetected => l = 100
    BY <2>1 DEF Points
  <2>4. b = o + a + l + i + v
    BY <2>1 DEF BaseScore
  <2>5. b >= 100
    BY <1>2, <2>1, <2>2, <2>3, <2>4
  <2>6. MatrixScore(c) \in {100, b + p, 100 + p}
    BY <2>1 DEF MatrixScore
  <2>7. PICK m \in Nat : m = MatrixScore(c) /\ m >= 100
    BY <2>1, <2>5, <2>6
  <2> QED BY <2>7 DEF AnalyzeRisk, AdjustedScore, Threshold
<1> QED BY <1>1, <1>2

-----------------------------------------------------------------------------
(* The pipeline *)

\* From the sanitizer on, the signals agree with its mapping.
SignalsInv == stage \in {"decide", "done"} /\ riskCtx.PIICount = 0 => mapping = {}

\* The verdict is the matrix's, and its body the one it names.
VerdictInv == Decided => /\ verdict = AnalyzeRisk(riskCtx, orgConfig)
                         /\ (verdict.Action = "MODIFY" => finalBody \cap mapping = {})

IInv == TypeOK /\ SignalsInv /\ VerdictInv

LEMMA InitIInv == Init => IInv
<1> SUFFICES ASSUME Init PROVE IInv
  OBVIOUS
<1>1. TypeOK
  BY DEF Init, TypeOK, NoSignals, RiskContext, Scores, Unit, Undecided
<1> QED BY <1>1 DEF IInv, SignalsInv, VerdictInv, Decided, Init

\* A check before the sanitizer only replaces the signals.
LEMMA CheckIInv ==
    ASSUME IInv, NEW from, NEW to, NEW signals \in RiskContext,
           Check(from, to, signals),
           to \in {"leak", "injection", "vector", "domain", "sanitize"}
    PROVE  IInv'
BY DEF IInv, TypeOK, SignalsInv, VerdictInv, Decided, Check

LEMMA StepIInv == IInv /\ [Next]_vars => IInv'
<1> SUFFICES ASSUME IInv, [Next]_vars PROVE IInv'
  OBVIOUS
<1> USE PipelineAssumption
<1>a. /\ prompt \in Prompts
      /\ orgConfig \in GlobalConfig
      /\ riskCtx \in RiskContext
  BY DEF IInv, TypeOK
<1>b. prompt.obfuscated \in BOOLEAN /\ prompt.leak \in BOOLEAN
  BY <1>a DEF Prompts
<1>1. CASE NormalizePrompt
  <2>1. [riskCtx EXCEPT !.Obfuscated = prompt.obfuscated] \in RiskContext
    BY <1>a, <1>b DEF RiskContext
  <2> QED BY <1>1, <2>1, CheckIInv DEF NormalizePrompt
<1>2. CASE PromptLeak
  <2>1. [riskCtx EXCEPT !.LeakDetected = Enabled("PromptLeaking") /\ prompt.leak]
           \in RiskContext
    BY <1>a DEF RiskContext
  <2> QED BY <1>2, <2>1, CheckIInv DEF PromptLeak
<1>3. CASE PromptInjection
  <2> PICK classified \in Answers :
        Check("injection", "vector",
              IF Enabled("PromptInjection")
              THEN [riskCtx EXCEPT !.InjectionScore = InjectionRisk(prompt, classified)]
              ELSE riskCtx)
    BY <1>3 DEF PromptInjection
  <2>1. [riskCtx EXCEPT !.InjectionScore = InjectionRisk(prompt, classified)]
           \in RiskContext
    BY <1>a, RiskIsScore DEF RiskContext
  <2> QED BY <1>a, <2>1, CheckIInv
<1>4. CASE VectorGuard
  <2> PICK searched \in Answers :
        Check("vector", "domain",
              IF Enabled("VectorGuard") /\ searched
              THEN [riskCtx EXCEPT !.VectorScore = TopicRisk(prompt)]
              ELSE riskCtx)
    BY <1>4 DEF VectorGuard
  <2>1. [riskCtx EXCEPT !.VectorScore = TopicRisk(prompt)] \in RiskContext
    BY <1>a, TopicRiskIsScore DEF RiskContext
  <2> QED BY <1>a, <2>1, CheckIInv
<1>5. CASE DomainCheck
  <2> PICK searched \in Answers :
        Check("domain", "sanitize",
              [riskCtx EXCEPT !.OutOfDomain =
                  Enabled("VectorGuard") /\ searched /\ prompt.offTopic])
    BY <1>5 DEF DomainCheck
  <2>1. [riskCtx EXCEPT !.OutOfDomain =
            Enabled("VectorGuard") /\ searched /\ prompt.offTopic] \in RiskContext
    BY <1>a DEF RiskContext
  <2> QED BY <2>1, CheckIInv
<1>6. CASE Sanitize
  <2> PICK recognized \in Answers :
        LET found == Redacted(prompt, orgConfig) \ (IF recognized THEN {} ELSE {"PERSON"})
        IN  /\ stage = "sanitize"
            /\ stage' = "decide"
            /\ mapping' = found
            /\ riskCtx' = [riskCtx EXCEPT !.PIICount   = Cardinality(found),
                                          !.HasPerson  = "PERSON" \in found,
                                          !.HasMedical = "MEDICAL" \in found]
            /\ UNCHANGED <<prompt, orgConfig, verdict, finalBody>>
    BY <1>6 DEF Sanitize
  <2> DEFINE found == Redacted(prompt, orgConfig)
                        \ (IF recognized THEN {} ELSE {"PERSON"})
  <2>1. found \in SUBSET prompt.contents
    BY DEF Redacted
  <2>2. mapping' = found
    OBVIOUS
  <2>3. riskCtx' = [riskCtx EXCEPT !.PIICount   = Cardinality(found),
                                   !.HasPerson  = "PERSON" \in found,
                                   !.HasMedical = "MEDICAL" \in found]
    OBVIOUS
  <2> HIDE DEF found
  <2>4. Cardinality(found) \in Nat /\ (Cardinality(found) = 0 => found = {})
    BY <1>a, <2>1, RedactedCount
  <2>5. riskCtx' \in RiskContext
    <3>1. ("PERSON" \in found) \in BOOLEAN /\ ("MEDICAL" \in found) \in BOOLEAN
      OBVIOUS
    <3> QED BY <1>a, <2>3, <2>4, <3>1 DEF RiskContext
  <2>6. TypeOK'
    BY <2>1, <2>2, <2>5 DEF IInv, TypeOK
  <2>7. riskCtx'.PIICount = Cardinality(found)
    BY <1>a, <2>3 DEF RiskContext
  <2> QED BY <2>2, <2>4, <2>6, <2>7 DEF IInv, SignalsInv, VerdictInv, Decided
<1>7. CASE Decide
  <2>1. verdict' \in [Score : Nat, Action : {"PASS", "MODIFY", "BLOCK"}]
    BY <1>7, <1>a, AnalyzeRiskType DEF Decide
  <2>2. TypeOK'
    BY <1>7, <2>1 DEF Decide, IInv, TypeOK
  <2>3. verdict' = AnalyzeRisk(riskCtx', orgConfig')
    BY <1>7 DEF Decide
  <2>4. verdict'.Action = "MODIFY" => finalBody' \cap mapping' = {}
    BY <1>7 DEF Decide
  <2>5. SignalsInv'
    BY <1>7 DEF Decide, IInv, SignalsInv
  <2> QED BY <2>2, <2>3, <2>4, <2>5 DEF IInv, VerdictInv
<1>8. CASE UNCHANGED vars
  BY <1>8 DEF IInv, TypeOK, SignalsInv, VerdictInv, Decided, vars
<1> QED BY <1>1, <1>2, <1>3, <1>4, <1>5, <1>6, <1>7, <1>8 DEF Next

\* The inductive invariant holds of every request.
THEOREM Invariance == Spec => []IInv
<1> QED BY InitIInv, StepIInv, PTL DEF Spec

\* Type correctness of the pipeline.
THEOREM TypeCorrect == Spec => []TypeOK
<1>1. IInv => TypeOK
  BY DEF IInv
<1> QED BY <1>1, Invariance, PTL

\* No body that is released holds a value the sanitizer found.
THEOREM RedactionHolds == Spec => []NothingFoundIsReleased
<1>1. IInv => NothingFoundIsReleased
  <2> SUFFICES ASSUME IInv, Released PROVE finalBody \cap mapping = {}
    BY DEF NothingFoundIsReleased
  <2>1. verdict = AnalyzeRisk(riskCtx, orgConfig)
    BY DEF Released, IInv, VerdictInv
  <2>2. CASE verdict.Action = "MODIFY"
    BY <2>2 DEF Released, IInv, VerdictInv
  <2>3. CASE verdict.Action = "PASS"
    <3>1. ~HasPII(riskCtx)
      BY <2>1, <2>3 DEF AnalyzeRisk
    <3>2. riskCtx.PIICount = 0
      BY <3>1 DEF HasPII, IInv, TypeOK, RiskContext
    <3> QED BY <3>2 DEF IInv, SignalsInv, Released, Decided
  <2> QED BY <2>2, <2>3 DEF Released
<1> QED BY <1>1, Invariance, PTL

\* What a detector is certain of is refused under every policy.
THEOREM CertainThreatsRefused == Spec => []CertainThreatsAreRefused
<1>1. IInv => CertainThreatsAreRefused
  <2> USE PipelineAssumption
  <2>1. ASSUME IInv PROVE riskCtx \in RiskContext /\ orgConfig \in GlobalConfig
    BY <2>1 DEF IInv, TypeOK
  <2> QED BY <2>1, CertainThreatScores
          DEF CertainThreatsAreRefused, Refused, IInv, VerdictInv
<1> QED BY <1>1, Invariance, PTL

\* One more detection, or a stricter sensitivity, never releases a refused
\* prompt.
THEOREM EvidenceAccumulates == Spec => []EvidenceNeverExcuses
<1>1. IInv => EvidenceNeverExcuses
  <2> SUFFICES ASSUME IInv, Refused,
                      NEW ctx \in Aggravated(riskCtx) \cup {riskCtx},
                      NEW s \in Stricter(orgConfig.Sensitivity)
               PROVE  AnalyzeRisk(ctx, [orgConfig EXCEPT !.Sensitivity = s]).Action
                         = "BLOCK"
    BY DEF EvidenceNeverExcuses
  <2>1. riskCtx \in RiskContext /\ orgConfig \in GlobalConfig
    BY PipelineAssumption DEF IInv, TypeOK
  <2>2. AnalyzeRisk(riskCtx, orgConfig).Action = "BLOCK"
    BY DEF IInv, VerdictInv, Refused
  <2>3. ctx \in RiskContext /\ AtLeast(ctx, riskCtx)
    BY <2>1, AggravatedAtLeast
  <2> QED BY <2>1, <2>2, <2>3, Monotone
<1> QED BY <1>1, Invariance, PTL

-----------------------------------------------------------------------------
(* The simulator *)

\* The simulator changes nothing of the request: what holds of the pipeline
\* holds next to it.
THEOREM SimulatorLeavesThePipelineAlone == SimSpec => Spec
<1>1. SimInit => Init
  BY DEF SimInit
<1>2. [SimNext]_<<vars, simVars>> => [Next]_vars
  BY DEF SimNext, Simulate
<1> QED BY <1>1, <1>2, PTL DEF SimSpec, Spec

\* A signal has its evidence in the prompt and a check that is switched on,
\* and until the decision the body is the prompt's.
EvidenceInv ==
    /\ riskCtx.LeakDetected => Enabled("PromptLeaking") /\ prompt.leak
    /\ \/ riskCtx.InjectionScore = 0
       \/ /\ Enabled("PromptInjection")
          /\ prompt.unsafe \/ riskCtx.InjectionScore = ScanRisk(prompt.windows)
    /\ \/ riskCtx.VectorScore = 0
       \/ Enabled("VectorGuard") /\ riskCtx.VectorScore = TopicRisk(prompt)

BodyInv ==
    IF Decided
    THEN finalBody = IF verdict.Action = "MODIFY" THEN prompt.contents \ mapping
                     ELSE prompt.contents
    ELSE finalBody = prompt.contents

LEMMA InitEvidence == Init => EvidenceInv /\ BodyInv
BY DEF Init, EvidenceInv, BodyInv, NoSignals, Decided

\* A signal that a check leaves alone keeps its evidence.
LEMMA CheckEvidence ==
    ASSUME EvidenceInv, BodyInv, NEW from, NEW to, NEW signals,
           Check(from, to, signals), from # "done", to # "done",
           \/ signals.LeakDetected = riskCtx.LeakDetected
           \/ signals.LeakDetected => Enabled("PromptLeaking") /\ prompt.leak,
           \/ signals.InjectionScore = riskCtx.InjectionScore
           \/ /\ Enabled("PromptInjection")
              /\ prompt.unsafe \/ signals.InjectionScore = ScanRisk(prompt.windows),
           \/ signals.VectorScore = riskCtx.VectorScore
           \/ Enabled("VectorGuard") /\ signals.VectorScore = TopicRisk(prompt)
    PROVE  EvidenceInv' /\ BodyInv'
<1>1. /\ riskCtx' = signals /\ prompt' = prompt /\ orgConfig' = orgConfig
      /\ finalBody' = finalBody /\ stage # "done" /\ stage' # "done"
  BY DEF Check
<1>2. EvidenceInv'
  BY <1>1 DEF EvidenceInv, Enabled
<1> QED BY <1>1, <1>2 DEF BodyInv, Decided

LEMMA StepEvidence == IInv /\ EvidenceInv /\ BodyInv /\ [Next]_vars => EvidenceInv' /\ BodyInv'
<1> SUFFICES ASSUME IInv, EvidenceInv, BodyInv, [Next]_vars PROVE EvidenceInv' /\ BodyInv'
  OBVIOUS
<1>a. riskCtx \in RiskContext
  BY DEF IInv, TypeOK
<1>1. CASE NormalizePrompt
  <2> DEFINE signals == [riskCtx EXCEPT !.Obfuscated = prompt.obfuscated]
  <2>1. /\ signals.LeakDetected = riskCtx.LeakDetected
        /\ signals.InjectionScore = riskCtx.InjectionScore
        /\ signals.VectorScore = riskCtx.VectorScore
    BY <1>a DEF RiskContext
  <2>2. Check("normalize", "leak", signals)
    BY <1>1 DEF NormalizePrompt
  <2> HIDE DEF signals
  <2> QED BY <2>1, <2>2, CheckEvidence
<1>2. CASE PromptLeak
  <2> DEFINE signals ==
        [riskCtx EXCEPT !.LeakDetected = Enabled("PromptLeaking") /\ prompt.leak]
  <2>1. /\ signals.LeakDetected => Enabled("PromptLeaking") /\ prompt.leak
        /\ signals.InjectionScore = riskCtx.InjectionScore
        /\ signals.VectorScore = riskCtx.VectorScore
    BY <1>a DEF RiskContext
  <2>2. Check("leak", "injection", signals)
    BY <1>2 DEF PromptLeak
  <2> HIDE DEF signals
  <2> QED BY <2>1, <2>2, CheckEvidence
<1>3. CASE PromptInjection
  <2> PICK classified \in Answers :
        Check("injection", "vector",
              IF Enabled("PromptInjection")
              THEN [riskCtx EXCEPT !.InjectionScore = InjectionRisk(prompt, classified)]
              ELSE riskCtx)
    BY <1>3 DEF PromptInjection
  <2> DEFINE signals ==
        IF Enabled("PromptInjection")
        THEN [riskCtx EXCEPT !.InjectionScore = InjectionRisk(prompt, classified)]
        ELSE riskCtx
  <2>1. /\ signals.LeakDetected = riskCtx.LeakDetected
        /\ signals.VectorScore = riskCtx.VectorScore
    BY <1>a DEF RiskContext
  <2>2. \/ signals.InjectionScore = riskCtx.InjectionScore
        \/ /\ Enabled("PromptInjection")
           /\ prompt.unsafe \/ signals.InjectionScore = ScanRisk(prompt.windows)
    BY <1>a DEF RiskContext, InjectionRisk
  <2>3. Check("injection", "vector", signals)
    OBVIOUS
  <2> HIDE DEF signals
  <2> QED BY <2>1, <2>2, <2>3, CheckEvidence
<1>4. CASE VectorGuard
  <2> PICK searched \in Answers :
        Check("vector", "domain",
              IF Enabled("VectorGuard") /\ searched
              THEN [riskCtx EXCEPT !.VectorScore = TopicRisk(prompt)]
              ELSE riskCtx)
    BY <1>4 DEF VectorGuard
  <2> DEFINE signals ==
        IF Enabled("VectorGuard") /\ searched
        THEN [riskCtx EXCEPT !.VectorScore = TopicRisk(prompt)]
        ELSE riskCtx
  <2>1. /\ signals.LeakDetected = riskCtx.LeakDetected
        /\ signals.InjectionScore = riskCtx.InjectionScore
    BY <1>a DEF RiskContext
  <2>2. \/ signals.VectorScore = riskCtx.VectorScore
        \/ Enabled("VectorGuard") /\ signals.VectorScore = TopicRisk(prompt)
    BY <1>a DEF RiskContext
  <2>3. Check("vector", "domain", signals)
    OBVIOUS
  <2> HIDE DEF signals
  <2> QED BY <2>1, <2>2, <2>3, CheckEvidence
<1>5. CASE DomainCheck
  <2> PICK searched \in Answers :
        Check("domain", "sanitize",
              [riskCtx EXCEPT !.OutOfDomain =
                  Enabled("VectorGuard") /\ searched /\ prompt.offTopic])
    BY <1>5 DEF DomainCheck
  <2> DEFINE signals == [riskCtx EXCEPT !.OutOfDomain =
                  Enabled("VectorGuard") /\ searched /\ prompt.offTopic]
  <2>1. /\ signals.LeakDetected = riskCtx.LeakDetected
        /\ signals.InjectionScore = riskCtx.InjectionScore
        /\ signals.VectorScore = riskCtx.VectorScore
    BY <1>a DEF RiskContext
  <2>2. Check("domain", "sanitize", signals)
    OBVIOUS
  <2> HIDE DEF signals
  <2> QED BY <2>1, <2>2, CheckEvidence
<1>6. CASE Sanitize
  <2>1. /\ stage = "sanitize" /\ stage' = "decide"
        /\ UNCHANGED <<prompt, orgConfig, finalBody>>
    BY <1>6 DEF Sanitize
  <2>2. PICK n, p, m : riskCtx' = [riskCtx EXCEPT !.PIICount = n, !.HasPerson = p,
                                                  !.HasMedical = m]
    BY <1>6 DEF Sanitize
  <2>3. /\ riskCtx'.LeakDetected = riskCtx.LeakDetected
        /\ riskCtx'.InjectionScore = riskCtx.InjectionScore
        /\ riskCtx'.VectorScore = riskCtx.VectorScore
    BY <1>a, <2>2 DEF RiskContext
  <2>4. EvidenceInv'
    BY <2>1, <2>3 DEF EvidenceInv, Enabled
  <2> QED BY <2>1, <2>4 DEF BodyInv, Decided
<1>7. CASE Decide
  <2>1. EvidenceInv'
    BY <1>7 DEF Decide, EvidenceInv, Enabled
  <2>2. BodyInv'
    BY <1>7 DEF Decide, BodyInv, Decided
  <2> QED BY <2>1, <2>2
<1>8. CASE UNCHANGED vars
  BY <1>8 DEF vars, EvidenceInv, BodyInv, Enabled, Decided
<1> QED BY <1>1, <1>2, <1>3, <1>4, <1>5, <1>6, <1>7, <1>8 DEF Next

\* What the engine holds against a prompt was there to be found, and a body is
\* released in the form the verdict asks for (engine.go:93-165).
THEOREM Evidence == Spec => [](EvidenceInv /\ BodyInv)
BY InitEvidence, StepEvidence, Invariance, PTL DEF Spec

\* A prompt that passed the simulator had none of the evidence it weighs, and
\* was shown without what the sanitizer replaces.
SimulatedInv ==
    simulated.Informed /\ simulated.Verdict = "PASS" =>
        /\ ~LeakStepBlocks(CurrentPrompt)
        /\ ~InjectionStepBlocks(CurrentPrompt, TRUE)
        /\ ~VectorStepBlocks(CurrentPrompt, TRUE)
        /\ simulated.FinalPrompt =
              CurrentPrompt.contents \ Redacted(CurrentPrompt, orgConfig)

\* What the simulator passed and shows is what it found nothing against
\* (simulator.go:62-160).
THEOREM SimulatedInvariance == SimSpec => []SimulatedInv
<1>1. SimInit => SimulatedInv
  BY DEF SimInit, SimulatedInv, NotSimulated
<1>2. SimulatedInv /\ [SimNext]_<<vars, simVars>> => SimulatedInv'
  <2> SUFFICES ASSUME SimulatedInv, [SimNext]_<<vars, simVars>> PROVE SimulatedInv'
    OBVIOUS
  <2>1. UNCHANGED <<prompt, orgConfig, threshold, entities>>
    BY DEF SimNext, Simulate, Next, NormalizePrompt, PromptLeak, PromptInjection,
           VectorGuard, DomainCheck, Sanitize, Decide, Check, vars, simVars
  <2>2. CurrentPrompt' = CurrentPrompt
    BY <2>1 DEF CurrentPrompt
  <2>3. CASE simulated' = simulated
    BY <2>1, <2>2, <2>3 DEF SimulatedInv, LeakStepBlocks, InjectionStepBlocks,
                            VectorStepBlocks, Enabled
  <2>4. CASE Simulate
    <3> DEFINE blocked(classified, searched) ==
                 \/ LeakStepBlocks(CurrentPrompt)
                 \/ InjectionStepBlocks(CurrentPrompt, classified)
                 \/ VectorStepBlocks(CurrentPrompt, searched)
               found(recognized) == Redacted(CurrentPrompt, orgConfig)
                                       \ (IF recognized THEN {} ELSE {"PERSON"})
    <3>1. PICK classified, searched, recognized \in Answers :
             simulated' = [Verdict     |-> IF blocked(classified, searched) THEN "BLOCK"
                                           ELSE "PASS",
                           FinalPrompt |-> IF blocked(classified, searched)
                                           THEN CurrentPrompt.contents
                                           ELSE CurrentPrompt.contents \ found(recognized),
                           Informed    |-> classified /\ searched /\ recognized]
      BY <2>4 DEF Simulate
    <3>2. classified \in BOOLEAN /\ searched \in BOOLEAN /\ recognized \in BOOLEAN
      BY DEF Answers
    <3> SUFFICES ASSUME simulated'.Informed, simulated'.Verdict = "PASS"
                 PROVE  /\ ~blocked(TRUE, TRUE)
                        /\ simulated'.FinalPrompt = CurrentPrompt.contents
                                                       \ Redacted(CurrentPrompt, orgConfig)
      BY <2>1, <2>2 DEF SimulatedInv, LeakStepBlocks, InjectionStepBlocks,
                        VectorStepBlocks, Enabled
    <3>3. classified = TRUE /\ searched = TRUE /\ recognized = TRUE
      BY <3>1, <3>2
    <3>4. ~blocked(TRUE, TRUE)
      BY <3>1, <3>3
    <3>5. simulated'.FinalPrompt = CurrentPrompt.contents \ found(TRUE)
      BY <3>1, <3>3, <3>4
    <3> QED BY <3>4, <3>5
  <2> QED BY <2>3, <2>4 DEF SimNext, simVars
<1> QED BY <1>1, <1>2, PTL DEF SimSpec

\* A prompt that passed the simulator is refused by the proxy only for
\* evidence the simulator does not weigh, or under a stricter sensitivity, for
\* every prompt, every policy and every threshold up to the engine's own
\* (simulator.go:136).
THEOREM RefusalsAreExplained == SimSpec => []UnannouncedRefusalsAreExplained
<1>1. IInv /\ EvidenceInv /\ SimulatedInv /\ threshold \in Nat => UnannouncedRefusalsAreExplained
  <2> SUFFICES ASSUME IInv, EvidenceInv, SimulatedInv, threshold \in Nat,
                      Comparable, simulated.Verdict = "PASS", Refused, threshold <= 800,
                      ~riskCtx.Obfuscated, ~riskCtx.OutOfDomain, ~riskCtx.HasPerson,
                      orgConfig.Sensitivity # "HIGH"
               PROVE  FALSE
    BY DEF UnannouncedRefusalsAreExplained
  <2>1. riskCtx \in RiskContext /\ prompt \in Prompts
    BY PipelineAssumption DEF IInv, TypeOK
  <2>2. /\ ~LeakStepBlocks(prompt) /\ ~InjectionStepBlocks(prompt, TRUE)
        /\ ~VectorStepBlocks(prompt, TRUE)
    BY DEF SimulatedInv, Comparable
  <2>3. ~riskCtx.LeakDetected
    BY <2>2 DEF EvidenceInv, LeakStepBlocks
  <2>4. PICK i \in Nat : i = riskCtx.InjectionScore /\ i < 800
    <3>1. riskCtx.InjectionScore \in Nat
      BY <2>1, ContextFields
    <3>2. CASE riskCtx.InjectionScore = 0
      BY <3>2
    <3>3. CASE riskCtx.InjectionScore # 0
      <4>1. /\ Enabled("PromptInjection")
            /\ prompt.unsafe \/ riskCtx.InjectionScore = ScanRisk(prompt.windows)
        BY <3>3 DEF EvidenceInv
      <4>2. ~prompt.unsafe /\ ~(ScanRisk(prompt.windows) >= threshold)
        BY <4>1, <2>2 DEF InjectionStepBlocks
      <4> QED BY <3>1, <4>1, <4>2
    <3> QED BY <3>2, <3>3
  <2>5. riskCtx.VectorScore = 0
    <3>1. CASE riskCtx.VectorScore # 0
      <4>1. Enabled("VectorGuard") /\ riskCtx.VectorScore = TopicRisk(prompt)
        BY <3>1 DEF EvidenceInv
      <4>2. ~(riskCtx.VectorScore > 0) /\ riskCtx.VectorScore \in Nat
        BY <4>1, <2>1, <2>2, ContextFields DEF VectorStepBlocks
      <4> QED BY <3>1, <4>2
    <3> QED BY <3>1
  <2>6. MatrixScore(riskCtx) = Percent(i)
    <3>1. BaseScore(riskCtx) = Percent(i) + 0
      <4>1. Percent(riskCtx.VectorScore) = 0
        BY <2>5 DEF Percent
      <4>2. Percent(i) \in Nat
        BY PercentType
      <4> QED BY <2>3, <2>4, <4>1, <4>2 DEF BaseScore, Points
    <3>2. Percent(i) \in Nat
      BY PercentType
    <3> QED BY <3>1, <3>2 DEF MatrixScore, Points
  <2>7. Percent(i) \in 0 .. 79
    BY <2>4, SMT DEF Percent
  <2>8. AnalyzeRisk(riskCtx, orgConfig).Action # "BLOCK"
    <3>1. PICK p \in 0 .. 79 : p = MatrixScore(riskCtx)
      BY <2>6, <2>7
    <3>2. ~(AdjustedScore(p, orgConfig.Sensitivity) >= Threshold(orgConfig.Sensitivity))
      BY <3>1 DEF AdjustedScore, Threshold
    <3>3. ~VectorHardBlock(riskCtx)
      BY <2>5 DEF VectorHardBlock
    <3> QED BY <3>1, <3>2, <3>3 DEF AnalyzeRisk
  <2> QED BY <2>8 DEF IInv, VerdictInv, Refused
<1>2. SimSpec => [](threshold \in Nat)
  <2>1. SimInit => threshold \in Nat
    BY SimulatorAssumption DEF SimInit, Scores, Unit
  <2>2. threshold \in Nat /\ [SimNext]_<<vars, simVars>> => (threshold \in Nat)'
    BY DEF SimNext, Simulate, simVars
  <2> QED BY <2>1, <2>2, PTL DEF SimSpec
<1> QED BY <1>1, <1>2, SimulatorLeavesThePipelineAlone, Invariance, Evidence,
           SimulatedInvariance, PTL

\* What both let pass leaves in the form the simulator showed, though only the
\* engine's MODIFY makes the proxy take the sanitized text
\* (simulator.go:176-199, handler.go:248-261).
THEOREM SimulatedIsForwarded == SimSpec => []SimulatedPromptIsForwarded
<1>1. IInv /\ BodyInv /\ SimulatedInv => SimulatedPromptIsForwarded
  <2> SUFFICES ASSUME IInv, BodyInv, SimulatedInv, Comparable,
                      simulated.Verdict = "PASS", Released,
                      mapping = Redacted(prompt, orgConfig)
               PROVE  finalBody = simulated.FinalPrompt
    BY DEF SimulatedPromptIsForwarded
  <2>1. simulated.FinalPrompt = prompt.contents \ mapping
    BY DEF SimulatedInv, Comparable
  <2>2. CASE verdict.Action = "MODIFY"
    BY <2>1, <2>2 DEF BodyInv, Released
  <2>3. CASE verdict.Action = "PASS"
    <3>1. finalBody = prompt.contents
      BY <2>3 DEF BodyInv, Released
    <3>2. finalBody \cap mapping = {}
      <4>1. verdict = AnalyzeRisk(riskCtx, orgConfig)
        BY DEF Released, IInv, VerdictInv
      <4>2. ~HasPII(riskCtx)
        BY <4>1, <2>3 DEF AnalyzeRisk
      <4>3. riskCtx.PIICount = 0
        BY <4>2 DEF HasPII, IInv, TypeOK, RiskContext
      <4> QED BY <4>3 DEF IInv, SignalsInv, Released, Decided
    <3> QED BY <2>1, <3>1, <3>2
  <2> QED BY <2>2, <2>3 DEF Released
<1> QED BY <1>1, SimulatorLeavesThePipelineAlone, Invariance, Evidence,
           SimulatedInvariance, PTL
=============================================================================
