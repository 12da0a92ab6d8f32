----------------------------- MODULE Simulator -----------------------------
(***************************************************************************)
(* SimulatorHandler.Simulate (pkg/api/simulator.go): the administrator's   *)
(* dry run of a prompt.  It repeats the checks of ServeHTTP in code of its *)
(* own, stops at the first that objects, and knows no total risk.  Here it *)
(* runs on the prompt that Pipeline has decided; the two share nothing, so *)
(* one order of their steps stands for all.                                *)
(***************************************************************************)
EXTENDS Pipeline

CONSTANT Thresholds  \* values of InjectionThreshold, which the proxy ignores

ASSUME SimulatorAssumption == Thresholds \subseteq Scores

VARIABLES
    threshold,  \* orgConfig.InjectionThreshold
    entities,   \* whether the prompt is written in HTML entities
    simulated   \* the response of the simulator

simVars == <<threshold, entities, simulated>>

NotSimulated == [Verdict |-> "NONE", FinalPrompt |-> {}, Informed |-> FALSE]

SimInit ==
    /\ Init
    /\ threshold \in Thresholds
    /\ entities \in BOOLEAN
    /\ simulated = NotSimulated

\* NormalizePrompt decodes entities without calling that obfuscation, and the
\* simulator goes on with the decoded text only if it does.
CurrentPrompt ==
    IF prompt.obfuscated \/ ~entities THEN prompt
    ELSE [prompt EXCEPT !.leak = FALSE, !.windows = {{}}, !.unsafe = FALSE,
                        !.topic = 0, !.contents = {}]

LeakStepBlocks(seen) == Enabled("PromptLeaking") /\ seen.leak

InjectionStepBlocks(seen, classified) ==
    /\ Enabled("PromptInjection")
    /\ \/ classified /\ seen.unsafe
       \/ ScanRisk(seen.windows) >= threshold

\* Mistake: the guard's answer counts only above the engine's hard block.
VectorStepBlocksHard(seen, searched) ==
    Enabled("VectorGuard") /\ searched /\ TopicRisk(seen) > 820

VectorStepBlocks(seen, searched) ==
    Enabled("VectorGuard") /\ searched /\ TopicRisk(seen) > 0

\* Informed: every service that was asked answered.  A refusal shows the
\* prompt as it was scanned.
Simulate ==
    \E classified, searched, recognized \in Answers :
      LET seen    == CurrentPrompt
          blocked == \/ LeakStepBlocks(seen)
                     \/ InjectionStepBlocks(seen, classified)
                     \/ VectorStepBlocks(seen, searched)
          found   == Redacted(seen, orgConfig) \ (IF recognized THEN {} ELSE {"PERSON"})
      IN  /\ stage = "done"
          /\ simulated = NotSimulated
          /\ simulated' = [Verdict     |-> IF blocked THEN "BLOCK" ELSE "PASS",
                           FinalPrompt |-> IF blocked THEN seen.contents
                                           ELSE seen.contents \ found,
                           Informed    |-> classified /\ searched /\ recognized]
          /\ UNCHANGED <<vars, threshold, entities>>

SimNext == \/ Next /\ UNCHANGED simVars
           \/ Simulate

SimSpec == SimInit /\ [][SimNext]_<<vars, simVars>>

-----------------------------------------------------------------------------
(* Properties *)

\* The simulator was shown the text the proxy decides on, and every service
\* it asked answered.
Comparable == simulated.Informed /\ CurrentPrompt = prompt

\* "Simulator stops too for accuracy" (simulator.go:136): a prompt the
\* simulator lets pass is refused by the proxy only for evidence the simulator
\* does not weigh: obfuscation, an unknown domain, a name, or a sensitivity
\* that lowers the bar below the threshold of the injection step.
UnannouncedRefusalsAreExplained ==
    Comparable /\ simulated.Verdict = "PASS" /\ Refused /\ threshold <= 800 =>
        \/ riskCtx.Obfuscated \/ riskCtx.OutOfDomain \/ riskCtx.HasPerson
        \/ orgConfig.Sensitivity = "HIGH"

\* What both let pass leaves in the form the simulator showed, although the
\* proxy takes the sanitized text only when the engine says MODIFY and the
\* simulator always (simulator.go:176-199, handler.go:248-261).
SimulatedPromptIsForwarded ==
    /\ Comparable /\ simulated.Verdict = "PASS"
    /\ Released /\ mapping = Redacted(prompt, orgConfig)
    => finalBody = simulated.FinalPrompt
=============================================================================
