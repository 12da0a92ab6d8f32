----------------------------- MODULE MCPipeline -----------------------------
(* Inputs of Pipeline and Simulator for TLC: scores on both sides of every threshold. *)
EXTENDS Simulator

\* 0, 55, 60 (rounded up), 90 and, uncapped, 120 percent.
MCWindows == {{{}}, {{"conflict", "persuasion"}, {}},
              {{"role", "secrecy", "persuasion"}}, {{"role", "conflict"}},
              {Heuristics, {"role"}}}

MCPrompts == [obfuscated : BOOLEAN, leak : BOOLEAN, windows : MCWindows,
              unsafe : BOOLEAN, topic : {390, 450, 830}, offTopic : BOOLEAN,
              contents : {{}, {"EMAIL", "CODE"}, {"PERSON", "MEDICAL"}}]

MCConfigs == [Sensitivity : Sensitivities,
              On : {DefaultConfig.On, Switches, {"EmailRedaction", "NerEnabled"}}]
=============================================================================
