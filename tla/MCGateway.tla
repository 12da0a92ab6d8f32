------------------------------ MODULE MCGateway ------------------------------
(* Inputs of Gateway for TLC. *)
EXTENDS Gateway, TLC

\* An injection score of 60 (rounded up): tolerated at MEDIUM, refused at HIGH
\* with a risk of 70.
Suspicious == [obfuscated |-> FALSE, leak |-> FALSE,
               windows |-> {{"role", "secrecy", "persuasion"}}, unsafe |-> FALSE,
               topic |-> 0, offTopic |-> FALSE, contents |-> {}]

\* The same with an address in it, which MEDIUM has redacted.
Personal == [Suspicious EXCEPT !.contents = {"EMAIL"}]

Medium == DefaultConfig
High   == [DefaultConfig EXCEPT !.Sensitivity = "HIGH"]
\* Redacts nothing and does not look out for anomalies.
Lax    == [DefaultConfig EXCEPT !.On = {"PromptInjection", "OutputControl"}]
\* Counts the refusals of a user without looking whether he is locked out.
Heedless == [High EXCEPT !.On = {"PromptInjection"}]

OnePrompt    == {Personal}
TwoPrompts   == {Suspicious, Personal}
JustMedium   == {Medium}
TwoConfigs   == {Medium, High}
AllConfigs   == {Medium, High, Lax}
ThreeConfigs == {Medium, High, Heedless}

Symmetry == Permutations(Requests) \cup Permutations(Orgs)
=============================================================================
