--------------------------- MODULE GatewayContract ---------------------------
(***************************************************************************)
(* What the proxy promises of a prompt, apart from how it keeps it: a      *)
(* request may be refused at any time, and its prompt reaches the provider *)
(* at most once, in the form one policy allows, that policy having been    *)
(* the organization's at some moment while the request was open.           *)
(***************************************************************************)
EXTENDS PolicyEngine

CONSTANTS Requests, Orgs, PromptSet, ConfigSet

VARIABLES
    policy,   \* policy[o]: the organization's policy
    status,   \* status[r]: "idle", "open" or "closed"
    org,      \* org[r]: whose request r is, once it is open
    prompt,   \* prompt[r]: what it asks
    inForce,  \* inForce[r]: the policies its organization had since it opened
    passed    \* passed[r]: the bodies the provider got

vars == <<policy, status, org, prompt, inForce, passed>>

Init ==
    /\ policy \in [Orgs -> ConfigSet]
    /\ status = [r \in Requests |-> "idle"]
    /\ org \in [Requests -> Orgs]
    /\ prompt \in [Requests -> PromptSet]
    /\ inForce = [r \in Requests |-> {}]
    /\ passed = [r \in Requests |-> <<>>]

Open(r) ==
    /\ status[r] = "idle"
    /\ status' = [status EXCEPT ![r] = "open"]
    /\ inForce' = [inForce EXCEPT ![r] = {policy[org[r]]}]
    /\ UNCHANGED <<policy, org, prompt, passed>>

SetPolicy(o, c) ==
    /\ policy' = [policy EXCEPT ![o] = c]
    /\ inForce' = [r \in Requests |->
                     IF status[r] = "open" /\ org[r] = o
                     THEN inForce[r] \cup {c} ELSE inForce[r]]
    /\ UNCHANGED <<status, org, prompt, passed>>

Pass(r) ==
    /\ status[r] = "open"
    /\ passed[r] = <<>>
    /\ \E c \in inForce[r] :
          /\ Decision(prompt[r], c).Action # "BLOCK"
          /\ passed' = [passed EXCEPT ![r] = <<ForwardBody(prompt[r], c)>>]
    /\ UNCHANGED <<policy, status, org, prompt, inForce>>

Close(r) ==
    /\ status[r] = "open"
    /\ status' = [status EXCEPT ![r] = "closed"]
    /\ UNCHANGED <<policy, org, prompt, inForce, passed>>

Next == \/ \E r \in Requests : Open(r) \/ Pass(r) \/ Close(r)
        \/ \E o \in Orgs, c \in ConfigSet : SetPolicy(o, c)

Spec == Init /\ [][Next]_vars
=============================================================================
