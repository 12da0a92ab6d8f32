------------------------------- MODULE Vault -------------------------------
(***************************************************************************)
(* What becomes of the values of a prompt on the way to the provider and   *)
(* back: the body that is sent, the mapping in the token vault of Redis,   *)
(* the scan of the answer and its rehydration (pkg/proxy/handler.go,       *)
(* pkg/cache/redis.go), for requests the policy does not refuse.           *)
(***************************************************************************)
EXTENDS Sanitizer

CONSTANTS
    Prompts,    \* what is asked together: functions from request ids to texts
    Replies,    \* what the provider may say of itself
    Configs,    \* sets of switches
    Failures    \* services that may fail, of {"presidio", "redis"}

ASSUME VaultAssumption ==
    /\ \A texts \in Prompts : \A r \in DOMAIN texts : texts[r] \in Texts
    /\ Replies \subseteq Texts
    /\ Failures \subseteq {"presidio", "redis"}

VARIABLES
    on,       \* the switches of the organization's policy
    pc,       \* what each request does next
    prompt,   \* the body of each request, by its fresh request id
    mapping,  \* what Sanitize replaced in it
    body,     \* the body that goes out
    reply,    \* the provider's answer, as read
    answer,   \* the answer on its way to the client
    vault,    \* the hash under vault:<request id>
    streamed, \* history: the answer was relayed as a stream
    intact    \* history: the vault was written and read

Requests == DOMAIN prompt

vars == <<on, pc, prompt, mapping, body, reply, answer, vault, streamed, intact>>

Nothing == <<>>

Init ==
    /\ on \in Configs
    /\ prompt \in Prompts
    /\ pc = [r \in Requests |-> "sanitize"]
    /\ mapping = [r \in Requests |-> Nothing]
    /\ body = mapping /\ reply = mapping /\ answer = mapping /\ vault = mapping
    /\ streamed = [r \in Requests |-> FALSE]
    /\ intact = [r \in Requests |-> TRUE]

Goto(r, from, to) == pc[r] = from /\ pc' = [pc EXCEPT ![r] = to]

\* The verdict is MODIFY as soon as something was replaced.
SanitizeRequest(r) ==
    /\ Goto(r, "sanitize", "store")
    /\ \E presidio \in {TRUE} \cup {"presidio" \notin Failures} :
        LET scan == Sanitize(prompt[r], on, presidio)
        IN  /\ mapping' = [mapping EXCEPT ![r] = scan.mapping]
            /\ body' = [body EXCEPT ![r] = IF scan.mapping # Nothing THEN scan.text ELSE prompt[r]]
    /\ UNCHANGED <<on, prompt, reply, answer, vault, streamed, intact>>

\* Mistake: one vault for all.
VaultKeyShared(r) == CHOOSE q \in Requests : TRUE

VaultKey(r) == r

\* SetVault: HSET adds to what is there.
SetVault(r) ==
    /\ Goto(r, "store", "await")
    /\ \/ /\ vault' = IF "TokenVault" \in on
                      THEN [vault EXCEPT ![VaultKey(r)] = Updated(@, mapping[r])] ELSE vault
          /\ UNCHANGED intact
       \/ /\ "redis" \in Failures
          /\ intact' = [intact EXCEPT ![r] = FALSE]
          /\ UNCHANGED vault
    /\ UNCHANGED <<on, prompt, mapping, body, reply, answer, streamed>>

\* Mistake: the finding is logged and the body left as it is.
ScannedOnly(text, presidio) == text

\* The scan numbers its placeholders from 1 again and forgets its mapping.
Scanned(text, presidio) ==
    IF "OutputControl" \in on THEN Sanitize(text, on, presidio).text ELSE text

\* The provider repeats the prompt, or speaks for itself; a stream is relayed
\* as it comes.
ForwardToProvider(r) ==
    /\ \E text \in {body[r]} \cup Replies, presidio \in {TRUE} \cup {"presidio" \notin Failures} :
          /\ reply' = [reply EXCEPT ![r] = text]
          /\ \/ /\ Goto(r, "await", "rehydrate")
                /\ answer' = [answer EXCEPT ![r] = Scanned(text, presidio)]
                /\ UNCHANGED streamed
             \/ /\ Goto(r, "await", "done")
                /\ answer' = [answer EXCEPT ![r] = text]
                /\ streamed' = [streamed EXCEPT ![r] = TRUE]
    /\ UNCHANGED <<on, prompt, mapping, body, vault, intact>>

\* Any error up to here, or an answer the guard refuses, ends in an error page.
ProviderFails(r) ==
    /\ Goto(r, "await", "failed")
    /\ UNCHANGED <<on, prompt, mapping, body, reply, answer, vault, streamed, intact>>

\* GetVault and Rehydrate; the map is walked in any order.
RehydrateAnswer(r) ==
    /\ Goto(r, "rehydrate", "done")
    /\ \/ /\ "TokenVault" \in on
          /\ \E order \in SetToSeqs(DOMAIN vault[VaultKey(r)]) :
                answer' = [answer EXCEPT ![r] = Rehydrate(@, vault[VaultKey(r)], order)]
          /\ UNCHANGED intact
       \/ /\ "TokenVault" \notin on \/ "redis" \in Failures
          /\ intact' = [intact EXCEPT ![r] = FALSE]
          /\ UNCHANGED answer
    /\ UNCHANGED <<on, prompt, mapping, body, reply, vault, streamed>>

Next ==
    \E r \in Requests :
        \/ SanitizeRequest(r) \/ SetVault(r) \/ ForwardToProvider(r)
        \/ ProviderFails(r) \/ RehydrateAnswer(r)

Spec == Init /\ [][Next]_vars

-----------------------------------------------------------------------------
(* Properties *)

AtomsOf(text) == ToSet(text)

\* What a pattern recognizes wherever it stands, with these switches.
SearchedKinds ==
    (IF "EmailRedaction" \in on THEN {"email", "iban", "card"} ELSE {})
    \cup (IF "PhoneRedaction" \in on THEN {"phone"} ELSE {})
    \cup (IF "ApiKeyProtection" \in on THEN {"key"} ELSE {})

\* What has something before it and behind it in its word.
Inside(text) ==
    UNION {{word[i] : i \in 2 .. Len(word) - 1} : word \in AtomsOf(Fields(text))}

Values == {"email", "phone", "iban", "card", "key", "random", "value", "name"}

OccursOnce(atom, text) == Cardinality({i \in DOMAIN text : text[i] = atom}) = 1

PasswordAtoms(text) == UNION {AtomsOf(value) : value \in AtomsOf(Passwords(text))}

\* Passes for a placeholder as soon as its two ends are replaced.
Enclosed(value) ==
    {Head(value).kind, Last(value).kind} \subseteq SearchedKinds \cup Placeholders

\* The passwords and names the context gives away; one that also stands
\* elsewhere in the text is replaced there and left where it was found, and a
\* title that was taken for a password announces no name.
SearchedInContext(text) ==
    {atom \in AtomsOf(text) :
        /\ OccursOnce(atom, text)
        /\ \/ /\ on \cap {"EntropyScanner", "ApiKeyProtection"} # {}
              /\ atom.kind = "value"
              /\ \E value \in AtomsOf(Passwords(text)) :
                    atom \in AtomsOf(value) /\ ~Enclosed(value)
           \/ /\ "NerEnabled" \in on
              /\ <<atom>> \in AtomsOf(TitledNames(text))
              /\ \A taken \in PasswordAtoms(text) : taken.kind # "title"}

\* No value that a pattern matches is in a text, though it stood there several
\* times, glued to other text, or inside a value another pattern matches.
NoPatternMatches(text) == \A atom \in AtomsOf(text) : atom.kind \notin SearchedKinds

\* A random string is left only inside a word, which passes for a placeholder
\* when what is at its two ends was replaced (entropy.go:41-44).
NoSecretStandsOut(text, original) ==
    "EntropyScanner" \in on =>
        \A atom \in AtomsOf(text) :
            atom.kind \in {"random", "key"} => atom \in Inside(original)

\* The body that goes out holds nothing the patterns match, no secret but such
\* as that, and no password or name that stood once in the prompt
\* (sanitizer.go:62-233, handler.go:257-261).
NothingFoundLeaves ==
    \A r \in Requests :
        pc[r] = "await" =>
            /\ NoPatternMatches(body[r])
            /\ NoSecretStandsOut(body[r], prompt[r])
            /\ AtomsOf(body[r]) \cap SearchedInContext(prompt[r]) = {}

\* What the client reads are its own values or the provider's, though the
\* placeholders of all requests have the same names (handler.go:267, 483-492).
OwnValuesOnly ==
    \A r \in Requests :
        \A atom \in AtomsOf(answer[r]) :
            atom.kind \in Values => atom \in AtomsOf(prompt[r]) \cup AtomsOf(reply[r])

\* With output control, a value the provider brings up of itself does not
\* reach the client, rehydration or not, unless it is streamed
\* (handler.go:418-421, 455-479).
GeneratedLeaksAreCaught ==
    \A r \in Requests :
        "OutputControl" \in on /\ ~streamed[r] =>
            \A atom \in AtomsOf(answer[r]) :
                atom.kind \in SearchedKinds => atom \in AtomsOf(prompt[r])

\* A prompt that the provider repeats comes back as it was, in whatever order
\* the map is walked, unless it holds two IBANs or the very placeholder that one
\* of its values was given, the entropy scan took a placeholder for a secret, or
\* the scan of the answer finds what that of the prompt left and gives it a name
\* of the vault (sanitizer.go:88-92, 205-216, 328-334, handler.go:455-479).
RoundTrip ==
    \A r \in Requests :
        /\ pc[r] = "done" /\ intact[r] /\ ~streamed[r]
        /\ reply[r] = body[r]
        /\ Cardinality({atom \in AtomsOf(prompt[r]) : atom.kind = "iban"}) <= 1
        /\ DOMAIN mapping[r] \cap AtomsOf(prompt[r]) = {}
        /\ \A p \in DOMAIN mapping[r] : \A atom \in AtomsOf(mapping[r][p]) : ~IsPlaceholder(atom)
        /\ Scanned(reply[r], TRUE) = reply[r]
        => answer[r] = prompt[r]
=============================================================================
