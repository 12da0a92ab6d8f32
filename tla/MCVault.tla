------------------------------ MODULE MCVault ------------------------------
(* Prompts for TLC: all texts of two of the words below and of three of    *)
(* the Close, and a second request next to them.                           *)
EXTENDS Vault

CONSTANTS first, second

Email(n) == Atom("email", n)
Comma    == Atom("word", 0)
Keyword  == Atom("keyword", 0)
Password == Atom("value", 1)

\* What reaches beyond its own word, or depends on what is next to it.
Close == {<<Email(1)>>, <<Email(1), Comma>>, <<Atom("key", 1)>>, <<Keyword>>, <<Keyword, Email(1)>>,
          <<Password>>, <<Atom("title", 0)>>, <<Atom("name", 1)>>, <<Atom("random", 1)>>,
          <<Email(1), Comma, Atom("random", 1), Comma, Email(2)>>, <<Email(1), Password, Email(2)>>}

Words == Close \cup
         {<<Email(2)>>, <<Atom("[EMAIL]", 1)>>, <<Atom("iban", 1)>>, <<Atom("iban", 2)>>, <<Password, Comma>>,
          <<Atom("phone", 1), Comma, Atom("card", 1)>>}

Joined(words) ==
    FlattenSeq([i \in DOMAIN words |-> IF i = 1 THEN words[i] ELSE <<Space>> \o words[i]])

MCPrompts ==
    {first :> Joined(words) : words \in [1 .. 2 -> Words] \cup [1 .. 3 -> Close]}
    \cup {first :> word @@ second :> <<Email(3)>> : word \in Words}

MCReplies == {<<Email(4)>>, <<Atom("[EMAIL]", 1), Space, Email(4), Space, Atom("key", 2)>>}

MCConfigs ==
    {{"EmailRedaction", "PhoneRedaction", "ApiKeyProtection", "TokenVault", "OutputControl"},
     {"EmailRedaction", "NerEnabled", "EntropyScanner", "TokenVault"},
     {"ApiKeyProtection", "NerEnabled", "OutputControl"}}
=============================================================================
