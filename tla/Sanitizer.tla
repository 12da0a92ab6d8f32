----------------------------- MODULE Sanitizer -----------------------------
(***************************************************************************)
(* Sanitize and Rehydrate (pkg/sanitizer) on texts.  A text is a sequence  *)
(* of atoms: what one of the patterns matches as a whole (an email, an     *)
(* IBAN, a key), the word that introduces a password or a name, candidates *)
(* for either, a random string, anything else, and the space between       *)
(* words.  A placeholder is an atom too, its number included.              *)
(***************************************************************************)
EXTENDS Naturals, SequencesExt

Atom(kind, n) == [kind |-> kind, n |-> n]

Texts == Seq([kind : STRING, n : Nat])

Space == Atom("space", 0)

Placeholders == {"[EMAIL]", "[PHONE]", "[IBAN_MASKED]", "[CREDIT_CARD]", "[PASSWORD_CONTEXT]",
                 "[PERSON_NAME]", "[KEY]", "[HIGH_ENTROPY_SECRET]"}

IsPlaceholder(atom) == atom.kind \in Placeholders

\* The elements of s that are in S, in their order.
Kept(s, S) == FoldLeft(LAMBDA kept, x : IF x \in S THEN Append(kept, x) ELSE kept, <<>>, s)

\* The map f with the entries of g set.
Updated(f, g) ==
    [p \in DOMAIN f \cup DOMAIN g |-> IF p \in DOMAIN g THEN g[p] ELSE f[p]]

\* strings.Fields
Extended(words, atom) ==
    IF atom = Space THEN Append(words, <<>>)
    ELSE Append(Front(words), Append(Last(words), atom))

Fields(text) ==
    LET words == FoldLeft(Extended, <<(<<>>)>>, text)
    IN  Kept(words, ToSet(words) \ {<<>>})

Places(value, text) ==
    {i \in 1 .. Len(text) + 1 - Len(value) : SubSeq(text, i, i + Len(value) - 1) = value}

\* Begins with "[" and ends with "]".
Bracketed(word) == IsPlaceholder(Head(word)) /\ IsPlaceholder(Last(word))

\* A scan is the text so far and the mapping from placeholders to values.
Scan(text) == [text |-> text, mapping |-> <<>>]

\* strings.Replace(sanitized, value, placeholder, 1): the first occurrence,
\* wherever it is.
Substituted(scan, value, placeholder) ==
    LET places == Places(value, scan.text)
    IN  [text    |-> IF places = {} THEN scan.text
                     ELSE ReplaceSubSeqAt(Min(places), <<placeholder>>, value, scan.text),
         mapping |-> Updated(scan.mapping, [p \in {placeholder} |-> value])]

\* The loop over the matches of a pattern, each with its placeholder.
Replaced(scan, values, placeholders) ==
    FoldLeftDomain(LAMBDA s, i : Substituted(s, values[i], placeholders[i]), scan, values)

\* Mistake: every placeholder of a kind has the same number.
NumberedOne(scan, values, kind) ==
    Replaced(scan, values, [i \in DOMAIN values |-> Atom(kind, 1)])

Numbered(scan, values, kind) ==
    Replaced(scan, values, [i \in DOMAIN values |-> Atom(kind, i)])

\* Mistake: a value that occurs twice is found once.
FoundOnce(text, kind) ==
    LET found == {atom \in ToSet(text) : atom.kind = kind}
    IN  [i \in 1 .. Cardinality(found) |-> <<SetToSeq(found)[i]>>]

\* FindAllString: every match, in the order of the text.
Found(text, kind) ==
    LET found == Kept(text, {atom \in ToSet(text) : atom.kind = kind})
    IN  [i \in DOMAIN found |-> <<found[i]>>]

RedactEmails(scan) == Numbered(scan, Found(scan.text, "email"), "[EMAIL]")

RedactPhones(scan) == Numbered(scan, Found(scan.text, "phone"), "[PHONE]")

\* One placeholder for all of them.
RedactIBANs(scan) ==
    LET values == Found(scan.text, "iban")
    IN  Replaced(scan, values, [i \in DOMAIN values |-> Atom("[IBAN_MASKED]", 0)])

RedactCards(scan) == Numbered(scan, Found(scan.text, "card"), "[CREDIT_CARD]")

\* passwordContextRegex: "password:" and the rest of the word, or the next one.
\* A match goes on after its value.
PasswordStep(state, atom) ==
    CASE state.open = "value" /\ atom # Space ->
            [state EXCEPT !.values = Append(Front(@), Append(Last(@), atom))]
      [] state.open = "keyword" /\ atom # Space ->
            [open |-> "value", values |-> Append(state.values, <<atom>>)]
      [] state.open = "keyword" /\ atom = Space -> state
      [] OTHER ->
            [state EXCEPT !.open = IF atom.kind = "keyword" THEN "keyword" ELSE "no"]

Passwords(text) == FoldLeft(PasswordStep, [open |-> "no", values |-> <<>>], text).values

RedactPasswords(scan) ==
    LET values == Passwords(scan.text)
    IN  FoldLeftDomain(
            LAMBDA s, i : IF Bracketed(values[i]) THEN s
                          ELSE Substituted(s, values[i], Atom("[PASSWORD_CONTEXT]", i)),
            scan, values)

\* ScanNER: the name after a title.
TitledNames(text) ==
    LET found == Kept([i \in DOMAIN text |-> i],
                      {i \in DOMAIN text : /\ text[i].kind = "name" /\ i > 2
                                           /\ text[i - 1] = Space /\ text[i - 2].kind = "title"})
    IN  [i \in DOMAIN found |-> <<text[found[i]]>>]

\* What Presidio reports, every name when it answers, and what ScanNER does.
Names(text, presidio) ==
    (IF presidio THEN Found(text, "name") ELSE <<>>) \o TitledNames(text)

RedactNames(scan, presidio) ==
    LET names == Names(scan.text, presidio)
    IN  FoldLeftDomain(
            LAMBDA s, i : IF Places(names[i], s.text) # {}
                          THEN Substituted(s, names[i], Atom("[PERSON_NAME]", i)) ELSE s,
            scan, names)

RedactKeys(scan) == Numbered(scan, Found(scan.text, "key"), "[KEY]")

\* IsHighEntropy of a word: a numbered placeholder with something at its edge
\* has the digit and the character classes that make a secret.
IsHighEntropy(word) ==
    /\ ~Bracketed(word)
    /\ \E i \in DOMAIN word : \/ word[i].kind \in {"random", "key"}
                              \/ IsPlaceholder(word[i]) /\ word[i].kind # "[IBAN_MASKED]"

RedactHighEntropy(scan) ==
    LET words == Fields(scan.text)
    IN  Numbered(scan, Kept(words, {word \in ToSet(words) : IsHighEntropy(word)}),
                 "[HIGH_ENTROPY_SECRET]")

When(on, pass(_), scan) == IF on THEN pass(scan) ELSE scan

\* on: the switches of the policy; presidio: whether it answers.
Sanitize(text, on, presidio) ==
    LET emails  == When("EmailRedaction" \in on, RedactEmails, Scan(text))
        phones  == When("PhoneRedaction" \in on, RedactPhones, emails)
        finance == When("EmailRedaction" \in on, LAMBDA s : RedactCards(RedactIBANs(s)), phones)
        context == When(on \cap {"EntropyScanner", "ApiKeyProtection"} # {}, RedactPasswords, finance)
        names   == When("NerEnabled" \in on, LAMBDA s : RedactNames(s, presidio), context)
        secrets == When("ApiKeyProtection" \in on, RedactKeys, names)
    IN  When("EntropyScanner" \in on, RedactHighEntropy, secrets)

\* strings.ReplaceAll
ReplacedAll(text, placeholder, value) ==
    FoldLeft(LAMBDA out, atom : out \o (IF atom = placeholder THEN value ELSE <<atom>>), <<>>, text)

\* Rehydrate, with the placeholders in the order the map is walked in.
Rehydrate(text, mapping, order) ==
    FoldLeft(LAMBDA t, placeholder : ReplacedAll(t, placeholder, mapping[placeholder]), text, order)
=============================================================================
