---------------------------- MODULE Vault_proofs ----------------------------
(***************************************************************************)
(* Proofs about Vault, for any prompts, answers and switches of a policy,  *)
(* of any length and number.                                               *)
(*                                                                         *)
(* The passes of Sanitize are folds over sequences, which no backend can   *)
(* evaluate.  So each fold is first shown to be the last of a row of       *)
(* values, each made of the one before and the next element (FoldSteps and *)
(* the lemmas named ...Steps); what the fold keeps is then shown step by   *)
(* step.  FoundGone is where the passes could go wrong: the loop replaces  *)
(* the first occurrence of each match, which must be that match.           *)
(*                                                                         *)
(* For secrets and passwords it need not be: a value may occur in a word   *)
(* that was left.  RowClears shows that what is left then is harmless all  *)
(* the same, when the values stand one behind the other; that they do is   *)
(* FieldsPlaces for words and PasswordsPlaces for passwords, whose places  *)
(* are those of the prompt (SecretsKept, PasswordGone, NameGone).          *)
(*                                                                         *)
(* The invariant says of which atoms the texts of a request are made: its  *)
(* own, placeholders, what the provider said.  That of a scanned text is   *)
(* SanitizeIn.                                                             *)
(*                                                                         *)
(* RoundTrip rests on a second one, JInv.  What a text means by a mapping  *)
(* is the text with the value of each placeholder in its place: that is    *)
(* what Rehydrate returns in any order (RehydrateExpands), each pass of    *)
(* Sanitize leaves it as it was (SanitizeRestores), and a scan that leaves *)
(* a text as it is does so too when Presidio fails (Rescan).               *)
(***************************************************************************)
EXTENDS Vault, FiniteSetTheorems, SequenceTheorems, WellFoundedInduction, TLAPS

-----------------------------------------------------------------------------
(* Folds *)

\* Induction up to n, for sets.
LEMMA Climb ==
    ASSUME NEW n \in Nat, NEW G, 0 \in G, \A m \in 1 .. n : m - 1 \in G => m \in G
    PROVE  n \in G
<1>. SUFFICES ASSUME n \notin G PROVE FALSE
  OBVIOUS
<1>. DEFINE bad == {m \in 0 .. n : m \notin G}
            less == {ss \in Nat \X Nat : ss[1] < ss[2]}
<1>1. bad \subseteq Nat /\ n \in bad
  OBVIOUS
<1>2. PICK i \in bad : \A j \in bad : ~(<<j, i>> \in less)
  <2>1. IsWellFoundedOn(less, Nat)
    BY NatLessThanWellFounded DEF OpToRel
  <2>. HIDE DEF less, bad
  <2>. QED
    BY <1>1, <2>1, WFMin
<1>3. i \in 1 .. n /\ i - 1 \in Nat /\ i - 1 \in 0 .. n
  OBVIOUS
<1>4. i - 1 \notin bad
  <2>1. <<i - 1, i>> \in less
    BY <1>3
  <2>. QED
    BY <1>2, <2>1
<1>. QED
  BY <1>3, <1>4

\* The greatest element of a set that is bounded by one of its own.
LEMMA MaxIs ==
    ASSUME NEW S, S \subseteq Nat, NEW m \in S, \A x \in S : x <= m
    PROVE  Max(S) = m
<1>1. \E x \in S : \A y \in S : x >= y
  OBVIOUS
<1>2. Max(S) \in S /\ \A y \in S : Max(S) >= y
  BY <1>1 DEF Max
<1>3. Max(S) \in Nat /\ m \in Nat /\ Max(S) >= m /\ Max(S) <= m
  BY <1>2
<1>. QED
  BY <1>3

LEMMA Segment ==
    ASSUME NEW n \in Nat, NEW m \in 1 .. n
    PROVE  /\ Max(1 .. m) = m
           /\ (1 .. m) \ {m} = 1 .. (m - 1)
           /\ (1 .. m) # {}
           /\ (1 .. m) \in SUBSET (1 .. n)
           /\ (1 .. (m - 1)) \in SUBSET (1 .. n)
<1>1. (1 .. m) \subseteq Nat /\ m \in 1 .. m /\ \A x \in 1 .. m : x <= m
  OBVIOUS
<1>2. Max(1 .. m) = m
  BY <1>1, MaxIs
<1>3. (1 .. m) \ {m} = 1 .. (m - 1)
  OBVIOUS
<1>4. (1 .. m) \in SUBSET (1 .. n) /\ (1 .. (m - 1)) \in SUBSET (1 .. n)
  OBVIOUS
<1>5. (1 .. m) # {}
  BY <1>1
<1>6. QED
  BY <1>2, <1>3, <1>4, <1>5, Zenon

\* A nonempty set of naturals up to n has a greatest one.
LEMMA HasMax ==
    ASSUME NEW n \in Nat, NEW S \in SUBSET (1 .. n), S # {}
    PROVE  Max(S) \in S
<1>. DEFINE G == {m \in 0 .. n : \A t \in SUBSET (1 .. m) : t # {} => Max(t) \in t}
<1>1. 0 \in G
  <2>1. 1 .. 0 = {}
    OBVIOUS
  <2>2. \A t \in SUBSET (1 .. 0) : t = {}
    BY <2>1
  <2>3. \A t \in SUBSET (1 .. 0) : t # {} => Max(t) \in t
    BY <2>2
  <2>. QED
    BY <2>3
<1>2. ASSUME NEW m \in 1 .. n, m - 1 \in G PROVE m \in G
  <2>1. SUFFICES ASSUME NEW t \in SUBSET (1 .. m), t # {} PROVE Max(t) \in t
    OBVIOUS
  <2>2. CASE m \in t
    <3>1. t \subseteq Nat /\ \A x \in t : x <= m
      OBVIOUS
    <3>. QED
      BY <2>2, <3>1, MaxIs
  <2>3. CASE m \notin t
    <3>1. t \in SUBSET (1 .. (m - 1))
      BY <2>3
    <3>. QED
      BY <3>1, <1>2, <2>1
  <2>. QED
    BY <2>2, <2>3
<1>3. n \in G
  <2>. HIDE DEF G
  <2>. QED
    BY <1>1, <1>2, Climb
<1>. QED
  BY <1>3

\* The recursion of MapThenFoldSet, its steps given as a function.
Recursion(n, base, step, g) ==
    \A t \in SUBSET (1 .. n) :
       g[t] = IF t = {} THEN base ELSE step[<<Max(t), g[t \ {Max(t)}]>>]

\* The recursion of MapThenFoldSet has a solution.
LEMMA FoldExists ==
    ASSUME NEW n \in Nat, NEW T, NEW base \in T, NEW step \in [(1 .. n) \X T -> T]
    PROVE  \E g \in [SUBSET (1 .. n) -> T] : Recursion(n, base, step, g)
<1>. DEFINE Solves(m, g) == Recursion(m, base, step, g)
            G == {m \in 0 .. n : \E g \in [SUBSET (1 .. m) -> T] : Solves(m, g)}
<1>1. 0 \in G
  <2>1. [t \in SUBSET (1 .. 0) |-> base] \in [SUBSET (1 .. 0) -> T]
    OBVIOUS
  <2>0. \A t \in SUBSET (1 .. 0) : t = {}
    <3>1. 1 .. 0 = {}
      OBVIOUS
    <3>. QED
      BY <3>1
  <2>2. Solves(0, [t \in SUBSET (1 .. 0) |-> base])
    BY <2>0 DEF Recursion
  <2>. HIDE DEF Solves
  <2>3. \E g \in [SUBSET (1 .. 0) -> T] : Solves(0, g)
    BY <2>1, <2>2
  <2>4. 0 \in 0 .. n
    OBVIOUS
  <2>. QED
    BY <2>3, <2>4, Zenon
<1>2. ASSUME NEW m \in 1 .. n, m - 1 \in G PROVE m \in G
  <2>1. PICK g \in [SUBSET (1 .. (m - 1)) -> T] : Solves(m - 1, g)
    BY <1>2
  <2>. USE DEF Recursion
  <2>. DEFINE h == [t \in SUBSET (1 .. m) |->
                      IF m \in t THEN step[<<m, g[t \ {m}]>>] ELSE g[t]]
  <2>2. \A t \in SUBSET (1 .. m) : t \ {m} \in SUBSET (1 .. (m - 1))
    OBVIOUS
  <2>3. \A t \in SUBSET (1 .. m) : m \notin t => t = t \ {m}
    OBVIOUS
  <2>4. h \in [SUBSET (1 .. m) -> T]
    <3>1. ASSUME NEW t \in SUBSET (1 .. m)
          PROVE  (IF m \in t THEN step[<<m, g[t \ {m}]>>] ELSE g[t]) \in T
      <4>1. g[t \ {m}] \in T
        BY <2>2
      <4>2. step[<<m, g[t \ {m}]>>] \in T
        BY <4>1
      <4>. QED
        BY <4>1, <4>2, <2>3
    <3>. QED
      BY <3>1
  <2>5. Solves(m, h)
    <3>. SUFFICES ASSUME NEW t \in SUBSET (1 .. m)
                  PROVE h[t] = IF t = {} THEN base ELSE step[<<Max(t), h[t \ {Max(t)}]>>]
      OBVIOUS
    <3>1. CASE m \in t
      <4>0. t \subseteq Nat /\ \A x \in t : x <= m
        OBVIOUS
      <4>1. Max(t) = m
        BY <3>1, <4>0, MaxIs
      <4>2. h[t \ {m}] = g[t \ {m}]
        OBVIOUS
      <4>. QED
        BY <4>1, <4>2, <3>1
    <3>2. CASE m \notin t
      <4>1. t \in SUBSET (1 .. (m - 1))
        BY <3>2, <2>2, <2>3
      <4>2. h[t] = g[t]
        BY <3>2
      <4>3. CASE t = {}
        BY <4>1, <4>2, <4>3, <2>1
      <4>4. CASE t # {}
        <5>1. t \ {Max(t)} \in SUBSET (1 .. m) /\ m \notin t \ {Max(t)}
          BY <3>2
        <5>2. h[t \ {Max(t)}] = g[t \ {Max(t)}]
          BY <5>1
        <5>3. g[t] = step[<<Max(t), g[t \ {Max(t)}]>>]
          BY <4>1, <4>4, <2>1
        <5>. QED
          BY <4>2, <4>4, <5>2, <5>3
      <4>. QED
        BY <4>3, <4>4
    <3>. QED
      BY <3>1, <3>2
  <2>. HIDE DEF Solves, h
  <2>6. \E f \in [SUBSET (1 .. m) -> T] : Solves(m, f)
    BY <2>4, <2>5
  <2>. QED
    BY <2>6
<1>3. n \in G
  <2>. HIDE DEF G
  <2>. QED
    BY <1>1, <1>2, Climb
<1>. QED
  BY <1>3

\* The same, as far as it stays in T.
RecursionIn(n, T, base, step, h) ==
    /\ h[{}] = base
    /\ \A t \in SUBSET (1 .. n) :
          t # {} /\ h[t \ {Max(t)}] \in T => h[t] = step[<<Max(t), h[t \ {Max(t)}]>>]

Steps(n, base, step, h, f) ==
    /\ f[0] = base /\ f[n] = h[1 .. n]
    /\ \A m \in 1 .. n : f[m] = step[<<m, f[m - 1]>>]

\* What such a fold passes through, element by element.
LEMMA FoldSteps ==
    ASSUME NEW n \in Nat, NEW T, NEW base \in T, NEW step \in [(1 .. n) \X T -> T],
           NEW h, RecursionIn(n, T, base, step, h)
    PROVE  \E f \in [0 .. n -> T] : Steps(n, base, step, h, f)
<1>. DEFINE f == [m \in 0 .. n |-> h[1 .. m]]
            G == {m \in 0 .. n : h[1 .. m] \in T}
<1>1. h[1 .. 0] = base
  <2>1. 1 .. 0 = {}
    OBVIOUS
  <2>. QED
    BY <2>1 DEF RecursionIn
<1>2. ASSUME NEW m \in 1 .. n, h[1 .. (m - 1)] \in T
      PROVE  h[1 .. m] = step[<<m, h[1 .. (m - 1)]>>] /\ h[1 .. m] \in T
  <2>1. /\ Max(1 .. m) = m /\ (1 .. m) \ {m} = 1 .. (m - 1)
        /\ (1 .. m) # {} /\ (1 .. m) \in SUBSET (1 .. n)
    BY Segment
  <2>2. h[1 .. m] = step[<<m, h[1 .. (m - 1)]>>]
    BY <1>2, <2>1 DEF RecursionIn
  <2>. QED
    BY <1>2, <2>2
<1>3. ASSUME NEW k \in 0 .. n PROVE h[1 .. k] \in T
  <2>1. 0 \in G
    BY <1>1
  <2>2. ASSUME NEW m \in 1 .. k, m - 1 \in G PROVE m \in G
    <3>1. m \in 1 .. n /\ m \in 0 .. n
      OBVIOUS
    <3>. QED
      BY <1>2, <2>2, <3>1
  <2>3. k \in Nat
    OBVIOUS
  <2>. HIDE DEF G
  <2>4. k \in G
    BY <2>1, <2>2, <2>3, Climb
  <2>. QED
    BY <2>4 DEF G
<1>4. f \in [0 .. n -> T]
  BY <1>3
<1>5. f[0] = base /\ f[n] = h[1 .. n]
  BY <1>1
<1>6. ASSUME NEW m \in 1 .. n PROVE f[m] = step[<<m, f[m - 1]>>]
  <2>1. m - 1 \in 0 .. n /\ m \in 0 .. n
    OBVIOUS
  <2>2. h[1 .. (m - 1)] \in T
    BY <2>1, <1>3
  <2>. QED
    BY <2>1, <2>2, <1>2
<1>. HIDE DEF f
<1>. QED
  BY <1>4, <1>5, <1>6 DEF Steps

\* What a solution is at every set.
SolvedAt(n, T, base, step, g, t) ==
    /\ t = {} => g[t] = base
    /\ t # {} => /\ Max(t) \in 1 .. n
                 /\ g[t \ {Max(t)}] \in T
                 /\ g[t] = step[<<Max(t), g[t \ {Max(t)}]>>]

LEMMA Solution ==
    ASSUME NEW n \in Nat, NEW T, NEW base \in T, NEW step \in [(1 .. n) \X T -> T],
           NEW g \in [SUBSET (1 .. n) -> T], Recursion(n, base, step, g)
    PROVE  \A t \in SUBSET (1 .. n) : SolvedAt(n, T, base, step, g, t)
<1>. SUFFICES ASSUME NEW t \in SUBSET (1 .. n)
              PROVE  /\ t = {} => g[t] = base
                     /\ t # {} => /\ Max(t) \in 1 .. n
                                  /\ g[t \ {Max(t)}] \in T
                                  /\ g[t] = step[<<Max(t), g[t \ {Max(t)}]>>]
  BY DEF SolvedAt
<1>1. CASE t = {}
  BY <1>1 DEF Recursion
<1>2. CASE t # {}
  <2>1. Max(t) \in 1 .. n
    BY <1>2, HasMax
  <2>2. t \ {Max(t)} \in SUBSET (1 .. n)
    OBVIOUS
  <2>. QED
    BY <1>2, <2>1, <2>2 DEF Recursion
<1>. QED
  BY <1>1, <1>2

-----------------------------------------------------------------------------
(* Texts, mappings and scans *)

\* How Kept filters a sequence.
KeptThrough(s, S, f) ==
    /\ f[0] = <<>> /\ f[Len(s)] = Kept(s, S)
    /\ \A m \in 1 .. Len(s) : f[m] = IF s[m] \in S THEN Append(f[m - 1], s[m]) ELSE f[m - 1]

LEMMA KeptSteps ==
    ASSUME NEW X, NEW s \in Seq(X), NEW S
    PROVE  \E f \in [0 .. Len(s) -> Seq(X)] : KeptThrough(s, S, f)
<1>. DEFINE n == Len(s)
            T == Seq(X)
            base == <<>>
            op(b, m) == IF s[m] \in S THEN Append(b, s[m]) ELSE b
            step == [p \in (1 .. n) \X T |-> op(p[2], p[1])]
            Solves(g) == g = [t \in SUBSET (1 .. n) |->
                                IF t = {} THEN base ELSE op(g[t \ {Max(t)}], Max(t))]
            h == CHOOSE g : Solves(g)
<1>1. n \in Nat /\ base \in T
  OBVIOUS
<1>2. ASSUME NEW m \in 1 .. n, NEW b \in T PROVE op(b, m) \in T
  OBVIOUS
<1>3. step \in [(1 .. n) \X T -> T]
  <2>. HIDE DEF op, T, n
  <2>. QED
    BY <1>2
<1>4. PICK g \in [SUBSET (1 .. n) -> T] : Recursion(n, base, step, g)
  <2>. HIDE DEF step, T, n, base, op, h, Solves
  <2>. QED
    BY <1>1, <1>3, FoldExists
<1>5. Solves(g)
  <2>1. ASSUME NEW t \in SUBSET (1 .. n)
        PROVE  g[t] = IF t = {} THEN base ELSE op(g[t \ {Max(t)}], Max(t))
    <3>1. SolvedAt(n, T, base, step, g, t)
      <4>. HIDE DEF step, T, n, base, op, h, Solves
      <4>. QED
        BY <1>1, <1>3, <1>4, Solution
    <3>. HIDE DEF T, n, base, op
    <3>. QED
      BY <3>1 DEF SolvedAt
  <2>2. g = [t \in SUBSET (1 .. n) |-> g[t]]
    OBVIOUS
  <2>. HIDE DEF T, n, base, op
  <2>. QED
    BY <2>1, <2>2
<1>6. Solves(h)
  <2>. HIDE DEF Solves
  <2>. QED
    BY <1>5
<1>7. Kept(s, S) = h[1 .. n]
  <2>1. DOMAIN s = 1 .. n
    OBVIOUS
  <2>. QED
    BY <2>1 DEF Kept, FoldLeft, MapThenFoldSet
<1>8. RecursionIn(n, T, base, step, h)
  <2>. HIDE DEF h, T, n, base, op
  <2>1. h[{}] = base
    BY <1>6
  <2>2. ASSUME NEW t \in SUBSET (1 .. n), t # {}, h[t \ {Max(t)}] \in T
        PROVE  h[t] = step[<<Max(t), h[t \ {Max(t)}]>>]
    <3>1. Max(t) \in 1 .. n
      BY <1>1, <2>2, HasMax
    <3>2. h[t] = op(h[t \ {Max(t)}], Max(t))
      BY <1>6, <2>2
    <3>. QED
      BY <2>2, <3>1, <3>2
  <2>. QED
    BY <2>1, <2>2 DEF RecursionIn
<1>9. PICK f \in [0 .. n -> T] : Steps(n, base, step, h, f)
  <2>. HIDE DEF step, T, n, base, op, h, Solves
  <2>. QED
    BY <1>1, <1>3, <1>8, FoldSteps
<1>10. ASSUME NEW m \in 1 .. n PROVE f[m] = op(f[m - 1], m)
  <2>. HIDE DEF T, op
  <2>1. m - 1 \in 0 .. n
    OBVIOUS
  <2>. QED
    BY <1>9, <2>1 DEF Steps
<1>12. /\ f[0] = base /\ f[n] = Kept(s, S)
       /\ \A m \in 1 .. n : f[m] = IF s[m] \in S THEN Append(f[m - 1], s[m]) ELSE f[m - 1]
  <2>. HIDE DEF h, n, T, base
  <2>. QED
    BY <1>7, <1>9, <1>10 DEF Steps
<1>. QED
  BY <1>9, <1>12 DEF KeptThrough

\* A nonempty set of naturals has a least one.
LEMMA MinIs ==
    ASSUME NEW S \in SUBSET Nat, S # {}
    PROVE  Min(S) \in S /\ \A x \in S : Min(S) <= x
<1>. DEFINE less == {ss \in Nat \X Nat : ss[1] < ss[2]}
<1>1. PICK i \in S : \A j \in S : ~(<<j, i>> \in less)
  <2>1. IsWellFoundedOn(less, Nat)
    BY NatLessThanWellFounded DEF OpToRel
  <2>. HIDE DEF less
  <2>. QED
    BY <2>1, WFMin
<1>2. \A j \in S : i <= j
  <2>. SUFFICES ASSUME NEW j \in S, ~(i <= j) PROVE FALSE
    OBVIOUS
  <2>1. <<j, i>> \in less
    OBVIOUS
  <2>. QED
    BY <1>1, <2>1
<1>. QED
  BY <1>2 DEF Min

PlaceholderAtoms == [kind : Placeholders, n : Nat]

\* What the vault holds: texts over V, by placeholders.
Mappings(V) ==
    {m \in UNION {[D -> Seq(V)] : D \in SUBSET PlaceholderAtoms} : IsFiniteSet(DOMAIN m)}

\* A text over A on the way from the original, with what was taken out of it.
Scans(A, V, original) ==
    {s \in [text : Seq(A), mapping : Mappings(V)] : s.mapping = <<>> => s.text = original}

LEMMA EmptyMapping ==
    ASSUME NEW V
    PROVE  <<>> \in Mappings(V)
<1>1. <<>> \in [{} -> Seq(V)]
  OBVIOUS
<1>2. {} \in SUBSET PlaceholderAtoms /\ IsFiniteSet({})
  BY FS_EmptySet
<1>3. DOMAIN <<>> = {}
  OBVIOUS
<1>. QED
  BY <1>1, <1>2, <1>3 DEF Mappings

LEMMA MappingIs ==
    ASSUME NEW V, NEW m \in Mappings(V)
    PROVE  /\ m \in [DOMAIN m -> Seq(V)]
           /\ DOMAIN m \subseteq PlaceholderAtoms
           /\ IsFiniteSet(DOMAIN m)
BY DEF Mappings

LEMMA IsMapping ==
    ASSUME NEW V, NEW D \in SUBSET PlaceholderAtoms, IsFiniteSet(D), NEW m \in [D -> Seq(V)]
    PROVE  m \in Mappings(V)
BY DEF Mappings

LEMMA UpdatedIs ==
    ASSUME NEW V, NEW f \in Mappings(V), NEW g \in Mappings(V)
    PROVE  /\ Updated(f, g) \in Mappings(V)
           /\ DOMAIN Updated(f, g) = DOMAIN f \cup DOMAIN g
<1>. DEFINE D == DOMAIN f \cup DOMAIN g
<1>1. D \in SUBSET PlaceholderAtoms /\ IsFiniteSet(D)
  BY MappingIs, FS_Union
<1>2. Updated(f, g) \in [D -> Seq(V)]
  BY MappingIs DEF Updated
<1>. QED
  BY <1>1, <1>2, IsMapping

LEMMA OneEntry ==
    ASSUME NEW V, NEW p \in PlaceholderAtoms, NEW value \in Seq(V)
    PROVE  [q \in {p} |-> value] \in Mappings(V)
<1>1. IsFiniteSet({p})
  BY FS_Singleton
<1>2. [q \in {p} |-> value] \in [{p} -> Seq(V)]
  OBVIOUS
<1>. QED
  BY <1>1, <1>2, IsMapping

\* Replacing a value leaves no text but that and the placeholder.
LEMMA SubstitutedIs ==
    ASSUME NEW A, NEW V, NEW text, PlaceholderAtoms \subseteq A,
           NEW scan \in Scans(A, V, text), NEW value \in Seq(V),
           NEW placeholder \in PlaceholderAtoms
    PROVE  Substituted(scan, value, placeholder) \in Scans(A, V, text)
<1>. DEFINE places == Places(value, scan.text)
            new == Updated(scan.mapping, [p \in {placeholder} |-> value])
<1>1. scan.text \in Seq(A) /\ scan.mapping \in Mappings(V)
  BY DEF Scans
<1>2. new \in Mappings(V) /\ new # <<>>
  <2>1. [p \in {placeholder} |-> value] \in Mappings(V)
    BY OneEntry
  <2>0. placeholder \in DOMAIN [p \in {placeholder} |-> value]
    OBVIOUS
  <2>2. new \in Mappings(V) /\ placeholder \in DOMAIN new
    <3>. DEFINE entry == [p \in {placeholder} |-> value]
    <3>1. entry \in Mappings(V) /\ placeholder \in DOMAIN entry
      BY <2>0, <2>1
    <3>. HIDE DEF entry
    <3>2. Updated(scan.mapping, entry) \in Mappings(V)
      BY <1>1, <3>1, UpdatedIs
    <3>3. placeholder \in DOMAIN Updated(scan.mapping, entry)
      BY <3>1 DEF Updated
    <3>. QED
      BY <3>2, <3>3 DEF entry
  <2>3. DOMAIN <<>> = {}
    OBVIOUS
  <2>. QED
    BY <2>2, <2>3
<1>3. ASSUME places # {}
      PROVE  ReplaceSubSeqAt(Min(places), <<placeholder>>, value, scan.text) \in Seq(A)
  <2>. DEFINE i == Min(places)
  <2>1. Len(value) \in Nat /\ Len(scan.text) \in Nat
    BY <1>1
  <2>2. places \in SUBSET Nat
    BY <2>1 DEF Places
  <2>3. i \in places
    BY <1>3, <2>2, MinIs
  <2>4. i \in Nat /\ i >= 1 /\ i <= Len(scan.text) + 1 - Len(value)
    BY <2>1, <2>3 DEF Places
  <2>. HIDE DEF i
  <2>5. SubSeq(scan.text, 1, i - 1) \in Seq(A)
    <3>1. \A j \in 1 .. (i - 1) : scan.text[j] \in A
      BY <1>1, <2>1, <2>4
    <3>. QED
      BY <2>4, <3>1, SubSeqProperties
  <2>6. SubSeq(scan.text, i + Len(value), Len(scan.text)) \in Seq(A)
    <3>1. \A j \in (i + Len(value)) .. Len(scan.text) : scan.text[j] \in A
      BY <1>1, <2>1, <2>4
    <3>. QED
      BY <2>1, <2>4, <3>1, SubSeqProperties
  <2>7. <<placeholder>> \in Seq(A)
    OBVIOUS
  <2>8. SubSeq(scan.text, 1, i - 1) \o <<placeholder>> \in Seq(A)
    BY <2>5, <2>7, ConcatProperties
  <2>9. (SubSeq(scan.text, 1, i - 1) \o <<placeholder>>)
           \o SubSeq(scan.text, i + Len(value), Len(scan.text)) \in Seq(A)
    BY <2>6, <2>8, ConcatProperties
  <2>. QED
    BY <2>9 DEF ReplaceSubSeqAt, i
<1>4. Substituted(scan, value, placeholder).text \in Seq(A)
  BY <1>1, <1>3 DEF Substituted
<1>5. Substituted(scan, value, placeholder).mapping = new
  BY DEF Substituted
<1>6. Substituted(scan, value, placeholder) \in [text : Seq(A), mapping : Mappings(V)]
  BY <1>2, <1>4, <1>5 DEF Substituted
<1>. QED
  BY <1>2, <1>5, <1>6 DEF Scans

\* What Replaced passes through.
ReplacedThrough(scan, values, placeholders, f) ==
    /\ f[0] = scan /\ f[Len(values)] = Replaced(scan, values, placeholders)
    /\ \A m \in 1 .. Len(values) : f[m] = Substituted(f[m - 1], values[m], placeholders[m])

LEMMA ReplacedSteps ==
    ASSUME NEW A, NEW V, NEW text, PlaceholderAtoms \subseteq A, NEW scan \in Scans(A, V, text),
           NEW values \in Seq(Seq(V)), NEW placeholders,
           \A i \in 1 .. Len(values) : placeholders[i] \in PlaceholderAtoms
    PROVE  \E f \in [0 .. Len(values) -> Scans(A, V, text)] : ReplacedThrough(scan, values, placeholders, f)
<1>. DEFINE n == Len(values)
            T == Scans(A, V, text)
            base == scan
            index == [i \in DOMAIN values |-> i]
            op(b, m) == Substituted(b, values[index[m]], placeholders[index[m]])
            step == [p \in (1 .. n) \X T |-> op(p[2], p[1])]
            Solves(g) == g = [t \in SUBSET (1 .. n) |->
                                IF t = {} THEN base ELSE op(g[t \ {Max(t)}], Max(t))]
            h == CHOOSE g : Solves(g)
<1>1. n \in Nat /\ base \in T
  OBVIOUS
<1>2. ASSUME NEW m \in 1 .. n, NEW b \in T PROVE op(b, m) \in T
  <2>1. values[m] \in Seq(V) /\ placeholders[m] \in PlaceholderAtoms /\ index[m] = m
    OBVIOUS
  <2>. HIDE DEF n
  <2>. QED
    BY <2>1, SubstitutedIs
<1>3. step \in [(1 .. n) \X T -> T]
  <2>. HIDE DEF op, T, n
  <2>. QED
    BY <1>2
<1>4. PICK g \in [SUBSET (1 .. n) -> T] : Recursion(n, base, step, g)
  <2>. HIDE DEF step, T, n, base, op, h, Solves
  <2>. QED
    BY <1>1, <1>3, FoldExists
<1>5. Solves(g)
  <2>1. ASSUME NEW t \in SUBSET (1 .. n)
        PROVE  g[t] = IF t = {} THEN base ELSE op(g[t \ {Max(t)}], Max(t))
    <3>1. SolvedAt(n, T, base, step, g, t)
      <4>. HIDE DEF step, T, n, base, op, h, Solves
      <4>. QED
        BY <1>1, <1>3, <1>4, Solution
    <3>. HIDE DEF T, n, base, op
    <3>. QED
      BY <3>1 DEF SolvedAt
  <2>2. g = [t \in SUBSET (1 .. n) |-> g[t]]
    OBVIOUS
  <2>. HIDE DEF T, n, base, op
  <2>. QED
    BY <2>1, <2>2
<1>6. Solves(h)
  <2>. HIDE DEF Solves
  <2>. QED
    BY <1>5
<1>7. Replaced(scan, values, placeholders) = h[1 .. n]
  <2>1. DOMAIN values = 1 .. n
    OBVIOUS
  <2>2. DOMAIN index = 1 .. n
    BY <2>1
  <2>. QED
    BY <2>1, <2>2 DEF Replaced, FoldLeftDomain, FoldLeft, MapThenFoldSet
<1>8. RecursionIn(n, T, base, step, h)
  <2>. HIDE DEF h, T, n, base, op
  <2>1. h[{}] = base
    BY <1>6
  <2>2. ASSUME NEW t \in SUBSET (1 .. n), t # {}, h[t \ {Max(t)}] \in T
        PROVE  h[t] = step[<<Max(t), h[t \ {Max(t)}]>>]
    <3>1. Max(t) \in 1 .. n
      BY <1>1, <2>2, HasMax
    <3>2. h[t] = op(h[t \ {Max(t)}], Max(t))
      BY <1>6, <2>2
    <3>. QED
      BY <2>2, <3>1, <3>2
  <2>. QED
    BY <2>1, <2>2 DEF RecursionIn
<1>9. PICK f \in [0 .. n -> T] : Steps(n, base, step, h, f)
  <2>. HIDE DEF step, T, n, base, op, h, Solves
  <2>. QED
    BY <1>1, <1>3, <1>8, FoldSteps
<1>10. ASSUME NEW m \in 1 .. n PROVE f[m] = op(f[m - 1], m)
  <2>. HIDE DEF T, op
  <2>1. m - 1 \in 0 .. n
    OBVIOUS
  <2>. QED
    BY <1>9, <2>1 DEF Steps
<1>11. \A m \in 1 .. n : index[m] = m
  OBVIOUS
<1>12. /\ f[0] = base /\ f[n] = Replaced(scan, values, placeholders)
       /\ \A m \in 1 .. n : f[m] = Substituted(f[m - 1], values[m], placeholders[m])
  <2>. HIDE DEF h, n, T, base, index
  <2>. QED
    BY <1>7, <1>9, <1>10, <1>11 DEF Steps
<1>. QED
  BY <1>9, <1>12 DEF ReplacedThrough

LEMMA ReplacedIn ==
    ASSUME NEW A, NEW V, NEW text, PlaceholderAtoms \subseteq A, NEW scan \in Scans(A, V, text),
           NEW values \in Seq(Seq(V)), NEW placeholders,
           \A i \in 1 .. Len(values) : placeholders[i] \in PlaceholderAtoms
    PROVE  Replaced(scan, values, placeholders) \in Scans(A, V, text)
<1>1. PICK f \in [0 .. Len(values) -> Scans(A, V, text)] :
         f[Len(values)] = Replaced(scan, values, placeholders)
  BY ReplacedSteps DEF ReplacedThrough
<1>2. Len(values) \in 0 .. Len(values)
  OBVIOUS
<1>. QED
  BY <1>1, <1>2

-----------------------------------------------------------------------------
(* What a pattern finds is gone once it is replaced *)

LEMMA KeptIn ==
    ASSUME NEW X, NEW s \in Seq(X), NEW S
    PROVE  Kept(s, S) \in Seq(X)
<1>1. PICK f \in [0 .. Len(s) -> Seq(X)] : f[Len(s)] = Kept(s, S)
  BY KeptSteps DEF KeptThrough
<1>2. Len(s) \in 0 .. Len(s)
  OBVIOUS
<1>. QED
  BY <1>1, <1>2

\* k has the elements of s up to m that are in S, q their places.
KeptAt(s, S, m, k, q) ==
    /\ q \in [1 .. Len(k) -> 1 .. m]
    /\ \A i, j \in 1 .. Len(k) : i < j => q[i] < q[j]
    /\ \A j \in 1 .. Len(k) : k[j] = s[q[j]] /\ s[q[j]] \in S
    /\ \A p \in 1 .. m : s[p] \in S => \E j \in 1 .. Len(k) : q[j] = p

LEMMA KeptPlaces ==
    ASSUME NEW X, NEW s \in Seq(X), NEW S
    PROVE  \E q : KeptAt(s, S, Len(s), Kept(s, S), q)
<1>1. PICK f \in [0 .. Len(s) -> Seq(X)] : KeptThrough(s, S, f)
  BY KeptSteps
<1>. DEFINE G == {m \in 0 .. Len(s) : \E q : KeptAt(s, S, m, f[m], q)}
<1>2. Len(s) \in Nat
  OBVIOUS
<1>3. 0 \in G
  <2>1. Len(f[0]) = 0
    BY <1>1 DEF KeptThrough
  <2>2. KeptAt(s, S, 0, f[0], [j \in 1 .. 0 |-> 0])
    BY <2>1 DEF KeptAt
  <2>. HIDE DEF KeptAt
  <2>. QED
    BY <2>2, <1>2
<1>4. ASSUME NEW m \in 1 .. Len(s), m - 1 \in G PROVE m \in G
  <2>1. PICK q : KeptAt(s, S, m - 1, f[m - 1], q)
    BY <1>4
  <2>2. m - 1 \in 0 .. Len(s) /\ m \in 0 .. Len(s)
    BY <1>2
  <2>3. f[m - 1] \in Seq(X) /\ Len(f[m - 1]) \in Nat /\ s[m] \in X
    BY <1>1, <1>2, <2>2
  <2>4. CASE s[m] \in S
    <3>. DEFINE k == Append(f[m - 1], s[m])
                l == Len(f[m - 1])
                r == [j \in 1 .. l + 1 |-> IF j = l + 1 THEN m ELSE q[j]]
    <3>1. f[m] = k /\ k \in Seq(X) /\ Len(k) = l + 1
      <4>1. f[m] = k
        BY <1>1, <2>4 DEF KeptThrough
      <4>. QED
        BY <2>3, <4>1, AppendProperties
    <3>2. \A j \in 1 .. l : k[j] = f[m - 1][j]
      BY <2>3, AppendProperties
    <3>3. k[l + 1] = s[m]
      BY <2>3, AppendProperties
    <3>4. \A j \in 1 .. l : q[j] \in 1 .. (m - 1) /\ q[j] \in 1 .. m /\ q[j] < m
      <4>1. q \in [1 .. l -> 1 .. (m - 1)]
        BY <2>1 DEF KeptAt
      <4>. QED
        BY <4>1, <1>2
    <3>. HIDE DEF k
    <3>5. l \in Nat /\ l + 1 \in 1 .. (l + 1)
      BY <2>3
    <3>. HIDE DEF l
    <3>6. \A j \in 1 .. (l + 1) : j = l + 1 \/ j \in 1 .. l
      BY <3>5
    <3>7. r \in [1 .. l + 1 -> 1 .. m]
      BY <3>4, <3>6
    <3>8. ASSUME NEW i \in 1 .. (l + 1), NEW j \in 1 .. (l + 1), i < j PROVE r[i] < r[j]
      <4>1. i \in 1 .. l /\ i # l + 1
        BY <3>5, <3>8
      <4>2. r[i] = q[i]
        BY <4>1
      <4>3. CASE j = l + 1
        BY <3>4, <4>1, <4>2, <4>3
      <4>4. CASE j \in 1 .. l
        <5>1. r[j] = q[j]
          BY <3>5, <4>4
        <5>. QED
          BY <2>1, <3>8, <4>1, <4>2, <4>4, <5>1 DEF KeptAt, l
      <4>. QED
        BY <3>6, <4>3, <4>4
    <3>9. ASSUME NEW j \in 1 .. (l + 1) PROVE k[j] = s[r[j]] /\ s[r[j]] \in S
      <4>1. CASE j = l + 1
        BY <2>4, <3>3, <4>1
      <4>2. CASE j \in 1 .. l
        <5>1. r[j] = q[j]
          BY <3>5, <4>2
        <5>2. f[m - 1][j] = s[q[j]] /\ s[q[j]] \in S
          BY <2>1, <4>2 DEF KeptAt, l
        <5>. QED
          BY <3>2, <4>2, <5>1, <5>2
      <4>. QED
        BY <3>6, <4>1, <4>2
    <3>10. ASSUME NEW p \in 1 .. m, s[p] \in S PROVE \E j \in 1 .. (l + 1) : r[j] = p
      <4>1. CASE p = m
        <5>1. r[l + 1] = p
          BY <3>5, <4>1
        <5>. QED
          BY <3>5, <5>1
      <4>2. CASE p # m
        <5>1. p \in 1 .. (m - 1)
          BY <4>2
        <5>2. PICK j \in 1 .. l : q[j] = p
          BY <2>1, <3>10, <5>1 DEF KeptAt, l
        <5>3. r[j] = q[j] /\ j \in 1 .. (l + 1)
          BY <3>5
        <5>. QED
          BY <5>2, <5>3
      <4>. QED
        BY <4>1, <4>2
    <3>. HIDE DEF r
    <3>11. KeptAt(s, S, m, f[m], r)
      BY <3>1, <3>7, <3>8, <3>9, <3>10 DEF KeptAt
    <3>. QED
      BY <3>11, <2>2
  <2>5. CASE s[m] \notin S
    <3>1. f[m] = f[m - 1]
      BY <1>1, <2>5 DEF KeptThrough
    <3>2. \A p \in 1 .. m : s[p] \in S => p \in 1 .. (m - 1)
      BY <2>5
    <3>3. \A j \in 1 .. (m - 1) : j \in 1 .. m
      OBVIOUS
    <3>4. KeptAt(s, S, m, f[m], q)
      BY <2>1, <3>1, <3>2, <3>3 DEF KeptAt
    <3>. QED
      BY <3>4, <2>2
  <2>. QED
    BY <2>4, <2>5
<1>5. Len(s) \in G
  <2>. HIDE DEF G
  <2>. QED
    BY <1>2, <1>3, <1>4, Climb
<1>. QED
  BY <1>1, <1>5 DEF KeptThrough

\* A match is replaced where it first occurs.
LEMMA FirstReplaced ==
    ASSUME NEW A, NEW t \in Seq(A), NEW i \in 1 .. Len(t), NEW p \in A,
           \A j \in 1 .. Len(t) : j < i => t[j] # t[i]
    PROVE  /\ Places(<<t[i]>>, t) # {}
           /\ Min(Places(<<t[i]>>, t)) = i
           /\ ReplaceSubSeqAt(i, <<p>>, <<t[i]>>, t) = [t EXCEPT ![i] = p]
<1>. DEFINE places == Places(<<t[i]>>, t)
<1>1. Len(t) \in Nat /\ Len(<<t[i]>>) = 1 /\ i \in Nat
  OBVIOUS
<1>2. ASSUME NEW j \in 1 .. Len(t) PROVE SubSeq(t, j, j + 1 - 1) = <<t[j]>>
  <2>1. j + 1 - 1 = j
    OBVIOUS
  <2>2. /\ SubSeq(t, j, j) \in Seq(A)
        /\ Len(SubSeq(t, j, j)) = 1
        /\ SubSeq(t, j, j)[1] = t[j]
    <3>1. \A x \in j .. j : t[x] \in A
      OBVIOUS
    <3>2. /\ SubSeq(t, j, j) \in Seq(A)
          /\ Len(SubSeq(t, j, j)) = IF j <= j THEN j - j + 1 ELSE 0
          /\ \A x \in 1 .. j - j + 1 : SubSeq(t, j, j)[x] = t[j + x - 1]
      BY <3>1, SubSeqProperties
    <3>. QED
      BY <3>2
  <2>3. <<t[j]>> \in Seq(A) /\ Len(<<t[j]>>) = 1 /\ <<t[j]>>[1] = t[j]
    OBVIOUS
  <2>4. \A x \in 1 .. Len(SubSeq(t, j, j)) : SubSeq(t, j, j)[x] = <<t[j]>>[x]
    BY <2>2
  <2>5. SubSeq(t, j, j) = <<t[j]>>
    BY <2>2, <2>3, <2>4, SeqEqual
  <2>. QED
    BY <2>1, <2>5
<1>3. places = {j \in 1 .. Len(t) : t[j] = t[i]}
  <2>1. \A j \in 1 .. Len(t) : <<t[j]>> = <<t[i]>> <=> t[j] = t[i]
    OBVIOUS
  <2>2. Len(t) + 1 - Len(<<t[i]>>) = Len(t)
    BY <1>1
  <2>3. \A j \in 1 .. Len(t) : SubSeq(t, j, j + Len(<<t[i]>>) - 1) = <<t[j]>>
    BY <1>1, <1>2
  <2>4. places = {j \in 1 .. Len(t) : SubSeq(t, j, j + Len(<<t[i]>>) - 1) = <<t[i]>>}
    BY <2>2 DEF Places
  <2>. QED
    BY <2>1, <2>3, <2>4
<1>4. places # {} /\ places \in SUBSET Nat
  BY <1>3
<1>5. Min(places) = i
  <2>1. Min(places) \in places /\ \A x \in places : Min(places) <= x
    BY <1>4, MinIs
  <2>2. i \in places
    BY <1>3
  <2>3. Min(places) \in 1 .. Len(t) /\ t[Min(places)] = t[i] /\ Min(places) <= i
    BY <1>3, <2>1, <2>2
  <2>. HIDE DEF places
  <2>. QED
    BY <2>3
<1>6. ReplaceSubSeqAt(i, <<p>>, <<t[i]>>, t) = [t EXCEPT ![i] = p]
  <2>. DEFINE a == SubSeq(t, 1, i - 1)
              c == SubSeq(t, i + 1, Len(t))
              r == (a \o <<p>>) \o c
              e == [t EXCEPT ![i] = p]
  <2>1. /\ a \in Seq(A) /\ Len(a) = i - 1
        /\ \A j \in 1 .. (i - 1) : a[j] = t[j]
    <3>1. \A j \in 1 .. (i - 1) : t[j] \in A
      BY <1>1
    <3>2. /\ a \in Seq(A)
          /\ Len(a) = IF 1 <= i - 1 THEN i - 1 - 1 + 1 ELSE 0
          /\ \A j \in 1 .. i - 1 - 1 + 1 : a[j] = t[1 + j - 1]
      BY <1>1, <3>1, SubSeqProperties
    <3>. HIDE DEF a
    <3>. QED
      BY <1>1, <3>2
  <2>2. /\ c \in Seq(A) /\ Len(c) = Len(t) - i
        /\ \A j \in 1 .. (Len(t) - i) : c[j] = t[i + j]
    <3>1. \A j \in (i + 1) .. Len(t) : t[j] \in A
      BY <1>1
    <3>2. /\ c \in Seq(A)
          /\ Len(c) = IF i + 1 <= Len(t) THEN Len(t) - (i + 1) + 1 ELSE 0
          /\ \A j \in 1 .. Len(t) - (i + 1) + 1 : c[j] = t[(i + 1) + j - 1]
      BY <1>1, <3>1, SubSeqProperties
    <3>. HIDE DEF c
    <3>. QED
      BY <1>1, <3>2
  <2>3. <<p>> \in Seq(A) /\ Len(<<p>>) = 1 /\ <<p>>[1] = p
    OBVIOUS
  <2>. HIDE DEF a, c
  <2>4. /\ a \o <<p>> \in Seq(A) /\ Len(a \o <<p>>) = i
        /\ \A j \in 1 .. i : (a \o <<p>>)[j] = IF j = i THEN p ELSE t[j]
    <3>1. /\ a \o <<p>> \in Seq(A)
          /\ Len(a \o <<p>>) = Len(a) + Len(<<p>>)
          /\ \A j \in 1 .. Len(a) + Len(<<p>>) :
                (a \o <<p>>)[j] = IF j <= Len(a) THEN a[j] ELSE <<p>>[j - Len(a)]
      BY <2>1, <2>3, ConcatProperties
    <3>. QED
      BY <1>1, <2>1, <2>3, <3>1
  <2>. DEFINE b == a \o <<p>>
  <2>. HIDE DEF b
  <2>5. /\ b \in Seq(A) /\ Len(b) = i
        /\ \A j \in 1 .. i : b[j] = IF j = i THEN p ELSE t[j]
    BY <2>4 DEF b
  <2>6. /\ b \o c \in Seq(A) /\ Len(b \o c) = Len(t)
        /\ \A j \in 1 .. Len(t) : (b \o c)[j] = IF j = i THEN p ELSE t[j]
    <3>1. /\ b \o c \in Seq(A)
          /\ Len(b \o c) = Len(b) + Len(c)
          /\ \A j \in 1 .. Len(b) + Len(c) :
                (b \o c)[j] = IF j <= Len(b) THEN b[j] ELSE c[j - Len(b)]
      BY <2>2, <2>5, ConcatProperties
    <3>. QED
      BY <1>1, <2>2, <2>5, <3>1
  <2>7. /\ e \in Seq(A) /\ Len(e) = Len(t)
        /\ \A j \in 1 .. Len(t) : e[j] = IF j = i THEN p ELSE t[j]
    BY ExceptSeq
  <2>. HIDE DEF e
  <2>8. b \o c = e
    <3>1. Len(b \o c) = Len(e) /\ \A j \in 1 .. Len(b \o c) : (b \o c)[j] = e[j]
      BY <2>6, <2>7
    <3>. QED
      BY <2>6, <2>7, <3>1, SeqEqual
  <2>. QED
    BY <1>1, <2>8 DEF ReplaceSubSeqAt, a, b, c, e
<1>. QED
  BY <1>4, <1>5, <1>6

\* The matches of a kind, in the order of their places.
FoundAt(text, kind, values, q) ==
    /\ q \in [1 .. Len(values) -> 1 .. Len(text)]
    /\ \A i, j \in 1 .. Len(values) : i < j => q[i] < q[j]
    /\ \A j \in 1 .. Len(values) : values[j] = <<text[q[j]]>> /\ text[q[j]].kind = kind
    /\ \A p \in 1 .. Len(text) :
          text[p].kind = kind => \E j \in 1 .. Len(values) : q[j] = p

LEMMA FoundIs ==
    ASSUME NEW A, NEW text \in Seq(A), NEW kind
    PROVE  /\ Found(text, kind) \in Seq(Seq(A))
           /\ \E q : FoundAt(text, kind, Found(text, kind), q)
<1>. DEFINE S == {atom \in ToSet(text) : atom.kind = kind}
            found == Kept(text, S)
            values == Found(text, kind)
<1>1. found \in Seq(A)
  BY KeptIn
<1>2. PICK q : KeptAt(text, S, Len(text), found, q)
  BY KeptPlaces
<1>3. \A p \in 1 .. Len(text) : text[p] \in S <=> text[p].kind = kind
  BY DEF ToSet
<1>. HIDE DEF S, found
<1>4. values = [i \in 1 .. Len(found) |-> <<found[i]>>]
  BY <1>1 DEF Found, found, S
<1>5. Len(found) \in Nat /\ \A i \in 1 .. Len(found) : <<found[i]>> \in Seq(A)
  BY <1>1
<1>. HIDE DEF values
<1>6. values \in Seq(Seq(A)) /\ Len(values) = Len(found)
  BY <1>4, <1>5
<1>7. FoundAt(text, kind, values, q)
  <2>1. q \in [1 .. Len(values) -> 1 .. Len(text)]
    BY <1>2, <1>6 DEF KeptAt
  <2>2. \A i, j \in 1 .. Len(values) : i < j => q[i] < q[j]
    BY <1>2, <1>6 DEF KeptAt
  <2>3. ASSUME NEW j \in 1 .. Len(values)
        PROVE  values[j] = <<text[q[j]]>> /\ text[q[j]].kind = kind
    <3>1. found[j] = text[q[j]] /\ text[q[j]] \in S
      BY <1>2, <1>6 DEF KeptAt
    <3>2. q[j] \in 1 .. Len(text)
      BY <2>1
    <3>. QED
      BY <1>3, <1>4, <1>6, <3>1, <3>2
  <2>4. \A p \in 1 .. Len(text) :
           text[p].kind = kind => \E j \in 1 .. Len(values) : q[j] = p
    BY <1>2, <1>3, <1>6 DEF KeptAt
  <2>. QED
    BY <2>1, <2>2, <2>3, <2>4 DEF FoundAt
<1>. QED
  BY <1>6, <1>7 DEF values

\* Up to m, the matches are replaced where they are and nothing else is.
GoneUpTo(text, new, q, m) ==
    /\ Len(new) = Len(text)
    /\ \A p \in 1 .. Len(text) :
          IF \E j \in 1 .. m : q[j] = p THEN new[p] \in PlaceholderAtoms ELSE new[p] = text[p]

Without(A, kind) == {atom \in A : atom.kind # kind}

\* new is text with placeholders where it has atoms of these kinds.
Masked(text, new, kinds) ==
    /\ Len(new) = Len(text)
    /\ \A p \in 1 .. Len(text) :
          IF text[p].kind \in kinds THEN new[p] \in PlaceholderAtoms ELSE new[p] = text[p]

\* Every match is replaced at its own place, although the loop replaces the
\* first occurrence of its value: those before were replaced before it.
LEMMA FoundMasked ==
    ASSUME NEW A, NEW V, NEW text, PlaceholderAtoms \subseteq A, A \subseteq V,
           NEW scan \in Scans(A, V, text), NEW kind, kind \notin Placeholders,
           NEW placeholders,
           \A i \in 1 .. Len(Found(scan.text, kind)) : placeholders[i] \in PlaceholderAtoms
    PROVE  /\ Replaced(scan, Found(scan.text, kind), placeholders) \in Scans(A, V, text)
           /\ Masked(scan.text, Replaced(scan, Found(scan.text, kind), placeholders).text, {kind})
<1>. DEFINE values == Found(scan.text, kind)
            t == scan.text
<1>1. t \in Seq(A) /\ Len(t) \in Nat
  BY DEF Scans
<1>2. values \in Seq(Seq(A)) /\ \E q : FoundAt(t, kind, values, q)
  BY <1>1, FoundIs
<1>3. values \in Seq(Seq(V)) /\ Len(values) \in Nat
  <2>1. \A s \in Seq(A) : s \in Seq(V)
    BY SeqMonotonic
  <2>2. Seq(A) \subseteq Seq(V)
    BY <2>1
  <2>. HIDE DEF values
  <2>. QED
    BY <1>2, <2>2, SeqMonotonic
<1>. HIDE DEF values
<1>4. PICK q : FoundAt(t, kind, values, q)
  BY <1>2
<1>5. PICK f \in [0 .. Len(values) -> Scans(A, V, text)] :
         ReplacedThrough(scan, values, placeholders, f)
  BY <1>3, ReplacedSteps DEF values
<1>. DEFINE G == {m \in 0 .. Len(values) : GoneUpTo(t, f[m].text, q, m)}
<1>6. 0 \in G
  BY <1>3, <1>5 DEF ReplacedThrough, GoneUpTo
<1>7. ASSUME NEW m \in 1 .. Len(values), m - 1 \in G PROVE m \in G
  <2>. DEFINE u == f[m - 1].text
              i == q[m]
              p == placeholders[m]
              w == f[m].text
  <2>1. m - 1 \in 0 .. Len(values) /\ m \in 0 .. Len(values)
    BY <1>3
  <2>2. u \in Seq(A) /\ p \in PlaceholderAtoms /\ p \in A
    <3>1. f[m - 1] \in Scans(A, V, text)
      BY <1>5, <2>1
    <3>. QED
      BY <3>1 DEF Scans, values
  <2>3. GoneUpTo(t, u, q, m - 1)
    BY <1>7
  <2>4. Len(u) = Len(t) /\ i \in 1 .. Len(t)
    BY <1>4, <2>3 DEF GoneUpTo, FoundAt
  <2>5. values[m] = <<t[i]>> /\ t[i].kind = kind
    BY <1>4 DEF FoundAt
  <2>6. u[i] = t[i]
    <3>1. \A j \in 1 .. (m - 1) : q[j] # i
      <4>1. \A j \in 1 .. (m - 1) : j \in 1 .. Len(values) /\ j < m
        BY <1>3
      <4>2. ASSUME NEW j \in 1 .. (m - 1) PROVE q[j] # i
        <5>1. q[j] < q[m]
          BY <1>4, <4>1 DEF FoundAt
        <5>2. q[j] \in 1 .. Len(t) /\ q[m] \in 1 .. Len(t)
          BY <1>4, <4>1 DEF FoundAt
        <5>. QED
          BY <1>1, <5>1, <5>2
      <4>. QED
        BY <4>2
    <3>. QED
      BY <2>3, <2>4, <3>1 DEF GoneUpTo
  <2>7. ASSUME NEW x \in 1 .. Len(u), x < i PROVE u[x] # u[i]
    <3>. SUFFICES ASSUME u[x] = t[i] PROVE FALSE
      BY <2>6
    <3>0. x \in 1 .. Len(t)
      BY <2>4
    <3>1. CASE \E j \in 1 .. (m - 1) : q[j] = x
      <4>1. u[x] \in PlaceholderAtoms
        BY <2>3, <3>0, <3>1 DEF GoneUpTo
      <4>. QED
        BY <2>5, <4>1 DEF PlaceholderAtoms
    <3>2. CASE ~ \E j \in 1 .. (m - 1) : q[j] = x
      <4>1. u[x] = t[x]
        BY <2>3, <3>0, <3>2 DEF GoneUpTo
      <4>2. PICK j \in 1 .. Len(values) : q[j] = x
        BY <1>4, <2>5, <3>0, <4>1 DEF FoundAt
      <4>3. ~ (j < m)
        <5>1. j < m => j \in 1 .. (m - 1)
          BY <1>3
        <5>. QED
          BY <3>2, <4>2, <5>1
      <4>4. j = m \/ m < j
        BY <1>3, <4>3
      <4>5. m < j => q[m] < q[j]
        BY <1>4 DEF FoundAt
      <4>6. x \in Nat /\ i \in Nat
        BY <1>1, <2>4
      <4>. QED
        BY <2>7, <4>2, <4>4, <4>5, <4>6
    <3>. QED
      BY <3>1, <3>2
  <2>8. w = [u EXCEPT ![i] = p]
    <3>1. f[m] = Substituted(f[m - 1], <<t[i]>>, p)
      BY <1>5, <2>5 DEF ReplacedThrough
    <3>2. /\ Places(<<u[i]>>, u) # {}
          /\ Min(Places(<<u[i]>>, u)) = i
          /\ ReplaceSubSeqAt(i, <<p>>, <<u[i]>>, u) = [u EXCEPT ![i] = p]
      <4>1. \A x \in 1 .. Len(u) : x < i => u[x] # u[i]
        BY <2>7
      <4>2. u \in Seq(A) /\ i \in 1 .. Len(u) /\ p \in A
        BY <2>2, <2>4
      <4>. HIDE DEF u, i, p
      <4>. QED
        BY <4>1, <4>2, FirstReplaced
    <3>. QED
      BY <2>6, <3>1, <3>2 DEF Substituted
  <2>9. w \in Seq(A) /\ Len(w) = Len(u) /\ \A x \in 1 .. Len(u) : w[x] = IF x = i THEN p ELSE u[x]
    <3>. HIDE DEF u, i, p, w
    <3>. QED
      BY <2>2, <2>4, <2>8, ExceptSeq
  <2>10. GoneUpTo(t, w, q, m)
    <3>1. ASSUME NEW x \in 1 .. Len(t)
          PROVE  IF \E j \in 1 .. m : q[j] = x THEN w[x] \in PlaceholderAtoms ELSE w[x] = t[x]
      <4>1. CASE x = i
        <5>1. w[x] = p
          BY <2>4, <2>9, <4>1
        <5>2. \E j \in 1 .. m : q[j] = x
          BY <4>1
        <5>. QED
          BY <2>2, <5>1, <5>2
      <4>2. CASE x # i
        <5>1. w[x] = u[x]
          BY <2>4, <2>9, <4>2
        <5>2. (\E j \in 1 .. m : q[j] = x) <=> (\E j \in 1 .. (m - 1) : q[j] = x)
          <6>1. \A j \in 1 .. m : j = m \/ j \in 1 .. (m - 1)
            OBVIOUS
          <6>2. \A j \in 1 .. (m - 1) : j \in 1 .. m
            OBVIOUS
          <6>. QED
            BY <4>2, <6>1, <6>2
        <5>3. IF \E j \in 1 .. (m - 1) : q[j] = x THEN u[x] \in PlaceholderAtoms ELSE u[x] = t[x]
          BY <2>3 DEF GoneUpTo
        <5>. QED
          BY <5>1, <5>2, <5>3
      <4>. QED
        BY <4>1, <4>2
    <3>2. Len(w) = Len(t)
      BY <2>4, <2>9
    <3>. QED
      BY <3>1, <3>2 DEF GoneUpTo
  <2>. QED
    BY <2>1, <2>10
<1>8. Len(values) \in G
  <2>. HIDE DEF G
  <2>. QED
    BY <1>3, <1>6, <1>7, Climb
<1>. DEFINE s == f[Len(values)]
<1>9. s = Replaced(scan, values, placeholders) /\ s \in Scans(A, V, text)
  BY <1>3, <1>5 DEF ReplacedThrough
<1>10. Len(s.text) = Len(t) /\ GoneUpTo(t, s.text, q, Len(values))
  BY <1>8, <1>9 DEF GoneUpTo
<1>11. ASSUME NEW x \in 1 .. Len(t)
       PROVE  IF t[x].kind \in {kind} THEN s.text[x] \in PlaceholderAtoms ELSE s.text[x] = t[x]
  <2>1. CASE \E j \in 1 .. Len(values) : q[j] = x
    <3>1. s.text[x] \in PlaceholderAtoms
      BY <1>10, <2>1 DEF GoneUpTo
    <3>2. t[x].kind = kind
      BY <1>4, <2>1 DEF FoundAt
    <3>. QED
      BY <3>1, <3>2
  <2>2. CASE ~ \E j \in 1 .. Len(values) : q[j] = x
    <3>1. s.text[x] = t[x]
      BY <1>10, <2>2 DEF GoneUpTo
    <3>2. t[x].kind # kind
      BY <1>4, <2>2 DEF FoundAt
    <3>. QED
      BY <3>1, <3>2
  <2>. QED
    BY <2>1, <2>2
<1>12. Masked(t, s.text, {kind})
  BY <1>10, <1>11 DEF Masked
<1>. QED
  BY <1>9, <1>12 DEF values

LEMMA FoundGone ==
    ASSUME NEW A, NEW V, NEW text, PlaceholderAtoms \subseteq A, A \subseteq V,
           NEW scan \in Scans(A, V, text), NEW kind, kind \notin Placeholders,
           NEW placeholders,
           \A i \in 1 .. Len(Found(scan.text, kind)) : placeholders[i] \in PlaceholderAtoms
    PROVE  Replaced(scan, Found(scan.text, kind), placeholders)
              \in Scans(Without(A, kind), V, text)
<1>. DEFINE s == Replaced(scan, Found(scan.text, kind), placeholders)
            B == Without(A, kind)
<1>1. s \in Scans(A, V, text) /\ Masked(scan.text, s.text, {kind})
  BY FoundMasked
<1>. HIDE DEF s
<1>2. s.text \in Seq(A) /\ Len(s.text) = Len(scan.text) /\ s.mapping \in Mappings(V)
  BY <1>1 DEF Scans, Masked
<1>3. \A x \in 1 .. Len(s.text) : s.text[x] \in B
  <2>. SUFFICES ASSUME NEW x \in 1 .. Len(s.text) PROVE s.text[x].kind # kind
    BY <1>2 DEF Without
  <2>. QED
    BY <1>1, <1>2 DEF Masked, PlaceholderAtoms
<1>4. s.text \in Seq(B)
  BY <1>2, <1>3
<1>5. s \in Scans(B, V, text)
  BY <1>1, <1>4 DEF Scans
<1>. QED
  BY <1>5 DEF s

-----------------------------------------------------------------------------
(* The passes *)

LEMMA PlaceholderIs ==
    ASSUME NEW kind \in Placeholders, NEW i \in Nat
    PROVE  Atom(kind, i) \in PlaceholderAtoms
BY DEF Atom, PlaceholderAtoms

\* A sequence of texts over fewer atoms is one of texts over more.
LEMMA TextsOverMore ==
    ASSUME NEW A, NEW V, A \subseteq V, NEW values \in Seq(Seq(A))
    PROVE  values \in Seq(Seq(V))
<1>1. \A s \in Seq(A) : s \in Seq(V)
  BY SeqMonotonic
<1>2. Seq(A) \subseteq Seq(V)
  BY <1>1
<1>. QED
  BY <1>2, SeqMonotonic

LEMMA NumberedFound ==
    ASSUME NEW A, NEW V, NEW text, PlaceholderAtoms \subseteq A, A \subseteq V,
           NEW scan \in Scans(A, V, text), NEW kind, kind \notin Placeholders,
           NEW tag \in Placeholders
    PROVE  Numbered(scan, Found(scan.text, kind), tag)
              \in Scans(Without(A, kind), V, text)
<1>. DEFINE values == Found(scan.text, kind)
            placeholders == [i \in DOMAIN values |-> Atom(tag, i)]
<1>1. values \in Seq(Seq(A))
  BY FoundIs DEF Scans
<1>. HIDE DEF values
<1>2. \A i \in 1 .. Len(values) : placeholders[i] \in PlaceholderAtoms
  BY <1>1, PlaceholderIs
<1>. HIDE DEF placeholders
<1>3. Replaced(scan, values, placeholders) \in Scans(Without(A, kind), V, text)
  BY <1>2, FoundGone DEF values
<1>. QED
  BY <1>3 DEF Numbered, values, placeholders

LEMMA NumberedIn ==
    ASSUME NEW A, NEW V, NEW text, PlaceholderAtoms \subseteq A,
           NEW scan \in Scans(A, V, text), NEW values \in Seq(Seq(V)),
           NEW tag \in Placeholders
    PROVE  Numbered(scan, values, tag) \in Scans(A, V, text)
<1>. DEFINE placeholders == [i \in DOMAIN values |-> Atom(tag, i)]
<1>1. \A i \in 1 .. Len(values) : placeholders[i] \in PlaceholderAtoms
  BY PlaceholderIs
<1>. HIDE DEF placeholders
<1>2. Replaced(scan, values, placeholders) \in Scans(A, V, text)
  BY <1>1, ReplacedIn
<1>. QED
  BY <1>2 DEF Numbered, placeholders

LEMMA MaskedFound ==
    ASSUME NEW A, NEW V, NEW text, PlaceholderAtoms \subseteq A, A \subseteq V,
           NEW scan \in Scans(A, V, text), NEW kind, kind \notin Placeholders,
           NEW mask \in PlaceholderAtoms
    PROVE  Replaced(scan, Found(scan.text, kind), [i \in DOMAIN Found(scan.text, kind) |-> mask])
              \in Scans(Without(A, kind), V, text)
<1>. DEFINE values == Found(scan.text, kind)
            placeholders == [i \in DOMAIN values |-> mask]
<1>1. values \in Seq(Seq(A))
  BY FoundIs DEF Scans
<1>. HIDE DEF values
<1>2. \A i \in 1 .. Len(values) : placeholders[i] \in PlaceholderAtoms
  BY <1>1
<1>. HIDE DEF placeholders
<1>3. Replaced(scan, values, placeholders) \in Scans(Without(A, kind), V, text)
  BY <1>2, FoundGone DEF values
<1>. QED
  BY <1>3 DEF values, placeholders

LEMMA IBANsGone ==
    ASSUME NEW A, NEW V, NEW text, PlaceholderAtoms \subseteq A, A \subseteq V,
           NEW scan \in Scans(A, V, text)
    PROVE  RedactIBANs(scan) \in Scans(Without(A, "iban"), V, text)
<1>1. "iban" \notin Placeholders
  BY DEF Placeholders
<1>2. Atom("[IBAN_MASKED]", 0) \in PlaceholderAtoms
  BY PlaceholderIs DEF Placeholders
<1>. QED
  BY <1>1, <1>2, MaskedFound DEF RedactIBANs

\* The last of a sequence, and what is before it.
LEMMA FrontAndLast ==
    ASSUME NEW X, NEW s \in Seq(X), s # <<>>
    PROVE  Front(s) \in Seq(X) /\ Last(s) \in X
<1>1. Len(s) \in Nat /\ Len(s) >= 1
  OBVIOUS
<1>2. \A i \in 1 .. (Len(s) - 1) : s[i] \in X
  BY <1>1
<1>3. SubSeq(s, 1, Len(s) - 1) \in Seq(X)
  BY <1>1, <1>2, SubSeqProperties
<1>. QED
  BY <1>1, <1>3 DEF Front, Last

\* The last word of some, one atom longer.
LEMMA LongerLast ==
    ASSUME NEW A, NEW words \in Seq(Seq(A)), words # <<>>, NEW atom \in A
    PROVE  /\ Append(Front(words), Append(Last(words), atom)) \in Seq(Seq(A))
           /\ Append(Front(words), Append(Last(words), atom)) # <<>>
<1>1. Front(words) \in Seq(Seq(A)) /\ Last(words) \in Seq(A)
  BY FrontAndLast
<1>2. Append(Last(words), atom) \in Seq(A)
  BY <1>1, AppendProperties
<1>. DEFINE first == Front(words)
            last == Append(Last(words), atom)
<1>3. first \in Seq(Seq(A)) /\ last \in Seq(A)
  BY <1>1, <1>2
<1>. HIDE DEF first, last
<1>4. Append(first, last) \in Seq(Seq(A)) /\ Append(first, last) # <<>>
  BY <1>3, AppendProperties
<1>. QED
  BY <1>4 DEF first, last

LEMMA ExtendedIn ==
    ASSUME NEW A, NEW words \in Seq(Seq(A)) \ {<<>>}, NEW atom \in A
    PROVE  Extended(words, atom) \in Seq(Seq(A)) \ {<<>>}
<1>1. <<>> \in Seq(A)
  OBVIOUS
<1>2. Append(words, <<>>) \in Seq(Seq(A)) /\ Append(words, <<>>) # <<>>
  BY <1>1, AppendProperties
<1>3. /\ Append(Front(words), Append(Last(words), atom)) \in Seq(Seq(A))
      /\ Append(Front(words), Append(Last(words), atom)) # <<>>
  BY LongerLast
<1>. QED
  BY <1>2, <1>3 DEF Extended

\* How Fields cuts a text into words.
WordsThrough(text, f) ==
    /\ f[0] = <<(<<>>)>> /\ f[Len(text)] = FoldLeft(Extended, <<(<<>>)>>, text)
    /\ \A m \in 1 .. Len(text) : f[m] = Extended(f[m - 1], text[m])

LEMMA WordsSteps ==
    ASSUME NEW A, NEW text \in Seq(A)
    PROVE  \E f \in [0 .. Len(text) -> Seq(Seq(A)) \ {<<>>}] : WordsThrough(text, f)
<1>. DEFINE n == Len(text)
            T == Seq(Seq(A)) \ {<<>>}
            base == <<(<<>>)>>
            op(b, m) == Extended(b, text[m])
            step == [p \in (1 .. n) \X T |-> op(p[2], p[1])]
            Solves(g) == g = [t \in SUBSET (1 .. n) |->
                                IF t = {} THEN base ELSE op(g[t \ {Max(t)}], Max(t))]
            h == CHOOSE g : Solves(g)
<1>1. n \in Nat /\ base \in T
  OBVIOUS
<1>2. ASSUME NEW m \in 1 .. n, NEW b \in T PROVE op(b, m) \in T
  <2>1. text[m] \in A
    OBVIOUS
  <2>. QED
    BY <2>1, ExtendedIn
<1>3. step \in [(1 .. n) \X T -> T]
  <2>. HIDE DEF op, T, n
  <2>. QED
    BY <1>2
<1>4. PICK g \in [SUBSET (1 .. n) -> T] : Recursion(n, base, step, g)
  <2>. HIDE DEF step, T, n, base, op, h, Solves
  <2>. QED
    BY <1>1, <1>3, FoldExists
<1>5. Solves(g)
  <2>1. ASSUME NEW t \in SUBSET (1 .. n)
        PROVE  g[t] = IF t = {} THEN base ELSE op(g[t \ {Max(t)}], Max(t))
    <3>1. SolvedAt(n, T, base, step, g, t)
      <4>. HIDE DEF step, T, n, base, op, h, Solves
      <4>. QED
        BY <1>1, <1>3, <1>4, Solution
    <3>. HIDE DEF T, n, base, op
    <3>. QED
      BY <3>1 DEF SolvedAt
  <2>2. g = [t \in SUBSET (1 .. n) |-> g[t]]
    OBVIOUS
  <2>. HIDE DEF T, n, base, op
  <2>. QED
    BY <2>1, <2>2
<1>6. Solves(h)
  <2>. HIDE DEF Solves
  <2>. QED
    BY <1>5
<1>7. FoldLeft(Extended, <<(<<>>)>>, text) = h[1 .. n]
  <2>1. DOMAIN text = 1 .. n
    OBVIOUS
  <2>. QED
    BY <2>1 DEF FoldLeft, MapThenFoldSet
<1>8. RecursionIn(n, T, base, step, h)
  <2>. HIDE DEF h, T, n, base, op
  <2>1. h[{}] = base
    BY <1>6
  <2>2. ASSUME NEW t \in SUBSET (1 .. n), t # {}, h[t \ {Max(t)}] \in T
        PROVE  h[t] = step[<<Max(t), h[t \ {Max(t)}]>>]
    <3>1. Max(t) \in 1 .. n
      BY <1>1, <2>2, HasMax
    <3>2. h[t] = op(h[t \ {Max(t)}], Max(t))
      BY <1>6, <2>2
    <3>. QED
      BY <2>2, <3>1, <3>2
  <2>. QED
    BY <2>1, <2>2 DEF RecursionIn
<1>9. PICK f \in [0 .. n -> T] : Steps(n, base, step, h, f)
  <2>. HIDE DEF step, T, n, base, op, h, Solves
  <2>. QED
    BY <1>1, <1>3, <1>8, FoldSteps
<1>10. ASSUME NEW m \in 1 .. n PROVE f[m] = op(f[m - 1], m)
  <2>. HIDE DEF T, op
  <2>1. m - 1 \in 0 .. n
    OBVIOUS
  <2>. QED
    BY <1>9, <2>1 DEF Steps
<1>12. /\ f[0] = base /\ f[n] = FoldLeft(Extended, <<(<<>>)>>, text)
       /\ \A m \in 1 .. n : f[m] = Extended(f[m - 1], text[m])
  <2>. HIDE DEF h, n, T, base
  <2>. QED
    BY <1>7, <1>9, <1>10 DEF Steps
<1>. QED
  BY <1>9, <1>12 DEF WordsThrough

LEMMA FieldsIn ==
    ASSUME NEW A, NEW text \in Seq(A)
    PROVE  Fields(text) \in Seq(Seq(A))
<1>. DEFINE words == FoldLeft(Extended, <<(<<>>)>>, text)
<1>1. PICK f \in [0 .. Len(text) -> Seq(Seq(A)) \ {<<>>}] : f[Len(text)] = words
  BY WordsSteps DEF WordsThrough
<1>2. Len(text) \in 0 .. Len(text)
  OBVIOUS
<1>3. words \in Seq(Seq(A))
  BY <1>1, <1>2
<1>. HIDE DEF words
<1>4. Kept(words, ToSet(words) \ {<<>>}) \in Seq(Seq(A))
  BY <1>3, KeptIn
<1>. QED
  BY <1>4 DEF Fields, words

\* Values that are replaced have no space in them, and stand for something.
Glued(A) == Seq(A \ {Space}) \ {<<>>}

LEMMA GluedIs ==
    ASSUME NEW A, NEW value \in Glued(A)
    PROVE  /\ value \in Seq(A) /\ value # <<>> /\ Len(value) \in Nat /\ Len(value) >= 1
           /\ \A j \in 1 .. Len(value) : value[j] # Space
<1>1. value \in Seq(A \ {Space}) /\ value # <<>>
  BY DEF Glued
<1>2. value \in Seq(A)
  BY <1>1, SeqMonotonic
<1>. QED
  BY <1>1, <1>2

LEMMA GluedOverMore ==
    ASSUME NEW A, NEW V, A \subseteq V, NEW values \in Seq(Glued(A))
    PROVE  values \in Seq(Glued(V))
<1>1. \A s \in Seq(A \ {Space}) : s \in Seq(V \ {Space})
  BY SeqMonotonic
<1>2. Glued(A) \subseteq Glued(V)
  BY <1>1 DEF Glued
<1>. QED
  BY <1>2, SeqMonotonic

LEMMA GluedAreTexts ==
    ASSUME NEW A, NEW values \in Seq(Glued(A))
    PROVE  values \in Seq(Seq(A))
<1>1. Glued(A) \subseteq Seq(A)
  BY GluedIs
<1>. QED
  BY <1>1, SeqMonotonic

LEMMA GluedLonger ==
    ASSUME NEW A, NEW value \in Seq(A \ {Space}), NEW atom \in A, atom # Space
    PROVE  Append(value, atom) \in Glued(A)
<1>1. Append(value, atom) \in Seq(A \ {Space}) /\ Len(Append(value, atom)) = Len(value) + 1
  BY AppendProperties
<1>2. Len(value) \in Nat
  OBVIOUS
<1>3. Append(value, atom) # <<>>
  BY <1>1, <1>2
<1>. QED
  BY <1>1, <1>3 DEF Glued

\* A password under way has begun.
PasswordStates(A) ==
    {state \in [open : {"no", "keyword", "value"}, values : Seq(Glued(A))] :
        state.open = "value" => state.values # <<>>}

LEMMA PasswordStepIn ==
    ASSUME NEW A, NEW state \in PasswordStates(A), NEW atom \in A
    PROVE  PasswordStep(state, atom) \in PasswordStates(A)
<1>1. /\ state \in [open : {"no", "keyword", "value"}, values : Seq(Glued(A))]
      /\ state.open = "value" => state.values # <<>>
  BY DEF PasswordStates
<1>2. CASE state.open = "value" /\ atom # Space
  <2>. DEFINE first == Front(state.values)
              last == Append(Last(state.values), atom)
  <2>1. first \in Seq(Glued(A)) /\ Last(state.values) \in Glued(A)
    BY <1>1, <1>2, FrontAndLast
  <2>2. last \in Glued(A)
    <3>1. Last(state.values) \in Seq(A \ {Space})
      BY <2>1 DEF Glued
    <3>. QED
      BY <1>2, <3>1, GluedLonger
  <2>3. PasswordStep(state, atom) = [state EXCEPT !.values = Append(first, last)]
    BY <1>2 DEF PasswordStep
  <2>. HIDE DEF first, last
  <2>4. Append(first, last) \in Seq(Glued(A)) /\ Append(first, last) # <<>>
    BY <2>1, <2>2, AppendProperties
  <2>. DEFINE longer == Append(first, last)
  <2>5. longer \in Seq(Glued(A)) /\ longer # <<>>
    BY <2>4
  <2>6. PasswordStep(state, atom) = [state EXCEPT !.values = longer]
    BY <2>3
  <2>. HIDE DEF longer
  <2>. QED
    BY <1>1, <2>5, <2>6 DEF PasswordStates
<1>3. CASE state.open = "keyword" /\ atom # Space
  <2>. DEFINE values == state.values
              value == <<atom>>
              more == Append(values, value)
  <2>1. value \in Glued(A)
    <3>1. <<atom>> \in Seq(A \ {Space})
      BY <1>3
    <3>. QED
      BY <3>1 DEF Glued
  <2>2. values \in Seq(Glued(A))
    BY <1>1
  <2>. HIDE DEF value, values
  <2>3. more \in Seq(Glued(A)) /\ more # <<>>
    BY <2>1, <2>2, AppendProperties
  <2>4. PasswordStep(state, atom) = [open |-> "value", values |-> more]
    BY <1>3 DEF PasswordStep, values, value
  <2>. HIDE DEF more
  <2>. QED
    BY <2>3, <2>4 DEF PasswordStates
<1>4. CASE state.open = "keyword" /\ atom = Space
  BY <1>4 DEF PasswordStep
<1>5. CASE state.open # "keyword" /\ (state.open = "value" => atom = Space)
  <2>1. PasswordStep(state, atom)
          = [state EXCEPT !.open = IF atom.kind = "keyword" THEN "keyword" ELSE "no"]
    BY <1>5 DEF PasswordStep
  <2>. QED
    BY <1>1, <2>1 DEF PasswordStates
<1>. QED
  BY <1>2, <1>3, <1>4, <1>5

\* How Passwords walks through a text.
PasswordsThrough(text, f) ==
    /\ f[0] = [open |-> "no", values |-> <<>>] /\ f[Len(text)] = FoldLeft(PasswordStep, [open |-> "no", values |-> <<>>], text)
    /\ \A m \in 1 .. Len(text) : f[m] = PasswordStep(f[m - 1], text[m])

LEMMA PasswordsSteps ==
    ASSUME NEW A, NEW text \in Seq(A)
    PROVE  \E f \in [0 .. Len(text) -> PasswordStates(A)] : PasswordsThrough(text, f)
<1>. DEFINE n == Len(text)
            T == PasswordStates(A)
            base == [open |-> "no", values |-> <<>>]
            op(b, m) == PasswordStep(b, text[m])
            step == [p \in (1 .. n) \X T |-> op(p[2], p[1])]
            Solves(g) == g = [t \in SUBSET (1 .. n) |->
                                IF t = {} THEN base ELSE op(g[t \ {Max(t)}], Max(t))]
            h == CHOOSE g : Solves(g)
<1>1. n \in Nat /\ base \in T
  BY DEF PasswordStates
<1>2. ASSUME NEW m \in 1 .. n, NEW b \in T PROVE op(b, m) \in T
  <2>1. text[m] \in A
    OBVIOUS
  <2>. QED
    BY <2>1, PasswordStepIn
<1>3. step \in [(1 .. n) \X T -> T]
  <2>. HIDE DEF op, T, n
  <2>. QED
    BY <1>2
<1>4. PICK g \in [SUBSET (1 .. n) -> T] : Recursion(n, base, step, g)
  <2>. HIDE DEF step, T, n, base, op, h, Solves
  <2>. QED
    BY <1>1, <1>3, FoldExists
<1>5. Solves(g)
  <2>1. ASSUME NEW t \in SUBSET (1 .. n)
        PROVE  g[t] = IF t = {} THEN base ELSE op(g[t \ {Max(t)}], Max(t))
    <3>1. SolvedAt(n, T, base, step, g, t)
      <4>. HIDE DEF step, T, n, base, op, h, Solves
      <4>. QED
        BY <1>1, <1>3, <1>4, Solution
    <3>. HIDE DEF T, n, base, op
    <3>. QED
      BY <3>1 DEF SolvedAt
  <2>2. g = [t \in SUBSET (1 .. n) |-> g[t]]
    OBVIOUS
  <2>. HIDE DEF T, n, base, op
  <2>. QED
    BY <2>1, <2>2
<1>6. Solves(h)
  <2>. HIDE DEF Solves
  <2>. QED
    BY <1>5
<1>7. FoldLeft(PasswordStep, [open |-> "no", values |-> <<>>], text) = h[1 .. n]
  <2>1. DOMAIN text = 1 .. n
    OBVIOUS
  <2>. QED
    BY <2>1 DEF FoldLeft, MapThenFoldSet
<1>8. RecursionIn(n, T, base, step, h)
  <2>. HIDE DEF h, T, n, base, op
  <2>1. h[{}] = base
    BY <1>6
  <2>2. ASSUME NEW t \in SUBSET (1 .. n), t # {}, h[t \ {Max(t)}] \in T
        PROVE  h[t] = step[<<Max(t), h[t \ {Max(t)}]>>]
    <3>1. Max(t) \in 1 .. n
      BY <1>1, <2>2, HasMax
    <3>2. h[t] = op(h[t \ {Max(t)}], Max(t))
      BY <1>6, <2>2
    <3>. QED
      BY <2>2, <3>1, <3>2
  <2>. QED
    BY <2>1, <2>2 DEF RecursionIn
<1>9. PICK f \in [0 .. n -> T] : Steps(n, base, step, h, f)
  <2>. HIDE DEF step, T, n, base, op, h, Solves
  <2>. QED
    BY <1>1, <1>3, <1>8, FoldSteps
<1>10. ASSUME NEW m \in 1 .. n PROVE f[m] = op(f[m - 1], m)
  <2>. HIDE DEF T, op
  <2>1. m - 1 \in 0 .. n
    OBVIOUS
  <2>. QED
    BY <1>9, <2>1 DEF Steps
<1>12. /\ f[0] = base /\ f[n] = FoldLeft(PasswordStep, [open |-> "no", values |-> <<>>], text)
       /\ \A m \in 1 .. n : f[m] = PasswordStep(f[m - 1], text[m])
  <2>. HIDE DEF h, n, T, base
  <2>. QED
    BY <1>7, <1>9, <1>10 DEF Steps
<1>. QED
  BY <1>9, <1>12 DEF PasswordsThrough

LEMMA PasswordsGlued ==
    ASSUME NEW A, NEW text \in Seq(A)
    PROVE  Passwords(text) \in Seq(Glued(A))
<1>. DEFINE last == FoldLeft(PasswordStep, [open |-> "no", values |-> <<>>], text)
<1>1. PICK f \in [0 .. Len(text) -> PasswordStates(A)] : f[Len(text)] = last
  BY PasswordsSteps DEF PasswordsThrough
<1>2. Len(text) \in 0 .. Len(text)
  OBVIOUS
<1>3. last.values \in Seq(Glued(A))
  BY <1>1, <1>2 DEF PasswordStates
<1>. QED
  BY <1>3 DEF Passwords

LEMMA PasswordsIn ==
    ASSUME NEW A, NEW V, A \subseteq V, NEW text \in Seq(A)
    PROVE  Passwords(text) \in Seq(Seq(V))
BY PasswordsGlued, GluedAreTexts, TextsOverMore

\* What RedactPasswords passes through.
PasswordsReplaced(scan, f) ==
    /\ f[0] = scan /\ f[Len(Passwords(scan.text))] = RedactPasswords(scan)
    /\ \A m \in 1 .. Len(Passwords(scan.text)) : f[m] = IF Bracketed(Passwords(scan.text)[m]) THEN f[m - 1]
                 ELSE Substituted(f[m - 1], Passwords(scan.text)[m], Atom("[PASSWORD_CONTEXT]", m))

LEMMA RedactPasswordsSteps ==
    ASSUME NEW A, NEW V, NEW text, PlaceholderAtoms \subseteq A, A \subseteq V,
           NEW scan \in Scans(A, V, text)
    PROVE  \E f \in [0 .. Len(Passwords(scan.text)) -> Scans(A, V, text)] : PasswordsReplaced(scan, f)
<1>. DEFINE n == Len(Passwords(scan.text))
            T == Scans(A, V, text)
            base == scan
            index == [i \in DOMAIN Passwords(scan.text) |-> i]
            op(b, m) == IF Bracketed(Passwords(scan.text)[index[m]]) THEN b
                 ELSE Substituted(b, Passwords(scan.text)[index[m]], Atom("[PASSWORD_CONTEXT]", index[m]))
            step == [p \in (1 .. n) \X T |-> op(p[2], p[1])]
            Solves(g) == g = [t \in SUBSET (1 .. n) |->
                                IF t = {} THEN base ELSE op(g[t \ {Max(t)}], Max(t))]
            h == CHOOSE g : Solves(g)
<1>1. n \in Nat /\ base \in T
  <2>1. Passwords(scan.text) \in Seq(Seq(V))
    BY PasswordsIn DEF Scans
  <2>. QED
    BY <2>1
<1>2. ASSUME NEW m \in 1 .. n, NEW b \in T PROVE op(b, m) \in T
  <2>1. Passwords(scan.text) \in Seq(Seq(V))
    BY PasswordsIn DEF Scans
  <2>2. Passwords(scan.text)[m] \in Seq(V) /\ index[m] = m
    BY <2>1
  <2>3. Atom("[PASSWORD_CONTEXT]", m) \in PlaceholderAtoms
    BY <1>1, PlaceholderIs DEF Placeholders
  <2>. HIDE DEF n
  <2>. QED
    BY <2>2, <2>3, SubstitutedIs
<1>3. step \in [(1 .. n) \X T -> T]
  <2>. HIDE DEF op, T, n
  <2>. QED
    BY <1>2
<1>4. PICK g \in [SUBSET (1 .. n) -> T] : Recursion(n, base, step, g)
  <2>. HIDE DEF step, T, n, base, op, h, Solves
  <2>. QED
    BY <1>1, <1>3, FoldExists
<1>5. Solves(g)
  <2>1. ASSUME NEW t \in SUBSET (1 .. n)
        PROVE  g[t] = IF t = {} THEN base ELSE op(g[t \ {Max(t)}], Max(t))
    <3>1. SolvedAt(n, T, base, step, g, t)
      <4>. HIDE DEF step, T, n, base, op, h, Solves
      <4>. QED
        BY <1>1, <1>3, <1>4, Solution
    <3>. HIDE DEF T, n, base, op
    <3>. QED
      BY <3>1 DEF SolvedAt
  <2>2. g = [t \in SUBSET (1 .. n) |-> g[t]]
    OBVIOUS
  <2>. HIDE DEF T, n, base, op
  <2>. QED
    BY <2>1, <2>2
<1>6. Solves(h)
  <2>. HIDE DEF Solves
  <2>. QED
    BY <1>5
<1>7. RedactPasswords(scan) = h[1 .. n]
  <2>1. DOMAIN Passwords(scan.text) = 1 .. n
    OBVIOUS
  <2>2. DOMAIN index = 1 .. n
    BY <2>1
  <2>. QED
    BY <2>1, <2>2 DEF RedactPasswords, FoldLeftDomain, FoldLeft, MapThenFoldSet
<1>8. RecursionIn(n, T, base, step, h)
  <2>. HIDE DEF h, T, n, base, op
  <2>1. h[{}] = base
    BY <1>6
  <2>2. ASSUME NEW t \in SUBSET (1 .. n), t # {}, h[t \ {Max(t)}] \in T
        PROVE  h[t] = step[<<Max(t), h[t \ {Max(t)}]>>]
    <3>1. Max(t) \in 1 .. n
      BY <1>1, <2>2, HasMax
    <3>2. h[t] = op(h[t \ {Max(t)}], Max(t))
      BY <1>6, <2>2
    <3>. QED
      BY <2>2, <3>1, <3>2
  <2>. QED
    BY <2>1, <2>2 DEF RecursionIn
<1>9. PICK f \in [0 .. n -> T] : Steps(n, base, step, h, f)
  <2>. HIDE DEF step, T, n, base, op, h, Solves
  <2>. QED
    BY <1>1, <1>3, <1>8, FoldSteps
<1>10. ASSUME NEW m \in 1 .. n PROVE f[m] = op(f[m - 1], m)
  <2>. HIDE DEF T, op
  <2>1. m - 1 \in 0 .. n
    OBVIOUS
  <2>. QED
    BY <1>9, <2>1 DEF Steps
<1>11. \A m \in 1 .. n : index[m] = m
  OBVIOUS
<1>12. /\ f[0] = base /\ f[n] = RedactPasswords(scan)
       /\ \A m \in 1 .. n : f[m] = IF Bracketed(Passwords(scan.text)[m]) THEN f[m - 1]
                 ELSE Substituted(f[m - 1], Passwords(scan.text)[m], Atom("[PASSWORD_CONTEXT]", m))
  <2>. HIDE DEF h, n, T, base, index
  <2>. QED
    BY <1>7, <1>9, <1>10, <1>11 DEF Steps
<1>. QED
  BY <1>9, <1>12 DEF PasswordsReplaced

LEMMA RedactPasswordsIn ==
    ASSUME NEW A, NEW V, NEW text, PlaceholderAtoms \subseteq A, A \subseteq V,
           NEW scan \in Scans(A, V, text)
    PROVE  RedactPasswords(scan) \in Scans(A, V, text)
<1>. DEFINE n == Len(Passwords(scan.text))
<1>1. PICK f \in [0 .. n -> Scans(A, V, text)] : f[n] = RedactPasswords(scan)
  BY RedactPasswordsSteps DEF PasswordsReplaced
<1>2. n \in 0 .. n
  <2>1. Passwords(scan.text) \in Seq(Seq(V))
    BY PasswordsIn DEF Scans
  <2>. QED
    BY <2>1
<1>. QED
  BY <1>1, <1>2

LEMMA NamesIn ==
    ASSUME NEW A, NEW V, A \subseteq V, NEW text \in Seq(A), NEW presidio \in BOOLEAN
    PROVE  Names(text, presidio) \in Seq(Seq(V))
<1>1. TitledNames(text) \in Seq(Seq(A))
  <2>. DEFINE places == [i \in DOMAIN text |-> i]
              S == {i \in DOMAIN text : /\ text[i].kind = "name" /\ i > 2
                                        /\ text[i - 1] = Space /\ text[i - 2].kind = "title"}
              found == Kept(places, S)
  <2>1. places \in Seq(1 .. Len(text))
    OBVIOUS
  <2>. HIDE DEF places, S
  <2>2. found \in Seq(1 .. Len(text))
    BY <2>1, KeptIn
  <2>. HIDE DEF found
  <2>3. ASSUME NEW i \in 1 .. Len(found) PROVE <<text[found[i]]>> \in Seq(A)
    <3>1. found[i] \in 1 .. Len(text)
      BY <2>2
    <3>. QED
      BY <3>1
  <2>4. DOMAIN found = 1 .. Len(found) /\ Len(found) \in Nat
    BY <2>2
  <2>5. [i \in 1 .. Len(found) |-> <<text[found[i]]>>] \in Seq(Seq(A))
    BY <2>3, <2>4
  <2>. QED
    BY <2>4, <2>5 DEF TitledNames, found, places, S
<1>2. Found(text, "name") \in Seq(Seq(A))
  BY FoundIs
<1>3. (IF presidio THEN Found(text, "name") ELSE <<>>) \in Seq(Seq(A))
  BY <1>2
<1>4. Names(text, presidio) \in Seq(Seq(A))
  BY <1>1, <1>3, ConcatProperties DEF Names
<1>. QED
  BY <1>4, TextsOverMore

\* What RedactNames passes through.
NamesReplaced(scan, presidio, f) ==
    /\ f[0] = scan /\ f[Len(Names(scan.text, presidio))] = RedactNames(scan, presidio)
    /\ \A m \in 1 .. Len(Names(scan.text, presidio)) : f[m] = IF Places(Names(scan.text, presidio)[m], f[m - 1].text) # {}
                 THEN Substituted(f[m - 1], Names(scan.text, presidio)[m], Atom("[PERSON_NAME]", m))
                 ELSE f[m - 1]

LEMMA RedactNamesSteps ==
    ASSUME NEW A, NEW V, NEW text, PlaceholderAtoms \subseteq A, A \subseteq V,
           NEW scan \in Scans(A, V, text), NEW presidio \in BOOLEAN
    PROVE  \E f \in [0 .. Len(Names(scan.text, presidio)) -> Scans(A, V, text)] : NamesReplaced(scan, presidio, f)
<1>. DEFINE n == Len(Names(scan.text, presidio))
            T == Scans(A, V, text)
            base == scan
            index == [i \in DOMAIN Names(scan.text, presidio) |-> i]
            op(b, m) == IF Places(Names(scan.text, presidio)[index[m]], b.text) # {}
                 THEN Substituted(b, Names(scan.text, presidio)[index[m]], Atom("[PERSON_NAME]", index[m]))
                 ELSE b
            step == [p \in (1 .. n) \X T |-> op(p[2], p[1])]
            Solves(g) == g = [t \in SUBSET (1 .. n) |->
                                IF t = {} THEN base ELSE op(g[t \ {Max(t)}], Max(t))]
            h == CHOOSE g : Solves(g)
<1>1. n \in Nat /\ base \in T
  <2>1. Names(scan.text, presidio) \in Seq(Seq(V))
    BY NamesIn DEF Scans
  <2>. QED
    BY <2>1
<1>2. ASSUME NEW m \in 1 .. n, NEW b \in T PROVE op(b, m) \in T
  <2>1. Names(scan.text, presidio) \in Seq(Seq(V))
    BY NamesIn DEF Scans
  <2>2. Names(scan.text, presidio)[m] \in Seq(V) /\ index[m] = m
    BY <2>1
  <2>3. Atom("[PERSON_NAME]", m) \in PlaceholderAtoms
    BY <1>1, PlaceholderIs DEF Placeholders
  <2>. HIDE DEF n
  <2>. QED
    BY <2>2, <2>3, SubstitutedIs
<1>3. step \in [(1 .. n) \X T -> T]
  <2>. HIDE DEF op, T, n
  <2>. QED
    BY <1>2
<1>4. PICK g \in [SUBSET (1 .. n) -> T] : Recursion(n, base, step, g)
  <2>. HIDE DEF step, T, n, base, op, h, Solves
  <2>. QED
    BY <1>1, <1>3, FoldExists
<1>5. Solves(g)
  <2>1. ASSUME NEW t \in SUBSET (1 .. n)
        PROVE  g[t] = IF t = {} THEN base ELSE op(g[t \ {Max(t)}], Max(t))
    <3>1. SolvedAt(n, T, base, step, g, t)
      <4>. HIDE DEF step, T, n, base, op, h, Solves
      <4>. QED
        BY <1>1, <1>3, <1>4, Solution
    <3>. HIDE DEF T, n, base, op
    <3>. QED
      BY <3>1 DEF SolvedAt
  <2>2. g = [t \in SUBSET (1 .. n) |-> g[t]]
    OBVIOUS
  <2>. HIDE DEF T, n, base, op
  <2>. QED
    BY <2>1, <2>2
<1>6. Solves(h)
  <2>. HIDE DEF Solves
  <2>. QED
    BY <1>5
<1>7. RedactNames(scan, presidio) = h[1 .. n]
  <2>1. DOMAIN Names(scan.text, presidio) = 1 .. n
    OBVIOUS
  <2>2. DOMAIN index = 1 .. n
    BY <2>1
  <2>. QED
    BY <2>1, <2>2 DEF RedactNames, FoldLeftDomain, FoldLeft, MapThenFoldSet
<1>8. RecursionIn(n, T, base, step, h)
  <2>. HIDE DEF h, T, n, base, op
  <2>1. h[{}] = base
    BY <1>6
  <2>2. ASSUME NEW t \in SUBSET (1 .. n), t # {}, h[t \ {Max(t)}] \in T
        PROVE  h[t] = step[<<Max(t), h[t \ {Max(t)}]>>]
    <3>1. Max(t) \in 1 .. n
      BY <1>1, <2>2, HasMax
    <3>2. h[t] = op(h[t \ {Max(t)}], Max(t))
      BY <1>6, <2>2
    <3>. QED
      BY <2>2, <3>1, <3>2
  <2>. QED
    BY <2>1, <2>2 DEF RecursionIn
<1>9. PICK f \in [0 .. n -> T] : Steps(n, base, step, h, f)
  <2>. HIDE DEF step, T, n, base, op, h, Solves
  <2>. QED
    BY <1>1, <1>3, <1>8, FoldSteps
<1>10. ASSUME NEW m \in 1 .. n PROVE f[m] = op(f[m - 1], m)
  <2>. HIDE DEF T, op
  <2>1. m - 1 \in 0 .. n
    OBVIOUS
  <2>. QED
    BY <1>9, <2>1 DEF Steps
<1>11. \A m \in 1 .. n : index[m] = m
  OBVIOUS
<1>12. /\ f[0] = base /\ f[n] = RedactNames(scan, presidio)
       /\ \A m \in 1 .. n : f[m] = IF Places(Names(scan.text, presidio)[m], f[m - 1].text) # {}
                 THEN Substituted(f[m - 1], Names(scan.text, presidio)[m], Atom("[PERSON_NAME]", m))
                 ELSE f[m - 1]
  <2>. HIDE DEF h, n, T, base, index
  <2>. QED
    BY <1>7, <1>9, <1>10, <1>11 DEF Steps
<1>. QED
  BY <1>9, <1>12 DEF NamesReplaced

LEMMA RedactNamesIn ==
    ASSUME NEW A, NEW V, NEW text, PlaceholderAtoms \subseteq A, A \subseteq V,
           NEW scan \in Scans(A, V, text), NEW presidio \in BOOLEAN
    PROVE  RedactNames(scan, presidio) \in Scans(A, V, text)
<1>. DEFINE n == Len(Names(scan.text, presidio))
<1>1. PICK f \in [0 .. n -> Scans(A, V, text)] : f[n] = RedactNames(scan, presidio)
  BY RedactNamesSteps DEF NamesReplaced
<1>2. n \in 0 .. n
  <2>1. Names(scan.text, presidio) \in Seq(Seq(V))
    BY NamesIn DEF Scans
  <2>. QED
    BY <2>1
<1>. QED
  BY <1>1, <1>2

LEMMA RedactHighEntropyIn ==
    ASSUME NEW A, NEW V, NEW text, PlaceholderAtoms \subseteq A, A \subseteq V,
           NEW scan \in Scans(A, V, text)
    PROVE  RedactHighEntropy(scan) \in Scans(A, V, text)
<1>. DEFINE words == Fields(scan.text)
            secrets == Kept(words, {word \in ToSet(words) : IsHighEntropy(word)})
<1>1. words \in Seq(Seq(A))
  BY FieldsIn DEF Scans
<1>. HIDE DEF words
<1>2. secrets \in Seq(Seq(A))
  BY <1>1, KeptIn
<1>. HIDE DEF secrets
<1>3. secrets \in Seq(Seq(V))
  BY <1>2, TextsOverMore
<1>4. Numbered(scan, secrets, "[HIGH_ENTROPY_SECRET]") \in Scans(A, V, text)
  BY <1>3, NumberedIn DEF Placeholders
<1>. QED
  BY <1>4 DEF RedactHighEntropy, secrets, words

\* What ReplacedAll passes through.
ReplacedAllThrough(text, placeholder, value, f) ==
    /\ f[0] = <<>> /\ f[Len(text)] = ReplacedAll(text, placeholder, value)
    /\ \A m \in 1 .. Len(text) : f[m] = f[m - 1] \o (IF text[m] = placeholder THEN value ELSE <<text[m]>>)

LEMMA ReplacedAllSteps ==
    ASSUME NEW B, NEW text \in Seq(B), NEW placeholder, NEW value \in Seq(B)
    PROVE  \E f \in [0 .. Len(text) -> Seq(B)] : ReplacedAllThrough(text, placeholder, value, f)
<1>. DEFINE n == Len(text)
            T == Seq(B)
            base == <<>>
            op(b, m) == b \o (IF text[m] = placeholder THEN value ELSE <<text[m]>>)
            step == [p \in (1 .. n) \X T |-> op(p[2], p[1])]
            Solves(g) == g = [t \in SUBSET (1 .. n) |->
                                IF t = {} THEN base ELSE op(g[t \ {Max(t)}], Max(t))]
            h == CHOOSE g : Solves(g)
<1>1. n \in Nat /\ base \in T
  OBVIOUS
<1>2. ASSUME NEW m \in 1 .. n, NEW b \in T PROVE op(b, m) \in T
  <2>1. text[m] \in B
    OBVIOUS
  <2>2. (IF text[m] = placeholder THEN value ELSE <<text[m]>>) \in Seq(B)
    BY <2>1
  <2>. QED
    BY <2>2, ConcatProperties
<1>3. step \in [(1 .. n) \X T -> T]
  <2>. HIDE DEF op, T, n
  <2>. QED
    BY <1>2
<1>4. PICK g \in [SUBSET (1 .. n) -> T] : Recursion(n, base, step, g)
  <2>. HIDE DEF step, T, n, base, op, h, Solves
  <2>. QED
    BY <1>1, <1>3, FoldExists
<1>5. Solves(g)
  <2>1. ASSUME NEW t \in SUBSET (1 .. n)
        PROVE  g[t] = IF t = {} THEN base ELSE op(g[t \ {Max(t)}], Max(t))
    <3>1. SolvedAt(n, T, base, step, g, t)
      <4>. HIDE DEF step, T, n, base, op, h, Solves
      <4>. QED
        BY <1>1, <1>3, <1>4, Solution
    <3>. HIDE DEF T, n, base, op
    <3>. QED
      BY <3>1 DEF SolvedAt
  <2>2. g = [t \in SUBSET (1 .. n) |-> g[t]]
    OBVIOUS
  <2>. HIDE DEF T, n, base, op
  <2>. QED
    BY <2>1, <2>2
<1>6. Solves(h)
  <2>. HIDE DEF Solves
  <2>. QED
    BY <1>5
<1>7. ReplacedAll(text, placeholder, value) = h[1 .. n]
  <2>1. DOMAIN text = 1 .. n
    OBVIOUS
  <2>. QED
    BY <2>1 DEF ReplacedAll, FoldLeft, MapThenFoldSet
<1>8. RecursionIn(n, T, base, step, h)
  <2>. HIDE DEF h, T, n, base, op
  <2>1. h[{}] = base
    BY <1>6
  <2>2. ASSUME NEW t \in SUBSET (1 .. n), t # {}, h[t \ {Max(t)}] \in T
        PROVE  h[t] = step[<<Max(t), h[t \ {Max(t)}]>>]
    <3>1. Max(t) \in 1 .. n
      BY <1>1, <2>2, HasMax
    <3>2. h[t] = op(h[t \ {Max(t)}], Max(t))
      BY <1>6, <2>2
    <3>. QED
      BY <2>2, <3>1, <3>2
  <2>. QED
    BY <2>1, <2>2 DEF RecursionIn
<1>9. PICK f \in [0 .. n -> T] : Steps(n, base, step, h, f)
  <2>. HIDE DEF step, T, n, base, op, h, Solves
  <2>. QED
    BY <1>1, <1>3, <1>8, FoldSteps
<1>10. ASSUME NEW m \in 1 .. n PROVE f[m] = op(f[m - 1], m)
  <2>. HIDE DEF T, op
  <2>1. m - 1 \in 0 .. n
    OBVIOUS
  <2>. QED
    BY <1>9, <2>1 DEF Steps
<1>12. /\ f[0] = base /\ f[n] = ReplacedAll(text, placeholder, value)
       /\ \A m \in 1 .. n : f[m] = f[m - 1] \o (IF text[m] = placeholder THEN value ELSE <<text[m]>>)
  <2>. HIDE DEF h, n, T, base
  <2>. QED
    BY <1>7, <1>9, <1>10 DEF Steps
<1>. QED
  BY <1>9, <1>12 DEF ReplacedAllThrough

LEMMA ReplacedAllIn ==
    ASSUME NEW B, NEW text \in Seq(B), NEW placeholder, NEW value \in Seq(B)
    PROVE  ReplacedAll(text, placeholder, value) \in Seq(B)
<1>1. PICK f \in [0 .. Len(text) -> Seq(B)] : ReplacedAllThrough(text, placeholder, value, f)
  BY ReplacedAllSteps
<1>2. Len(text) \in 0 .. Len(text)
  OBVIOUS
<1>3. f[Len(text)] = ReplacedAll(text, placeholder, value)
  BY <1>1 DEF ReplacedAllThrough
<1>. QED
  BY <1>2, <1>3

\* What Rehydrate passes through.
RehydrateThrough(text, map, order, f) ==
    /\ f[0] = text /\ f[Len(order)] = Rehydrate(text, map, order)
    /\ \A m \in 1 .. Len(order) : f[m] = ReplacedAll(f[m - 1], order[m], map[order[m]])

LEMMA RehydrateSteps ==
    ASSUME NEW B, NEW text \in Seq(B), NEW map \in Mappings(B),
           NEW order \in Seq(DOMAIN map)
    PROVE  \E f \in [0 .. Len(order) -> Seq(B)] : RehydrateThrough(text, map, order, f)
<1>. DEFINE n == Len(order)
            T == Seq(B)
            base == text
            op(b, m) == ReplacedAll(b, order[m], map[order[m]])
            step == [p \in (1 .. n) \X T |-> op(p[2], p[1])]
            Solves(g) == g = [t \in SUBSET (1 .. n) |->
                                IF t = {} THEN base ELSE op(g[t \ {Max(t)}], Max(t))]
            h == CHOOSE g : Solves(g)
<1>1. n \in Nat /\ base \in T
  OBVIOUS
<1>2. ASSUME NEW m \in 1 .. n, NEW b \in T PROVE op(b, m) \in T
  <2>1. order[m] \in DOMAIN map
    OBVIOUS
  <2>2. map[order[m]] \in Seq(B)
    BY <2>1, MappingIs
  <2>. QED
    BY <2>2, ReplacedAllIn
<1>3. step \in [(1 .. n) \X T -> T]
  <2>. HIDE DEF op, T, n
  <2>. QED
    BY <1>2
<1>4. PICK g \in [SUBSET (1 .. n) -> T] : Recursion(n, base, step, g)
  <2>. HIDE DEF step, T, n, base, op, h, Solves
  <2>. QED
    BY <1>1, <1>3, FoldExists
<1>5. Solves(g)
  <2>1. ASSUME NEW t \in SUBSET (1 .. n)
        PROVE  g[t] = IF t = {} THEN base ELSE op(g[t \ {Max(t)}], Max(t))
    <3>1. SolvedAt(n, T, base, step, g, t)
      <4>. HIDE DEF step, T, n, base, op, h, Solves
      <4>. QED
        BY <1>1, <1>3, <1>4, Solution
    <3>. HIDE DEF T, n, base, op
    <3>. QED
      BY <3>1 DEF SolvedAt
  <2>2. g = [t \in SUBSET (1 .. n) |-> g[t]]
    OBVIOUS
  <2>. HIDE DEF T, n, base, op
  <2>. QED
    BY <2>1, <2>2
<1>6. Solves(h)
  <2>. HIDE DEF Solves
  <2>. QED
    BY <1>5
<1>7. Rehydrate(text, map, order) = h[1 .. n]
  <2>1. DOMAIN order = 1 .. n
    OBVIOUS
  <2>. QED
    BY <2>1 DEF Rehydrate, FoldLeft, MapThenFoldSet
<1>8. RecursionIn(n, T, base, step, h)
  <2>. HIDE DEF h, T, n, base, op
  <2>1. h[{}] = base
    BY <1>6
  <2>2. ASSUME NEW t \in SUBSET (1 .. n), t # {}, h[t \ {Max(t)}] \in T
        PROVE  h[t] = step[<<Max(t), h[t \ {Max(t)}]>>]
    <3>1. Max(t) \in 1 .. n
      BY <1>1, <2>2, HasMax
    <3>2. h[t] = op(h[t \ {Max(t)}], Max(t))
      BY <1>6, <2>2
    <3>. QED
      BY <2>2, <3>1, <3>2
  <2>. QED
    BY <2>1, <2>2 DEF RecursionIn
<1>9. PICK f \in [0 .. n -> T] : Steps(n, base, step, h, f)
  <2>. HIDE DEF step, T, n, base, op, h, Solves
  <2>. QED
    BY <1>1, <1>3, <1>8, FoldSteps
<1>10. ASSUME NEW m \in 1 .. n PROVE f[m] = op(f[m - 1], m)
  <2>. HIDE DEF T, op
  <2>1. m - 1 \in 0 .. n
    OBVIOUS
  <2>. QED
    BY <1>9, <2>1 DEF Steps
<1>12. /\ f[0] = base /\ f[n] = Rehydrate(text, map, order)
       /\ \A m \in 1 .. n : f[m] = ReplacedAll(f[m - 1], order[m], map[order[m]])
  <2>. HIDE DEF h, n, T, base
  <2>. QED
    BY <1>7, <1>9, <1>10 DEF Steps
<1>. QED
  BY <1>9, <1>12 DEF RehydrateThrough

LEMMA RehydrateIn ==
    ASSUME NEW B, NEW text \in Seq(B), NEW map \in Mappings(B), NEW order \in Seq(DOMAIN map)
    PROVE  Rehydrate(text, map, order) \in Seq(B)
<1>1. PICK f \in [0 .. Len(order) -> Seq(B)] : f[Len(order)] = Rehydrate(text, map, order)
  BY RehydrateSteps DEF RehydrateThrough
<1>2. Len(order) \in 0 .. Len(order)
  OBVIOUS
<1>. QED
  BY <1>1, <1>2

LEMMA WithoutIs ==
    ASSUME NEW A, PlaceholderAtoms \subseteq A, NEW kind, kind \notin Placeholders
    PROVE  PlaceholderAtoms \subseteq Without(A, kind) /\ Without(A, kind) \subseteq A
BY DEF Without, PlaceholderAtoms

Unsearched(A) == {atom \in A : atom.kind \notin SearchedKinds}

\* What Sanitize makes of a text has nothing in it that a pattern matches.
LEMMA SanitizeIn ==
    ASSUME NEW A, PlaceholderAtoms \subseteq A, NEW text \in Seq(A), NEW presidio \in BOOLEAN
    PROVE  Sanitize(text, on, presidio) \in Scans(Unsearched(A), A, text)
<1>. DEFINE both(s) == RedactCards(RedactIBANs(s))
            asked(s) == RedactNames(s, presidio)
            emails  == When("EmailRedaction" \in on, RedactEmails, Scan(text))
            phones  == When("PhoneRedaction" \in on, RedactPhones, emails)
            finance == When("EmailRedaction" \in on, both, phones)
            context == When(on \cap {"EntropyScanner", "ApiKeyProtection"} # {},
                            RedactPasswords, finance)
            names   == When("NerEnabled" \in on, asked, context)
            secrets == When("ApiKeyProtection" \in on, RedactKeys, names)
            final   == When("EntropyScanner" \in on, RedactHighEntropy, secrets)
            A1 == IF "EmailRedaction" \in on THEN Without(A, "email") ELSE A
            A2 == IF "PhoneRedaction" \in on THEN Without(A1, "phone") ELSE A1
            A3 == IF "EmailRedaction" \in on THEN Without(Without(A2, "iban"), "card") ELSE A2
            A4 == IF "ApiKeyProtection" \in on THEN Without(A3, "key") ELSE A3
<1>1. Sanitize(text, on, presidio) = final
  BY DEF Sanitize
<1>2. {"email", "phone", "iban", "card", "key"} \cap Placeholders = {}
  BY DEF Placeholders
<1>3. {"[EMAIL]", "[PHONE]", "[CREDIT_CARD]", "[KEY]"} \subseteq Placeholders
  BY DEF Placeholders
<1>4. Scan(text) \in Scans(A, A, text)
  BY EmptyMapping DEF Scan, Scans
<1>5. PlaceholderAtoms \subseteq A1 /\ A1 \subseteq A
  BY <1>2, WithoutIs
<1>6. emails \in Scans(A1, A, text)
  <2>1. CASE "EmailRedaction" \in on
    <3>1. Numbered(Scan(text), Found(Scan(text).text, "email"), "[EMAIL]")
             \in Scans(Without(A, "email"), A, text)
      BY <1>2, <1>3, <1>4, NumberedFound
    <3>. QED
      BY <2>1, <3>1 DEF When, RedactEmails
  <2>2. CASE "EmailRedaction" \notin on
    BY <1>4, <2>2 DEF When
  <2>. QED
    BY <2>1, <2>2
<1>. HIDE DEF A1, emails
<1>7. PlaceholderAtoms \subseteq A2 /\ A2 \subseteq A1
  BY <1>2, <1>5, WithoutIs
<1>8. phones \in Scans(A2, A, text)
  <2>1. CASE "PhoneRedaction" \in on
    <3>1. Numbered(emails, Found(emails.text, "phone"), "[PHONE]")
             \in Scans(Without(A1, "phone"), A, text)
      BY <1>2, <1>3, <1>5, <1>6, NumberedFound
    <3>. QED
      BY <2>1, <3>1 DEF When, RedactPhones
  <2>2. CASE "PhoneRedaction" \notin on
    BY <1>6, <2>2 DEF When
  <2>. QED
    BY <2>1, <2>2
<1>9. A2 \subseteq A
  BY <1>5, <1>7
<1>. HIDE DEF A2, phones
<1>. DEFINE I == Without(A2, "iban")
<1>10. /\ PlaceholderAtoms \subseteq I /\ I \subseteq A2
       /\ PlaceholderAtoms \subseteq Without(I, "card") /\ Without(I, "card") \subseteq I
  <2>1. PlaceholderAtoms \subseteq I /\ I \subseteq A2
    BY <1>2, <1>7, WithoutIs
  <2>. HIDE DEF I
  <2>2. PlaceholderAtoms \subseteq Without(I, "card") /\ Without(I, "card") \subseteq I
    BY <1>2, <2>1, WithoutIs
  <2>. QED
    BY <2>1, <2>2
<1>11. PlaceholderAtoms \subseteq A3 /\ A3 \subseteq A
  BY <1>7, <1>9, <1>10
<1>12. finance \in Scans(A3, A, text)
  <2>1. CASE "EmailRedaction" \in on
    <3>. DEFINE ibans == RedactIBANs(phones)
    <3>1. ibans \in Scans(I, A, text)
      BY <1>7, <1>8, <1>9, IBANsGone
    <3>. HIDE DEF ibans, I
    <3>2. I \subseteq A
      BY <1>9, <1>10
    <3>3. Numbered(ibans, Found(ibans.text, "card"), "[CREDIT_CARD]")
             \in Scans(Without(I, "card"), A, text)
      BY <1>2, <1>3, <1>10, <3>1, <3>2, NumberedFound
    <3>. QED
      BY <2>1, <3>3 DEF When, RedactCards, ibans, I
  <2>2. CASE "EmailRedaction" \notin on
    BY <1>8, <2>2 DEF When
  <2>. QED
    BY <2>1, <2>2
<1>. HIDE DEF A3, finance
<1>13. context \in Scans(A3, A, text)
  <2>1. RedactPasswords(finance) \in Scans(A3, A, text)
    BY <1>11, <1>12, RedactPasswordsIn
  <2>. QED
    BY <1>12, <2>1 DEF When
<1>. HIDE DEF context
<1>14. names \in Scans(A3, A, text)
  <2>1. RedactNames(context, presidio) \in Scans(A3, A, text)
    BY <1>11, <1>13, RedactNamesIn
  <2>. QED
    BY <1>13, <2>1 DEF When
<1>. HIDE DEF names
<1>15. PlaceholderAtoms \subseteq A4 /\ A4 \subseteq A
  <2>1. PlaceholderAtoms \subseteq Without(A3, "key") /\ Without(A3, "key") \subseteq A3
    BY <1>2, <1>11, WithoutIs
  <2>. QED
    BY <1>11, <2>1
<1>16. secrets \in Scans(A4, A, text)
  <2>1. CASE "ApiKeyProtection" \in on
    <3>1. Numbered(names, Found(names.text, "key"), "[KEY]")
             \in Scans(Without(A3, "key"), A, text)
      BY <1>2, <1>3, <1>11, <1>14, NumberedFound
    <3>. QED
      BY <2>1, <3>1 DEF When, RedactKeys
  <2>2. CASE "ApiKeyProtection" \notin on
    BY <1>14, <2>2 DEF When
  <2>. QED
    BY <2>1, <2>2
<1>17. A4 \subseteq Unsearched(A)
  BY DEF A1, A2, A3, Without, Unsearched, SearchedKinds
<1>. HIDE DEF A4, secrets
<1>18. final \in Scans(A4, A, text)
  <2>1. RedactHighEntropy(secrets) \in Scans(A4, A, text)
    BY <1>15, <1>16, RedactHighEntropyIn
  <2>. QED
    BY <1>16, <2>1 DEF When
<1>. HIDE DEF final
<1>19. final.text \in Seq(Unsearched(A))
  <2>1. final.text \in Seq(A4)
    BY <1>18 DEF Scans
  <2>. QED
    BY <1>17, <2>1, SeqMonotonic
<1>. QED
  BY <1>1, <1>18, <1>19 DEF Scans

LEMMA OverItsAtoms ==
    ASSUME NEW X, NEW s \in Seq(X)
    PROVE  s \in Seq(AtomsOf(s))
<1>1. s = [i \in 1 .. Len(s) |-> s[i]] /\ \A i \in 1 .. Len(s) : s[i] \in AtomsOf(s)
  BY DEF AtomsOf, ToSet
<1>2. Len(s) \in Nat
  OBVIOUS
<1>3. s \in [1 .. Len(s) -> AtomsOf(s)]
  BY <1>1
<1>. QED
  BY <1>2, <1>3

LEMMA AtomsAre ==
    ASSUME NEW X, NEW s \in Seq(X), NEW atom \in AtomsOf(s)
    PROVE  atom \in X
BY DEF AtomsOf, ToSet

-----------------------------------------------------------------------------
(* Where a text is replaced *)

StandsAt(value, text, i) ==
    /\ i \in 1 .. (Len(text) + 1 - Len(value))
    /\ \A j \in 1 .. Len(value) : text[i + j - 1] = value[j]

\* new is t with p in the place of the value, at i.
PutAt(t, new, i, value, p) ==
    /\ Len(new) = Len(t) + 1 - Len(value)
    /\ \A j \in 1 .. Len(new) :
          new[j] = IF j < i THEN t[j] ELSE IF j = i THEN p ELSE t[j + Len(value) - 1]

\* That is where the value first occurs.
Spliced(t, new, i, value, p) ==
    /\ StandsAt(value, t, i)
    /\ \A k \in 1 .. Len(t) : StandsAt(value, t, k) => i <= k
    /\ PutAt(t, new, i, value, p)

LEMMA PlacesAre ==
    ASSUME NEW A, NEW t \in Seq(A), NEW V, NEW value \in Seq(V), value # <<>>, NEW i
    PROVE  i \in Places(value, t) <=> StandsAt(value, t, i)
<1>1. Len(t) \in Nat /\ Len(value) \in Nat /\ Len(value) >= 1
  OBVIOUS
<1>. SUFFICES ASSUME i \in 1 .. (Len(t) + 1 - Len(value))
              PROVE  SubSeq(t, i, i + Len(value) - 1) = value
                     <=> \A j \in 1 .. Len(value) : t[i + j - 1] = value[j]
  BY <1>1 DEF Places, StandsAt
<1>. DEFINE s == SubSeq(t, i, i + Len(value) - 1)
<1>2. \A j \in i .. (i + Len(value) - 1) : t[j] \in A
  BY <1>1
<1>3. /\ s \in Seq(A) /\ Len(s) = Len(value)
      /\ \A j \in 1 .. Len(value) : s[j] = t[i + j - 1]
  BY <1>1, <1>2, SubSeqProperties
<1>. HIDE DEF s
<1>4. ASSUME \A j \in 1 .. Len(value) : s[j] = value[j] PROVE s = value
  <2>1. s \in Seq(A \cup V) /\ value \in Seq(A \cup V)
    BY <1>3, SeqMonotonic
  <2>. QED
    BY <1>3, <1>4, <2>1, SeqEqual
<1>. QED
  BY <1>3, <1>4 DEF s

LEMMA SplicedThere ==
    ASSUME NEW A, NEW t \in Seq(A), NEW V, NEW value \in Seq(V), value # <<>>, NEW p,
           NEW i, StandsAt(value, t, i), NEW new,
           new = ReplaceSubSeqAt(i, <<p>>, value, t)
    PROVE  PutAt(t, new, i, value, p)
<1>. DEFINE B == A \cup {p}
            a == SubSeq(t, 1, i - 1)
            c == SubSeq(t, i + Len(value), Len(t))
            d == <<p>>
<1>1. /\ Len(t) \in Nat /\ Len(value) \in Nat /\ Len(value) >= 1
      /\ i \in Nat /\ i >= 1 /\ i <= Len(t) + 1 - Len(value)
  BY DEF StandsAt
<1>2. t \in Seq(B)
  BY SeqMonotonic
<1>3. a \in Seq(B) /\ Len(a) = i - 1 /\ \A j \in 1 .. (i - 1) : a[j] = t[j]
  <2>1. \A j \in 1 .. (i - 1) : t[j] \in B
    BY <1>1, <1>2
  <2>. QED
    BY <1>1, <2>1, SubSeqProperties
<1>4. /\ c \in Seq(B) /\ Len(c) = Len(t) + 1 - (i + Len(value))
      /\ \A j \in 1 .. Len(c) : c[j] = t[i + Len(value) + j - 1]
  <2>1. \A j \in (i + Len(value)) .. Len(t) : t[j] \in B
    BY <1>1, <1>2
  <2>. QED
    BY <1>1, <2>1, SubSeqProperties
<1>5. d \in Seq(B) /\ Len(d) = 1 /\ d[1] = p
  OBVIOUS
<1>6. new = (a \o d) \o c
  BY DEF ReplaceSubSeqAt
<1>. HIDE DEF a, c, d, B
<1>7. a \in Seq(B) /\ c \in Seq(B) /\ d \in Seq(B)
  BY <1>3, <1>4, <1>5
<1>. DEFINE b == a \o d
<1>8. /\ b \in Seq(B) /\ Len(b) = Len(a) + Len(d)
      /\ \A j \in 1 .. Len(a) + Len(d) : b[j] = IF j <= Len(a) THEN a[j] ELSE d[j - Len(a)]
  BY <1>7, ConcatProperties
<1>9. new = b \o c
  BY <1>6
<1>. HIDE DEF b
<1>14. b \in Seq(B)
  BY <1>8
<1>10. /\ Len(b \o c) = Len(b) + Len(c)
       /\ \A j \in 1 .. Len(b) + Len(c) : (b \o c)[j] = IF j <= Len(b) THEN b[j] ELSE c[j - Len(b)]
  BY <1>7, <1>14, ConcatProperties
<1>11. /\ Len(b) = i /\ Len(new) = i + Len(c)
       /\ \A j \in 1 .. i : b[j] = IF j < i THEN t[j] ELSE p
       /\ \A j \in 1 .. Len(new) : new[j] = IF j <= i THEN b[j] ELSE c[j - i]
  <2>1. Len(b) = i
    BY <1>1, <1>3, <1>5, <1>8
  <2>2. ASSUME NEW j \in 1 .. i PROVE b[j] = IF j < i THEN t[j] ELSE p
    <3>1. b[j] = IF j <= i - 1 THEN a[j] ELSE d[j - (i - 1)]
      BY <1>1, <1>3, <1>5, <1>8
    <3>2. CASE j < i
      BY <1>1, <1>3, <3>1, <3>2
    <3>3. CASE j = i
      BY <1>1, <1>5, <3>1, <3>3
    <3>. QED
      BY <1>1, <3>2, <3>3
  <2>. QED
    BY <1>9, <1>10, <2>1, <2>2
<1>12. Len(new) = Len(t) + 1 - Len(value)
  BY <1>1, <1>4, <1>11
<1>13. ASSUME NEW j \in 1 .. Len(new)
       PROVE  new[j] = IF j < i THEN t[j] ELSE IF j = i THEN p ELSE t[j + Len(value) - 1]
  <2>1. CASE j <= i
    BY <1>1, <1>11, <2>1
  <2>2. CASE j > i
    <3>1. j - i \in 1 .. Len(c)
      BY <1>1, <1>4, <1>11, <2>2
    <3>2. c[j - i] = t[i + Len(value) + (j - i) - 1]
      BY <1>4, <3>1
    <3>3. i + Len(value) + (j - i) - 1 = j + Len(value) - 1
      BY <1>1
    <3>. QED
      BY <1>1, <1>11, <2>2, <3>2, <3>3
  <2>. QED
    BY <1>1, <1>4, <1>11, <2>1, <2>2
<1>. QED
  BY <1>12, <1>13 DEF PutAt

\* A value that is there is replaced where it first occurs.
LEMMA SubstitutedAt ==
    ASSUME NEW A, NEW scan, scan.text \in Seq(A), NEW V, NEW value \in Seq(V), value # <<>>, NEW p
    PROVE  \/ /\ Places(value, scan.text) = {}
              /\ Substituted(scan, value, p).text = scan.text
           \/ \E i : Spliced(scan.text, Substituted(scan, value, p).text, i, value, p)
<1>. DEFINE t == scan.text
            i == Min(Places(value, t))
            new == Substituted(scan, value, p).text
<1>1. new = IF Places(value, t) = {} THEN t ELSE ReplaceSubSeqAt(i, <<p>>, value, t)
  BY DEF Substituted
<1>. SUFFICES ASSUME Places(value, t) # {} PROVE Spliced(t, new, i, value, p)
  BY <1>1
<1>2. \A k : k \in Places(value, t) <=> StandsAt(value, t, k)
  BY PlacesAre
<1>3. Places(value, t) \subseteq Nat
  <2>1. Len(t) \in Nat /\ Len(value) \in Nat
    OBVIOUS
  <2>. QED
    BY <1>2, <2>1 DEF StandsAt
<1>4. i \in Places(value, t) /\ \A k \in Places(value, t) : i <= k
  BY <1>3, MinIs
<1>5. t \in Seq(A)
  OBVIOUS
<1>. HIDE DEF new, i, t
<1>6. StandsAt(value, t, i)
  BY <1>2, <1>4
<1>7. new = ReplaceSubSeqAt(i, <<p>>, value, t)
  BY <1>1
<1>8. PutAt(t, new, i, value, p)
  BY <1>5, <1>6, <1>7, SplicedThere
<1>. QED
  BY <1>2, <1>4, <1>6, <1>8 DEF Spliced

-----------------------------------------------------------------------------
(* Secrets inside a word *)

Secret(atom) == atom.kind \in {"random", "key"}

\* Something stands before and behind it.
InsideAt(t, i) == i \in 2 .. (Len(t) - 1) /\ t[i - 1] # Space /\ t[i + 1] # Space

\* A secret that stands inside a word is one of B.
Sheltered(t, B) == \A i \in 1 .. Len(t) : Secret(t[i]) /\ InsideAt(t, i) => t[i] \in B

LEMMA PlaceholdersAre ==
    ASSUME NEW p \in PlaceholderAtoms
    PROVE  p # Space /\ ~Secret(p)
BY DEF PlaceholderAtoms, Placeholders, Space, Atom, Secret

\* What is next to a value is next to its placeholder.
LEMMA SplicedShelters ==
    ASSUME NEW A, NEW t \in Seq(A), NEW V, NEW value \in Glued(V), NEW p \in PlaceholderAtoms,
           NEW new, NEW i, Spliced(t, new, i, value, p), NEW B, Sheltered(t, B)
    PROVE  Sheltered(new, B)
<1>1. PICK l \in Nat, n \in Nat : l = Len(value) /\ n = Len(t) /\ l >= 1
  BY GluedIs
<1>2. i \in 1 .. (n + 1 - l) /\ Len(new) = n + 1 - l
  BY <1>1 DEF Spliced, StandsAt, PutAt
<1>3. \A j \in 1 .. l : t[i + j - 1] # Space
  BY <1>1, GluedIs DEF Spliced, StandsAt
<1>4. \A j \in 1 .. (n + 1 - l) : new[j] = IF j < i THEN t[j] ELSE IF j = i THEN p ELSE t[j + l - 1]
  BY <1>1, <1>2 DEF Spliced, PutAt
<1>5. t[i] # Space /\ t[i + l - 1] # Space
  <2>1. 1 \in 1 .. l /\ l \in 1 .. l /\ i + 1 - 1 = i
    BY <1>1, <1>2
  <2>. QED
    BY <1>3, <2>1
<1>. SUFFICES ASSUME NEW j \in 1 .. Len(new), Secret(new[j]), InsideAt(new, j)
              PROVE  new[j] \in B
  BY DEF Sheltered
<1>6. j \in 2 .. (n - l) /\ new[j - 1] # Space /\ new[j + 1] # Space
  BY <1>1, <1>2 DEF InsideAt
<1>7. j # i
  BY <1>2, <1>4, PlaceholdersAre
<1>8. CASE j < i
  <2>1. j \in 1 .. n /\ j \in 2 .. (n - 1) /\ new[j] = t[j] /\ new[j - 1] = t[j - 1]
    BY <1>1, <1>2, <1>4, <1>6, <1>8
  <2>2. t[j + 1] # Space
    <3>1. CASE j + 1 = i
      BY <1>5, <3>1
    <3>2. CASE j + 1 < i
      BY <1>1, <1>2, <1>4, <1>6, <3>2
    <3>. QED
      BY <1>2, <1>6, <1>8, <3>1, <3>2
  <2>. QED
    BY <1>1, <1>6, <2>1, <2>2 DEF Sheltered, InsideAt
<1>9. CASE j > i
  <2>. DEFINE k == j + l - 1
  <2>1. k \in 1 .. n /\ k \in 2 .. (n - 1) /\ new[j] = t[k]
    BY <1>1, <1>2, <1>4, <1>6, <1>9
  <2>2. new[j + 1] = t[(j + 1) + l - 1] /\ (j + 1) + l - 1 = k + 1
    BY <1>1, <1>2, <1>4, <1>6, <1>9
  <2>3. t[k - 1] # Space
    <3>1. CASE j - 1 = i
      <4>1. k - 1 = i + l - 1
        BY <1>1, <1>2, <3>1
      <4>. QED
        BY <1>5, <4>1
    <3>2. CASE j - 1 > i
      <4>1. j - 1 \in 1 .. (n + 1 - l) /\ ~(j - 1 < i) /\ j - 1 # i
        BY <1>1, <1>2, <1>6, <3>2
      <4>2. new[j - 1] = t[(j - 1) + l - 1]
        BY <1>4, <4>1
      <4>3. (j - 1) + l - 1 = k - 1
        BY <1>1
      <4>. QED
        BY <1>6, <4>2, <4>3
    <3>. QED
      BY <1>2, <1>6, <1>9, <3>1, <3>2
  <2>. HIDE DEF k
  <2>4. Secret(t[k]) /\ InsideAt(t, k)
    BY <1>1, <1>6, <2>1, <2>2, <2>3 DEF InsideAt
  <2>. QED
    BY <1>1, <2>1, <2>4 DEF Sheltered
<1>. QED
  BY <1>2, <1>6, <1>7, <1>8, <1>9

LEMMA SubstitutedShelters ==
    ASSUME NEW A, NEW V, NEW text, NEW scan \in Scans(A, V, text), NEW value \in Glued(V),
           NEW p \in PlaceholderAtoms, NEW B, Sheltered(scan.text, B)
    PROVE  Sheltered(Substituted(scan, value, p).text, B)
<1>1. scan.text \in Seq(A)
  BY DEF Scans
<1>2. value \in Seq(V) /\ value # <<>>
  BY GluedIs
<1>3. \/ Substituted(scan, value, p).text = scan.text
      \/ \E i : Spliced(scan.text, Substituted(scan, value, p).text, i, value, p)
  BY <1>1, <1>2, SubstitutedAt
<1>4. ASSUME NEW i, Spliced(scan.text, Substituted(scan, value, p).text, i, value, p)
      PROVE  Sheltered(Substituted(scan, value, p).text, B)
  BY <1>1, <1>4, SplicedShelters
<1>. QED
  BY <1>3, <1>4

-----------------------------------------------------------------------------
(* The passes that look for patterns, once more *)

\* A pass that replaces the atoms of these kinds and nothing else.
Masking(A, V, text, scan, next, kinds) ==
    next \in Scans(A, V, text) /\ Masked(scan.text, next.text, kinds)

LEMMA NumberedMasks ==
    ASSUME NEW A, NEW V, NEW text, PlaceholderAtoms \subseteq A, A \subseteq V,
           NEW scan \in Scans(A, V, text), NEW kind, kind \notin Placeholders,
           NEW tag \in Placeholders
    PROVE  Masking(A, V, text, scan, Numbered(scan, Found(scan.text, kind), tag), {kind})
<1>. DEFINE values == Found(scan.text, kind)
            placeholders == [i \in DOMAIN values |-> Atom(tag, i)]
<1>1. values \in Seq(Seq(A))
  BY FoundIs DEF Scans
<1>. HIDE DEF values
<1>2. \A i \in 1 .. Len(values) : placeholders[i] \in PlaceholderAtoms
  BY <1>1, PlaceholderIs
<1>. HIDE DEF placeholders
<1>3. /\ Replaced(scan, values, placeholders) \in Scans(A, V, text)
      /\ Masked(scan.text, Replaced(scan, values, placeholders).text, {kind})
  BY <1>2, FoundMasked DEF values
<1>. QED
  BY <1>3 DEF Numbered, values, placeholders, Masking

LEMMA IBANsMasked ==
    ASSUME NEW A, NEW V, NEW text, PlaceholderAtoms \subseteq A, A \subseteq V,
           NEW scan \in Scans(A, V, text)
    PROVE  Masking(A, V, text, scan, RedactIBANs(scan), {"iban"})
<1>. DEFINE values == Found(scan.text, "iban")
            placeholders == [i \in DOMAIN values |-> Atom("[IBAN_MASKED]", 0)]
<1>1. values \in Seq(Seq(A))
  BY FoundIs DEF Scans
<1>. HIDE DEF values
<1>2. \A i \in 1 .. Len(values) : placeholders[i] \in PlaceholderAtoms
  BY <1>1, PlaceholderIs DEF Placeholders
<1>3. "iban" \notin Placeholders
  BY DEF Placeholders
<1>. HIDE DEF placeholders
<1>4. /\ Replaced(scan, values, placeholders) \in Scans(A, V, text)
      /\ Masked(scan.text, Replaced(scan, values, placeholders).text, {"iban"})
  BY <1>2, <1>3, FoundMasked DEF values
<1>. QED
  BY <1>4 DEF RedactIBANs, values, placeholders, Masking

\* One pass after the other.
LEMMA MaskedTwice ==
    ASSUME NEW t, NEW u, NEW v, NEW K, NEW L, L \cap Placeholders = {},
           Masked(t, u, K), Masked(u, v, L)
    PROVE  Masked(t, v, K \cup L)
<1>1. Len(v) = Len(t) /\ Len(u) = Len(t)
  BY DEF Masked
<1>2. ASSUME NEW p \in 1 .. Len(t)
      PROVE  IF t[p].kind \in K \cup L THEN v[p] \in PlaceholderAtoms ELSE v[p] = t[p]
  <2>1. IF t[p].kind \in K THEN u[p] \in PlaceholderAtoms ELSE u[p] = t[p]
    BY DEF Masked
  <2>2. IF u[p].kind \in L THEN v[p] \in PlaceholderAtoms ELSE v[p] = u[p]
    BY <1>1 DEF Masked
  <2>3. u[p] \in PlaceholderAtoms => u[p].kind \notin L
    BY DEF PlaceholderAtoms
  <2>. QED
    BY <2>1, <2>2, <2>3
<1>. QED
  BY <1>1, <1>2 DEF Masked

LEMMA MaskedNothing ==
    ASSUME NEW t
    PROVE  Masked(t, t, {})
BY DEF Masked

\* Sanitize, pass by pass.
Emails(text) == When("EmailRedaction" \in on, RedactEmails, Scan(text))
Phones(text) == When("PhoneRedaction" \in on, RedactPhones, Emails(text))
Financed(s) == RedactCards(RedactIBANs(s))
Finance(text) == When("EmailRedaction" \in on, Financed, Phones(text))
Context(text) ==
    When(on \cap {"EntropyScanner", "ApiKeyProtection"} # {}, RedactPasswords, Finance(text))
Named(text, presidio) ==
    IF "NerEnabled" \in on THEN RedactNames(Context(text), presidio) ELSE Context(text)
Keys(text, presidio) == When("ApiKeyProtection" \in on, RedactKeys, Named(text, presidio))

LEMMA SanitizePasses ==
    ASSUME NEW text, NEW presidio
    PROVE  Sanitize(text, on, presidio)
              = When("EntropyScanner" \in on, RedactHighEntropy, Keys(text, presidio))
BY DEF Sanitize, When, Emails, Phones, Financed, Finance, Context, Named, Keys

MaskedKinds ==
    (IF "EmailRedaction" \in on THEN {"email", "iban", "card"} ELSE {})
    \cup (IF "PhoneRedaction" \in on THEN {"phone"} ELSE {})

\* The text keeps its shape up to the passwords.
LEMMA FinanceMasks ==
    ASSUME NEW A, PlaceholderAtoms \subseteq A, NEW text \in Seq(A)
    PROVE  Masking(A, A, text, Scan(text), Finance(text), MaskedKinds)
<1>1. {"email", "phone", "iban", "card"} \cap Placeholders = {}
  BY DEF Placeholders
<1>2. {"[EMAIL]", "[PHONE]", "[CREDIT_CARD]"} \subseteq Placeholders
  BY DEF Placeholders
<1>3. Scan(text) \in Scans(A, A, text) /\ Scan(text).text = text
  BY EmptyMapping DEF Scan, Scans
<1>4. Masked(text, text, {})
  BY MaskedNothing
<1>. DEFINE emailKinds == IF "EmailRedaction" \in on THEN {"email"} ELSE {}
            phoneKinds == IF "PhoneRedaction" \in on THEN {"phone"} ELSE {}
            moneyKinds == IF "EmailRedaction" \in on THEN {"iban", "card"} ELSE {}
<1>5. Masking(A, A, text, Scan(text), Emails(text), emailKinds)
  <2>1. CASE "EmailRedaction" \in on
    BY <1>1, <1>2, <1>3, <2>1, NumberedMasks DEF Emails, When, RedactEmails
  <2>2. CASE "EmailRedaction" \notin on
    BY <1>3, <1>4, <2>2 DEF Emails, When, Masking
  <2>. QED
    BY <2>1, <2>2
<1>6. Emails(text) \in Scans(A, A, text)
  BY <1>5 DEF Masking
<1>7. Masking(A, A, text, Emails(text), Phones(text), phoneKinds)
  <2>1. CASE "PhoneRedaction" \in on
    BY <1>1, <1>2, <1>6, <2>1, NumberedMasks DEF Phones, When, RedactPhones
  <2>2. CASE "PhoneRedaction" \notin on
    BY <1>6, <2>2, MaskedNothing DEF Phones, When, Masking
  <2>. QED
    BY <2>1, <2>2
<1>8. Phones(text) \in Scans(A, A, text)
  BY <1>7 DEF Masking
<1>9. Masking(A, A, text, Phones(text), Finance(text), moneyKinds)
  <2>1. CASE "EmailRedaction" \in on
    <3>. DEFINE ibans == RedactIBANs(Phones(text))
                cards == RedactCards(ibans)
    <3>1. Masking(A, A, text, Phones(text), ibans, {"iban"})
      BY <1>8, IBANsMasked
    <3>2. ibans \in Scans(A, A, text)
      BY <3>1 DEF Masking
    <3>. HIDE DEF ibans
    <3>3. Masking(A, A, text, ibans, cards, {"card"})
      BY <1>1, <1>2, <3>2, NumberedMasks DEF RedactCards
    <3>4. Finance(text) = cards
      BY <2>1 DEF Finance, Financed, When, ibans
    <3>. HIDE DEF cards
    <3>5. Masked(Phones(text).text, cards.text, {"iban"} \cup {"card"})
      BY <1>1, <3>1, <3>3, MaskedTwice DEF Masking
    <3>6. moneyKinds = {"iban"} \cup {"card"}
      BY <2>1
    <3>. QED
      BY <3>3, <3>4, <3>5, <3>6 DEF Masking
  <2>2. CASE "EmailRedaction" \notin on
    BY <1>8, <2>2, MaskedNothing DEF Finance, When, Masking
  <2>. QED
    BY <2>1, <2>2
<1>10. phoneKinds \cap Placeholders = {} /\ moneyKinds \cap Placeholders = {}
  BY <1>1
<1>11. MaskedKinds = (emailKinds \cup phoneKinds) \cup moneyKinds
  BY DEF MaskedKinds
<1>. HIDE DEF emailKinds, phoneKinds, moneyKinds
<1>12. Masked(text, Phones(text).text, emailKinds \cup phoneKinds)
  BY <1>3, <1>5, <1>7, <1>10, MaskedTwice DEF Masking
<1>13. Masked(text, Finance(text).text, (emailKinds \cup phoneKinds) \cup moneyKinds)
  BY <1>9, <1>10, <1>12, MaskedTwice DEF Masking
<1>. QED
  BY <1>3, <1>9, <1>11, <1>13 DEF Masking

\* A mask is as good as what it covers.
LEMMA MaskedShelters ==
    ASSUME NEW A, NEW t \in Seq(A), NEW new, NEW kinds, "space" \notin kinds,
           Masked(t, new, kinds), NEW B, Sheltered(t, B)
    PROVE  Sheltered(new, B)
<1>. SUFFICES ASSUME NEW i \in 1 .. Len(new), Secret(new[i]), InsideAt(new, i)
              PROVE  new[i] \in B
  BY DEF Sheltered
<1>1. PICK n \in Nat : n = Len(t)
  OBVIOUS
<1>2. Len(new) = n /\ i \in 2 .. (n - 1) /\ i - 1 \in 1 .. n /\ i \in 1 .. n /\ i + 1 \in 1 .. n
  BY <1>1 DEF Masked, InsideAt
<1>3. \A p \in 1 .. n : IF t[p].kind \in kinds THEN new[p] \in PlaceholderAtoms ELSE new[p] = t[p]
  BY <1>1 DEF Masked
<1>4. new[i] = t[i]
  BY <1>2, <1>3, PlaceholdersAre
<1>5. \A p \in 1 .. n : new[p] # Space => t[p] # Space
  BY <1>3 DEF Space, Atom
<1>6. InsideAt(t, i)
  BY <1>1, <1>2, <1>5 DEF InsideAt
<1>. QED
  BY <1>1, <1>2, <1>4, <1>6 DEF Sheltered

\* From one value to the next, each leaves the scan as it is or replaces a
\* value in it.
Walk(f, n, V) ==
    \A m \in 1 .. n :
       \/ f[m] = f[m - 1]
       \/ \E value \in Glued(V), p \in PlaceholderAtoms : f[m] = Substituted(f[m - 1], value, p)

LEMMA WalkShelters ==
    ASSUME NEW A, NEW V, NEW text, NEW n \in Nat, NEW f \in [0 .. n -> Scans(A, V, text)],
           Walk(f, n, V), NEW B, Sheltered(f[0].text, B)
    PROVE  Sheltered(f[n].text, B)
<1>. DEFINE G == {m \in 0 .. n : Sheltered(f[m].text, B)}
<1>1. 0 \in G
  OBVIOUS
<1>2. ASSUME NEW m \in 1 .. n, m - 1 \in G PROVE m \in G
  <2>1. m - 1 \in 0 .. n /\ m \in 0 .. n
    OBVIOUS
  <2>2. f[m - 1] \in Scans(A, V, text) /\ Sheltered(f[m - 1].text, B)
    BY <1>2, <2>1
  <2>. HIDE DEF G
  <2>3. CASE f[m] = f[m - 1]
    BY <2>1, <2>2, <2>3 DEF G
  <2>4. CASE f[m] # f[m - 1]
    <3>1. PICK value \in Glued(V), p \in PlaceholderAtoms : f[m] = Substituted(f[m - 1], value, p)
      BY <2>4 DEF Walk
    <3>2. Sheltered(f[m].text, B)
      BY <2>2, <3>1, SubstitutedShelters
    <3>. QED
      BY <2>1, <3>2 DEF G
  <2>. QED
    BY <2>3, <2>4
<1>. HIDE DEF G
<1>3. n \in G
  BY <1>1, <1>2, Climb
<1>. QED
  BY <1>3 DEF G

\* A sequence whose elements are in Y.
LEMMA OverThese ==
    ASSUME NEW X, NEW s \in Seq(X), NEW Y, \A i \in 1 .. Len(s) : s[i] \in Y
    PROVE  s \in Seq(Y)
<1>1. s = [i \in 1 .. Len(s) |-> s[i]] /\ Len(s) \in Nat
  OBVIOUS
<1>. QED
  BY <1>1

LEMMA NamesGlued ==
    ASSUME NEW A, NEW text \in Seq(A), NEW presidio \in BOOLEAN
    PROVE  Names(text, presidio) \in Seq(Glued(A))
<1>. DEFINE names == Names(text, presidio)
<1>1. ASSUME NEW atom \in A, atom.kind = "name" PROVE <<atom>> \in Glued(A)
  <2>1. atom # Space
    BY <1>1 DEF Space, Atom
  <2>. QED
    BY <2>1 DEF Glued
<1>2. Found(text, "name") \in Seq(Glued(A))
  <2>1. PICK q : FoundAt(text, "name", Found(text, "name"), q)
    BY FoundIs
  <2>2. Found(text, "name") \in Seq(Seq(A))
    BY FoundIs
  <2>3. ASSUME NEW i \in 1 .. Len(Found(text, "name")) PROVE Found(text, "name")[i] \in Glued(A)
    <3>1. q[i] \in 1 .. Len(text)
      BY <2>1 DEF FoundAt
    <3>2. text[q[i]] \in A
      BY <3>1
    <3>3. Found(text, "name")[i] = <<text[q[i]]>> /\ text[q[i]].kind = "name"
      BY <2>1 DEF FoundAt
    <3>. QED
      BY <1>1, <3>2, <3>3
  <2>. QED
    BY <2>2, <2>3, OverThese
<1>3. TitledNames(text) \in Seq(Glued(A))
  <2>. DEFINE places == [i \in DOMAIN text |-> i]
              S == {i \in DOMAIN text : /\ text[i].kind = "name" /\ i > 2
                                        /\ text[i - 1] = Space /\ text[i - 2].kind = "title"}
              found == Kept(places, S)
  <2>1. places \in Seq(1 .. Len(text)) /\ Len(places) = Len(text)
    OBVIOUS
  <2>. HIDE DEF places
  <2>2. PICK q : KeptAt(places, S, Len(places), found, q)
    BY <2>1, KeptPlaces
  <2>3. found \in Seq(1 .. Len(text))
    BY <2>1, KeptIn
  <2>4. \A i \in 1 .. Len(found) : found[i] \in S
    BY <2>2 DEF KeptAt
  <2>. HIDE DEF found
  <2>5. ASSUME NEW i \in 1 .. Len(found) PROVE <<text[found[i]]>> \in Glued(A)
    <3>1. found[i] \in DOMAIN text /\ text[found[i]].kind = "name"
      BY <2>4
    <3>2. text[found[i]] \in A
      BY <3>1
    <3>. QED
      BY <1>1, <3>1, <3>2
  <2>6. DOMAIN found = 1 .. Len(found) /\ Len(found) \in Nat
    BY <2>3
  <2>7. [i \in 1 .. Len(found) |-> <<text[found[i]]>>] \in Seq(Glued(A))
    BY <2>5, <2>6
  <2>. QED
    BY <2>6, <2>7 DEF TitledNames, found, places, S
<1>4. (IF presidio THEN Found(text, "name") ELSE <<>>) \in Seq(Glued(A))
  BY <1>2
<1>. QED
  BY <1>3, <1>4, ConcatProperties DEF Names

\* The passes that look at the context.
LEMMA PasswordsWalk ==
    ASSUME NEW A, NEW V, NEW text, PlaceholderAtoms \subseteq A, A \subseteq V,
           NEW scan \in Scans(A, V, text), NEW B, Sheltered(scan.text, B)
    PROVE  Sheltered(RedactPasswords(scan).text, B)
<1>. DEFINE values == Passwords(scan.text)
            n == Len(values)
<1>1. values \in Seq(Glued(V))
  BY PasswordsGlued, GluedOverMore DEF Scans
<1>2. PICK f \in [0 .. n -> Scans(A, V, text)] : PasswordsReplaced(scan, f)
  BY RedactPasswordsSteps
<1>3. n \in Nat
  BY <1>1
<1>4. ASSUME NEW m \in 1 .. n
      PROVE  \/ f[m] = f[m - 1]
             \/ \E value \in Glued(V), p \in PlaceholderAtoms : f[m] = Substituted(f[m - 1], value, p)
  <2>1. values[m] \in Glued(V) /\ Atom("[PASSWORD_CONTEXT]", m) \in PlaceholderAtoms
    BY <1>1, PlaceholderIs DEF Placeholders
  <2>2. \/ f[m] = f[m - 1]
        \/ f[m] = Substituted(f[m - 1], values[m], Atom("[PASSWORD_CONTEXT]", m))
    BY <1>2 DEF PasswordsReplaced
  <2>. QED
    BY <2>1, <2>2
<1>5. f[0] = scan /\ f[n] = RedactPasswords(scan)
  BY <1>2 DEF PasswordsReplaced
<1>. HIDE DEF n
<1>6. Walk(f, n, V)
  BY <1>4 DEF Walk
<1>7. Sheltered(f[n].text, B)
  BY <1>3, <1>5, <1>6, WalkShelters
<1>. QED
  BY <1>5, <1>7

LEMMA NamesWalk ==
    ASSUME NEW A, NEW V, NEW text, PlaceholderAtoms \subseteq A, A \subseteq V,
           NEW scan \in Scans(A, V, text), NEW presidio \in BOOLEAN,
           NEW B, Sheltered(scan.text, B)
    PROVE  Sheltered(RedactNames(scan, presidio).text, B)
<1>. DEFINE values == Names(scan.text, presidio)
            n == Len(values)
<1>1. values \in Seq(Glued(V))
  BY NamesGlued, GluedOverMore DEF Scans
<1>2. PICK f \in [0 .. n -> Scans(A, V, text)] : NamesReplaced(scan, presidio, f)
  BY RedactNamesSteps
<1>3. n \in Nat
  BY <1>1
<1>4. ASSUME NEW m \in 1 .. n
      PROVE  \/ f[m] = f[m - 1]
             \/ \E value \in Glued(V), p \in PlaceholderAtoms : f[m] = Substituted(f[m - 1], value, p)
  <2>1. values[m] \in Glued(V) /\ Atom("[PERSON_NAME]", m) \in PlaceholderAtoms
    BY <1>1, PlaceholderIs DEF Placeholders
  <2>2. \/ f[m] = f[m - 1]
        \/ f[m] = Substituted(f[m - 1], values[m], Atom("[PERSON_NAME]", m))
    BY <1>2 DEF NamesReplaced
  <2>. QED
    BY <2>1, <2>2
<1>5. f[0] = scan /\ f[n] = RedactNames(scan, presidio)
  BY <1>2 DEF NamesReplaced
<1>. HIDE DEF n
<1>6. Walk(f, n, V)
  BY <1>4 DEF Walk
<1>7. Sheltered(f[n].text, B)
  BY <1>3, <1>5, <1>6, WalkShelters
<1>. QED
  BY <1>5, <1>7

\* What stands inside a word before the last pass stood inside one at first.
LEMMA KeysShelter ==
    ASSUME NEW A, PlaceholderAtoms \subseteq A, NEW text \in Seq(A), NEW presidio \in BOOLEAN,
           NEW B, Sheltered(text, B)
    PROVE  /\ Keys(text, presidio) \in Scans(A, A, text)
           /\ Sheltered(Keys(text, presidio).text, B)
<1>1. Masking(A, A, text, Scan(text), Finance(text), MaskedKinds)
  BY FinanceMasks
<1>2. Scan(text).text = text /\ "space" \notin MaskedKinds
  BY DEF Scan, MaskedKinds
<1>3. Finance(text) \in Scans(A, A, text) /\ Sheltered(Finance(text).text, B)
  BY <1>1, <1>2, MaskedShelters DEF Masking
<1>4. Context(text) \in Scans(A, A, text) /\ Sheltered(Context(text).text, B)
  BY <1>3, RedactPasswordsIn, PasswordsWalk DEF Context, When
<1>5. /\ Named(text, presidio) \in Scans(A, A, text)
      /\ Sheltered(Named(text, presidio).text, B)
  BY <1>4, RedactNamesIn, NamesWalk DEF Named
<1>6. CASE "ApiKeyProtection" \in on
  <2>1. "key" \notin Placeholders /\ "[KEY]" \in Placeholders
    BY DEF Placeholders
  <2>2. Keys(text, presidio) = Numbered(Named(text, presidio), Found(Named(text, presidio).text, "key"), "[KEY]")
    BY <1>6 DEF Keys, When, RedactKeys
  <2>3. Masking(A, A, text, Named(text, presidio), Keys(text, presidio), {"key"})
    BY <1>5, <2>1, <2>2, NumberedMasks
  <2>4. Named(text, presidio).text \in Seq(A)
    BY <1>5 DEF Scans
  <2>. QED
    BY <1>5, <2>3, <2>4, MaskedShelters DEF Masking
<1>7. CASE "ApiKeyProtection" \notin on
  BY <1>5, <1>7 DEF Keys, When
<1>. QED
  BY <1>6, <1>7

-----------------------------------------------------------------------------
(* Values that are replaced one after the other *)

\* Up to e, c is t with d atoms less, and all of it is of B; behind it c is as
\* t.
Cleared(t, c, e, d, B) ==
    /\ d \in 0 .. e /\ e <= Len(t) /\ Len(c) = Len(t) - d
    /\ \A p \in (e + 1) .. Len(t) : c[p - d] = t[p]
    /\ \A p \in 1 .. (e - d) : c[p] \in B

\* The next word is where it was, d places before.
LEMMA ClearedStands ==
    ASSUME NEW A, NEW t \in Seq(A), NEW c \in Seq(A), NEW B, NEW e \in Nat, NEW d,
           Cleared(t, c, e, d, B),
           NEW V, NEW value \in Glued(V), NEW s, StandsAt(value, t, s), s > e
    PROVE  StandsAt(value, c, s - d)
<1>1. PICK l \in Nat, n \in Nat : l = Len(value) /\ n = Len(t) /\ l >= 1
  BY GluedIs
<1>2. /\ d \in Nat /\ d <= e /\ e <= n /\ Len(c) = n - d
      /\ s \in Nat /\ s >= 1 /\ s + l <= n + 1
  BY <1>1 DEF Cleared, StandsAt
<1>3. ASSUME NEW j \in 1 .. l PROVE c[(s - d) + j - 1] = value[j]
  <2>1. s + j - 1 \in (e + 1) .. n /\ (s + j - 1) - d = (s - d) + j - 1
    BY <1>2
  <2>2. c[(s + j - 1) - d] = t[s + j - 1]
    BY <1>1, <2>1 DEF Cleared
  <2>3. t[s + j - 1] = value[j]
    BY <1>1 DEF StandsAt
  <2>. QED
    BY <2>1, <2>2, <2>3
<1>4. s - d \in 1 .. ((n - d) + 1 - l)
  BY <1>1, <1>2
<1>. QED
  BY <1>1, <1>2, <1>3, <1>4 DEF StandsAt

\* If the value occurs before the place it was found at, then what it occurs in
\* was left, and is of B; else it is replaced where it was found.
LEMMA ClearedNext ==
    ASSUME NEW A, NEW t \in Seq(A), NEW c \in Seq(A), NEW B, NEW e \in Nat, NEW d,
           Cleared(t, c, e, d, B),
           NEW V, NEW value \in Glued(V), NEW s, StandsAt(value, t, s), s > e,
           \A p \in (e + 1) .. (s - 1) : t[p] \in B,
           NEW mask \in B, NEW i, NEW new, Spliced(c, new, i, value, mask)
    PROVE  Cleared(t, new, s + Len(value) - 1, d + Len(value) - 1, B)
<1>1. PICK l \in Nat, n \in Nat : l = Len(value) /\ n = Len(t) /\ l >= 1
  BY GluedIs
<1>2. /\ d \in Nat /\ d <= e /\ e <= n /\ Len(c) = n - d
      /\ s \in Nat /\ s >= 1 /\ s + l <= n + 1
  BY <1>1 DEF Cleared, StandsAt
<1>3. StandsAt(value, c, s - d) /\ s - d \in 1 .. (n - d)
  <2>1. s - d \in 1 .. (n - d)
    BY <1>1, <1>2
  <2>. QED
    BY <2>1, ClearedStands
<1>4. \A j \in 1 .. l : c[(s - d) + j - 1] = value[j]
  BY <1>1, <1>3 DEF StandsAt
<1>5. /\ i \in Nat /\ i >= 1 /\ i <= s - d
      /\ \A j \in 1 .. l : c[i + j - 1] = value[j]
  <2>1. i <= s - d
    BY <1>2, <1>3 DEF Spliced
  <2>2. StandsAt(value, c, i)
    BY DEF Spliced
  <2>. QED
    BY <1>1, <1>2, <2>1, <2>2 DEF StandsAt
<1>6. ASSUME NEW p \in 1 .. (s - 1 - d) PROVE c[p] \in B
  <2>1. CASE p <= e - d
    BY <1>2, <2>1 DEF Cleared
  <2>2. CASE p > e - d
    <3>1. p + d \in (e + 1) .. n /\ p + d \in (e + 1) .. (s - 1) /\ (p + d) - d = p
      BY <1>2, <2>2
    <3>2. c[(p + d) - d] = t[p + d]
      BY <1>1, <3>1 DEF Cleared
    <3>. QED
      BY <3>1, <3>2
  <2>. QED
    BY <1>2, <2>1, <2>2
<1>7. i = s - d \/ \A j \in 1 .. l : value[j] \in B
  <2>. DEFINE out == {j \in 1 .. l : value[j] \notin B}
  <2>1. out = {} => \A j \in 1 .. l : value[j] \in B
    OBVIOUS
  <2>2. out \in SUBSET Nat
    OBVIOUS
  <2>. HIDE DEF out
  <2>3. i < s - d \/ i = s - d
    <3>1. \A u, v, w \in Nat : u <= v - w => u < v - w \/ u = v - w
      OBVIOUS
    <3>. QED
      BY <1>2, <1>5, <3>1
  <2>. SUFFICES ASSUME i < s - d, out # {} PROVE FALSE
    BY <2>1, <2>3
  <2>4. PICK j \in out : \A k \in out : j <= k
    BY <2>2, MinIs
  <2>5. j \in 1 .. l /\ value[j] \notin B
    BY DEF out
  <2>6. c[i + j - 1] = value[j]
    BY <1>5, <2>5
  <2>7. CASE i + j - 1 <= s - 1 - d
    <3>1. i + j - 1 \in 1 .. (s - 1 - d)
      BY <1>2, <1>5, <2>5, <2>7
    <3>. QED
      BY <1>6, <2>5, <2>6, <3>1
  <2>8. CASE i + j - 1 > s - 1 - d
    <3>. DEFINE k == i + j - (s - d)
    <3>1. k \in 1 .. l /\ k < j /\ (s - d) + k - 1 = i + j - 1
      BY <1>2, <1>5, <2>5, <2>8
    <3>. HIDE DEF k
    <3>2. c[(s - d) + k - 1] = value[k]
      BY <1>4, <3>1
    <3>3. k \in out
      BY <2>5, <2>6, <3>1, <3>2 DEF out
    <3>. QED
      BY <2>4, <2>5, <3>1, <3>3
  <2>. QED
    BY <1>2, <1>5, <2>5, <2>7, <2>8
<1>8. /\ Len(new) = n - (d + l - 1)
      /\ \A j \in 1 .. (n - (d + l - 1)) :
            new[j] = IF j < i THEN c[j] ELSE IF j = i THEN mask ELSE c[j + l - 1]
  <2>1. PutAt(c, new, i, value, mask)
    BY DEF Spliced
  <2>2. Len(c) + 1 - Len(value) = n - (d + l - 1)
    BY <1>1, <1>2
  <2>. QED
    BY <1>1, <2>1, <2>2 DEF PutAt
<1>9. /\ d + l - 1 \in 0 .. (s + l - 1) /\ s + l - 1 <= n
      /\ (s + l - 1) - (d + l - 1) = s - d
  BY <1>1, <1>2
<1>10. ASSUME NEW p \in ((s + l - 1) + 1) .. n PROVE new[p - (d + l - 1)] = t[p]
  <2>. DEFINE j == p - (d + l - 1)
  <2>1. j \in 1 .. (n - (d + l - 1)) /\ j > i /\ j + l - 1 = p - d
    BY <1>1, <1>2, <1>5
  <2>. HIDE DEF j
  <2>2. new[j] = c[p - d]
    BY <1>5, <1>8, <2>1
  <2>3. p \in (e + 1) .. n
    BY <1>1, <1>2
  <2>4. c[p - d] = t[p]
    BY <1>1, <2>3 DEF Cleared
  <2>. QED
    BY <2>2, <2>4 DEF j
<1>11. ASSUME NEW j \in 1 .. (s - d) PROVE new[j] \in B
  <2>1. j \in 1 .. (n - (d + l - 1))
    BY <1>1, <1>2
  <2>2. CASE j < i
    <3>1. new[j] = c[j] /\ j \in 1 .. (s - 1 - d)
      BY <1>2, <1>5, <1>8, <2>1, <2>2
    <3>. QED
      BY <1>6, <3>1
  <2>3. CASE j = i
    BY <1>5, <1>8, <2>1, <2>3
  <2>4. CASE j > i
    <3>1. new[j] = c[j + l - 1]
      BY <1>5, <1>8, <2>1, <2>4
    <3>2. CASE j + l - 1 <= s - 1 - d
      <4>1. j + l - 1 \in 1 .. (s - 1 - d)
        BY <1>1, <1>2, <3>2
      <4>. QED
        BY <1>6, <3>1, <4>1
    <3>3. CASE j + l - 1 > s - 1 - d
      <4>. DEFINE x == j + l - (s - d)
      <4>1. x \in 1 .. l /\ (s - d) + x - 1 = j + l - 1
        BY <1>1, <1>2, <1>5, <3>3
      <4>. HIDE DEF x
      <4>2. c[(s - d) + x - 1] = value[x] /\ value[x] \in B
        BY <1>4, <1>5, <1>7, <2>4, <4>1
      <4>. QED
        BY <3>1, <4>1, <4>2
    <3>. QED
      BY <1>1, <1>2, <3>2, <3>3
  <2>. QED
    BY <1>5, <2>2, <2>3, <2>4
<1>. QED
  BY <1>1, <1>8, <1>9, <1>10, <1>11 DEF Cleared

\* The first n values stand in t at r, one behind the other, and all else is
\* of B.
RowAt(t, values, r, n, B) ==
    /\ \A k \in 1 .. n : StandsAt(values[k], t, r[k])
    /\ \A k, l \in 1 .. n : k < l => r[k] + Len(values[k]) <= r[l]
    /\ \A p \in 1 .. Len(t) :
          t[p] \in B \/ \E k \in 1 .. n : p \in r[k] .. (r[k] + Len(values[k]) - 1)

\* Each step replaces the next value, or leaves one that is of B.
Clearing(f, values, n, B) ==
    \A m \in 1 .. n :
       \/ f[m] = f[m - 1] /\ \A j \in 1 .. Len(values[m]) : values[m][j] \in B
       \/ \E mask \in PlaceholderAtoms : f[m] = Substituted(f[m - 1], values[m], mask)

\* Where the m-th value ends.
End(values, r, m) == IF m = 0 THEN 0 ELSE r[m] + Len(values[m]) - 1

LEMMA RowIs ==
    ASSUME NEW A, NEW t \in Seq(A), NEW V, NEW values \in Seq(Glued(V)), NEW r, NEW B,
           NEW n \in 0 .. Len(values), RowAt(t, values, r, n, B)
    PROVE  /\ \A k \in 1 .. n :
                 /\ values[k] \in Glued(V) /\ Len(values[k]) \in Nat /\ Len(values[k]) >= 1
                 /\ r[k] \in Nat /\ r[k] >= 1 /\ r[k] + Len(values[k]) <= Len(t) + 1
           /\ \A m \in 0 .. n : End(values, r, m) \in Nat
<1>1. ASSUME NEW k \in 1 .. n
      PROVE  /\ values[k] \in Glued(V) /\ Len(values[k]) \in Nat /\ Len(values[k]) >= 1
             /\ r[k] \in Nat /\ r[k] >= 1 /\ r[k] + Len(values[k]) <= Len(t) + 1
  <2>1. k \in 1 .. Len(values)
    OBVIOUS
  <2>2. values[k] \in Glued(V)
    BY <2>1, ElementOfSeq
  <2>3. PICK l \in Nat : l = Len(values[k]) /\ l >= 1
    BY <2>2, GluedIs
  <2>4. r[k] \in 1 .. (Len(t) + 1 - l)
    BY <2>3 DEF RowAt, StandsAt
  <2>5. PICK x \in Nat : x = Len(t)
    OBVIOUS
  <2>6. r[k] \in 1 .. (x + 1 - l)
    BY <2>4, <2>5
  <2>7. \A y \in 1 .. (x + 1 - l) : y \in Nat /\ y >= 1 /\ y + l <= x + 1
    OBVIOUS
  <2>. QED
    BY <2>2, <2>3, <2>5, <2>6, <2>7
<1>2. ASSUME NEW m \in 0 .. n PROVE End(values, r, m) \in Nat
  <2>1. CASE m = 0
    BY <2>1 DEF End
  <2>2. CASE m # 0
    <3>1. m \in 1 .. n
      BY <2>2
    <3>2. PICK a \in Nat, b \in Nat : a = r[m] /\ a >= 1 /\ b = Len(values[m])
      BY <1>1, <3>1
    <3>. QED
      BY <2>2, <3>2 DEF End
  <2>. QED
    BY <2>1, <2>2
<1>. QED
  BY <1>1, <1>2

\* Behind the m-th value and before the next one.
LEMMA RowBetween ==
    ASSUME NEW A, NEW t \in Seq(A), NEW V, NEW values \in Seq(Glued(V)), NEW r, NEW B,
           NEW n \in 0 .. Len(values), RowAt(t, values, r, n, B), NEW m \in 0 .. n,
           NEW p \in 1 .. Len(t), p > End(values, r, m), m < n => p < r[m + 1]
    PROVE  t[p] \in B
<1>. SUFFICES ASSUME t[p] \notin B PROVE FALSE
  OBVIOUS
<1>1. PICK k \in 1 .. n : p \in r[k] .. (r[k] + Len(values[k]) - 1)
  BY DEF RowAt
<1>2. \A j \in 1 .. n : r[j] \in Nat /\ Len(values[j]) \in Nat /\ Len(values[j]) >= 1
  BY RowIs
<1>3. \A i, j \in 1 .. n : i < j => r[i] + Len(values[i]) <= r[j]
  BY DEF RowAt
<1>4. CASE k <= m
  <2>1. m # 0 /\ m \in 1 .. n
    BY <1>4
  <2>2. End(values, r, m) = r[m] + Len(values[m]) - 1
    BY <2>1 DEF End
  <2>3. k = m \/ r[k] + Len(values[k]) <= r[m]
    BY <1>3, <1>4, <2>1
  <2>4. PICK a \in Nat, b \in Nat : a = r[m] /\ b = Len(values[m]) /\ b >= 1
    BY <1>2, <2>1
  <2>5. PICK x \in Nat, y \in Nat : x = r[k] /\ y = Len(values[k])
    BY <1>2
  <2>6. p \in x .. (x + y - 1) /\ p > a + b - 1
    BY <1>1, <2>2, <2>4, <2>5
  <2>7. (x = a /\ y = b) \/ x + y <= a
    BY <2>3, <2>4, <2>5
  <2>. QED
    BY <2>4, <2>6, <2>7
<1>5. CASE k > m
  <2>1. m + 1 \in 1 .. n /\ p < r[m + 1]
    BY <1>5
  <2>2. k = m + 1 \/ r[m + 1] + Len(values[m + 1]) <= r[k]
    BY <1>3, <1>5, <2>1
  <2>. QED
    BY <1>1, <1>2, <2>1, <2>2
<1>. QED
  BY <1>4, <1>5

\* A value that is left is passed.
LEMMA ClearedPassed ==
    ASSUME NEW A, NEW t \in Seq(A), NEW c \in Seq(A), NEW B, NEW e \in Nat, NEW d,
           Cleared(t, c, e, d, B), NEW s \in Nat, s > e, NEW l \in Nat, l >= 1,
           s + l <= Len(t) + 1, \A p \in (e + 1) .. (s + l - 1) : t[p] \in B
    PROVE  Cleared(t, c, s + l - 1, d, B)
<1>1. PICK n \in Nat : n = Len(t)
  OBVIOUS
<1>2. d \in Nat /\ d <= e /\ e <= n /\ Len(c) = n - d
  BY <1>1 DEF Cleared
<1>3. \A p \in (e + 1) .. n : c[p - d] = t[p]
  BY <1>1 DEF Cleared
<1>4. d \in 0 .. (s + l - 1) /\ s + l - 1 <= n
  BY <1>1, <1>2
<1>5. \A p \in ((s + l - 1) + 1) .. n : c[p - d] = t[p]
  <2>1. \A p \in ((s + l - 1) + 1) .. n : p \in (e + 1) .. n
    OBVIOUS
  <2>. QED
    BY <1>3, <2>1
<1>6. ASSUME NEW p \in 1 .. ((s + l - 1) - d) PROVE c[p] \in B
  <2>1. CASE p <= e - d
    BY <1>2, <2>1 DEF Cleared
  <2>2. CASE p > e - d
    <3>1. p + d \in (e + 1) .. n /\ p + d \in (e + 1) .. (s + l - 1) /\ (p + d) - d = p
      BY <1>1, <1>2, <2>2
    <3>2. c[(p + d) - d] = t[p + d]
      BY <1>3, <3>1
    <3>. QED
      BY <3>1, <3>2
  <2>. QED
    BY <1>2, <2>1, <2>2
<1>. QED
  BY <1>1, <1>2, <1>4, <1>5, <1>6 DEF Cleared

LEMMA RowStep ==
    ASSUME NEW A, NEW t \in Seq(A), NEW V, NEW values \in Seq(Glued(V)), NEW r,
           NEW B, PlaceholderAtoms \subseteq B,
           NEW n \in 0 .. Len(values), RowAt(t, values, r, n, B), NEW m \in 1 .. n,
           NEW scan, scan.text \in Seq(A), NEW d,
           Cleared(t, scan.text, End(values, r, m - 1), d, B), NEW next,
           \/ next = scan /\ \A j \in 1 .. Len(values[m]) : values[m][j] \in B
           \/ \E mask \in PlaceholderAtoms : next = Substituted(scan, values[m], mask)
    PROVE  \E new : Cleared(t, next.text, End(values, r, m), new, B)
<1>. DEFINE c == scan.text
            e == End(values, r, m - 1)
            value == values[m]
            s == r[m]
<1>1. m - 1 \in 0 .. n /\ m \in 0 .. n /\ (m - 1) + 1 = m
  OBVIOUS
<1>2. /\ value \in Glued(V) /\ s \in Nat /\ s >= 1 /\ e \in Nat
      /\ Len(value) \in Nat /\ Len(value) >= 1 /\ s + Len(value) <= Len(t) + 1
  BY <1>1, RowIs
<1>3. value \in Seq(V) /\ value # <<>>
  BY <1>2, GluedIs
<1>4. StandsAt(value, t, s)
  BY DEF RowAt
<1>5. s > e
  <2>1. CASE m = 1
    BY <1>2, <2>1 DEF End
  <2>2. CASE m # 1
    <3>1. m - 1 \in 1 .. n /\ m - 1 < m /\ m - 1 # 0
      BY <2>2
    <3>2. r[m - 1] + Len(values[m - 1]) <= r[m]
      BY <3>1 DEF RowAt
    <3>3. PICK a \in Nat, b \in Nat : a = r[m - 1] /\ b = Len(values[m - 1])
      BY <3>1, RowIs
    <3>4. e = a + b - 1 /\ a + b <= s
      BY <3>1, <3>2, <3>3 DEF End
    <3>5. \A u, v, w, x \in Nat : u + v <= w /\ x = u + v - 1 => w > x
      OBVIOUS
    <3>. QED
      BY <1>2, <3>3, <3>4, <3>5
  <2>. QED
    BY <2>1, <2>2
<1>6. Len(t) \in Nat
  OBVIOUS
<1>7. ASSUME NEW p \in (e + 1) .. (s - 1) PROVE t[p] \in B
  <2>1. p \in 1 .. Len(t) /\ p > e /\ p < s
    BY <1>2, <1>6
  <2>. QED
    BY <1>1, <2>1, RowBetween
<1>8. End(values, r, m) = s + Len(value) - 1
  BY DEF End
<1>9. Cleared(t, c, e, d, B)
  OBVIOUS
<1>10. c \in Seq(A)
  OBVIOUS
<1>. HIDE DEF e, s, value, c
<1>11. ASSUME next = scan, \A j \in 1 .. Len(value) : value[j] \in B
       PROVE  Cleared(t, next.text, s + Len(value) - 1, d, B)
  <2>1. ASSUME NEW p \in (e + 1) .. (s + Len(value) - 1) PROVE t[p] \in B
    <3>1. CASE p < s
      BY <1>2, <1>7, <3>1
    <3>2. CASE p >= s
      <4>1. p - s + 1 \in 1 .. Len(value) /\ s + (p - s + 1) - 1 = p
        BY <1>2, <3>2
      <4>. QED
        BY <1>4, <1>11, <4>1 DEF StandsAt
    <3>. QED
      BY <1>2, <3>1, <3>2
  <2>. QED
    BY <1>2, <1>5, <1>9, <1>10, <1>11, <2>1, ClearedPassed DEF c
<1>12. ASSUME NEW mask \in PlaceholderAtoms, next = Substituted(scan, value, mask)
       PROVE  Cleared(t, next.text, s + Len(value) - 1, d + Len(value) - 1, B)
  <2>1. StandsAt(value, c, s - d)
    BY <1>2, <1>4, <1>5, <1>9, <1>10, ClearedStands
  <2>2. Places(value, c) # {}
    BY <1>3, <1>10, <2>1, PlacesAre
  <2>3. PICK i : Spliced(c, next.text, i, value, mask)
    BY <1>3, <1>10, <1>12, <2>2, SubstitutedAt DEF c
  <2>4. mask \in B
    OBVIOUS
  <2>. QED
    BY <1>2, <1>4, <1>5, <1>7, <1>9, <1>10, <2>3, <2>4, ClearedNext
<1>. QED
  BY <1>8, <1>11, <1>12 DEF value

\* Once the values are replaced that have what is not of B, nothing else is
\* left.
LEMMA RowClears ==
    ASSUME NEW A, NEW V, NEW text, NEW t \in Seq(A), NEW values \in Seq(Glued(V)), NEW r,
           NEW B, PlaceholderAtoms \subseteq B,
           NEW n \in 0 .. Len(values), RowAt(t, values, r, n, B),
           NEW f \in [0 .. Len(values) -> Scans(A, V, text)], f[0].text = t,
           Clearing(f, values, n, B)
    PROVE  f[n].text \in Seq(B)
<1>. DEFINE G == {m \in 0 .. n : \E d : Cleared(t, f[m].text, End(values, r, m), d, B)}
<1>1. 0 \in G
  <2>1. Cleared(t, t, 0, 0, B)
    <3>1. Len(t) \in Nat
      OBVIOUS
    <3>. QED
      BY <3>1 DEF Cleared
  <2>. QED
    BY <2>1 DEF End
<1>2. ASSUME NEW m \in 1 .. n, m - 1 \in G PROVE m \in G
  <2>1. m - 1 \in 0 .. Len(values) /\ m \in 0 .. n
    OBVIOUS
  <2>2. PICK d : Cleared(t, f[m - 1].text, End(values, r, m - 1), d, B)
    BY <1>2
  <2>3. f[m - 1].text \in Seq(A)
    BY <2>1 DEF Scans
  <2>4. \/ f[m] = f[m - 1] /\ \A j \in 1 .. Len(values[m]) : values[m][j] \in B
        \/ \E mask \in PlaceholderAtoms : f[m] = Substituted(f[m - 1], values[m], mask)
    BY DEF Clearing
  <2>. HIDE DEF G
  <2>5. \E new : Cleared(t, f[m].text, End(values, r, m), new, B)
    BY <2>2, <2>3, <2>4, RowStep
  <2>. QED
    BY <2>1, <2>5 DEF G
<1>. HIDE DEF G
<1>3. n \in G
  BY <1>1, <1>2, Climb
<1>4. PICK d : Cleared(t, f[n].text, End(values, r, n), d, B)
  BY <1>3 DEF G
<1>5. End(values, r, n) \in Nat
  BY RowIs
<1>6. f[n].text \in Seq(A)
  <2>1. n \in 0 .. Len(values)
    OBVIOUS
  <2>. QED
    BY <2>1 DEF Scans
<1>. DEFINE last == f[n].text
            e == End(values, r, n)
<1>. HIDE DEF last, e
<1>7. Cleared(t, last, e, d, B) /\ e \in Nat /\ last \in Seq(A)
  BY <1>4, <1>5, <1>6 DEF last, e
<1>8. PICK l \in Nat : l = Len(t)
  OBVIOUS
<1>9. d \in Nat /\ d <= e /\ e <= l /\ Len(last) = l - d
  BY <1>7, <1>8 DEF Cleared
<1>10. ASSUME NEW j \in 1 .. Len(last) PROVE last[j] \in B
  <2>1. CASE j <= e - d
    BY <1>7, <1>9, <2>1 DEF Cleared
  <2>2. CASE j > e - d
    <3>1. /\ j + d \in (e + 1) .. l /\ j + d \in 1 .. l
          /\ (j + d) - d = j /\ j + d > e
      BY <1>7, <1>8, <1>9, <2>2
    <3>2. last[(j + d) - d] = t[j + d]
      BY <1>7, <1>8, <3>1 DEF Cleared
    <3>3. n \in 0 .. n /\ ~(n < n)
      OBVIOUS
    <3>4. t[j + d] \in B
      BY <1>8, <3>1, <3>3, RowBetween DEF e
    <3>. QED
      BY <3>1, <3>2, <3>4
  <2>. QED
    BY <1>7, <1>9, <2>1, <2>2
<1>. QED
  BY <1>7, <1>10, OverThese DEF last

-----------------------------------------------------------------------------
(* The words of a text *)

\* k is a word of t, at i.
WordAt(t, word, i, m) ==
    /\ i \in 1 .. (m + 1) /\ i + Len(word) <= m + 1
    /\ \A j \in 1 .. Len(word) : word[j] = t[i + j - 1] /\ t[i + j - 1] # Space
    /\ i = 1 \/ t[i - 1] = Space

\* The words of t up to m, and where they begin.
WordsAt(t, words, q, m) ==
    /\ q \in [1 .. Len(words) -> 1 .. (m + 1)]
    /\ \A k \in 1 .. Len(words) : WordAt(t, words[k], q[k], m)
    /\ \A k, l \in 1 .. Len(words) : k < l => q[k] + Len(words[k]) < q[l]
    /\ \A p \in 1 .. m :
          t[p] # Space => \E k \in 1 .. Len(words) : p \in q[k] .. (q[k] + Len(words[k]) - 1)

\* The last one ends at m.
Ending(words, q, m) ==
    Len(words) >= 1 /\ q[Len(words)] + Len(words[Len(words)]) = m + 1

LEMMA Within ==
    ASSUME NEW a \in Nat, NEW b \in Nat, NEW c \in Nat, b <= c, NEW p \in a .. (a + b - 1)
    PROVE  p \in a .. (a + c - 1)
OBVIOUS

LEMMA SpaceAt ==
    ASSUME NEW A, NEW t \in Seq(A), NEW m \in 1 .. Len(t), t[m] = Space,
           NEW words \in Seq(Seq(A)), NEW q, WordsAt(t, words, q, m - 1), Ending(words, q, m - 1)
    PROVE  \E r : /\ WordsAt(t, Append(words, <<>>), r, m)
                  /\ Ending(Append(words, <<>>), r, m)
<1>1. PICK n \in Nat : n = Len(words)
  OBVIOUS
<1>. DEFINE new == Append(words, <<>>)
            r == [k \in 1 .. (n + 1) |-> IF k = n + 1 THEN m + 1 ELSE q[k]]
<1>2. Len(new) = n + 1 /\ new[n + 1] = <<>> /\ \A k \in 1 .. n : new[k] = words[k]
  BY <1>1, EmptySeq, AppendProperties
<1>3. r[n + 1] = m + 1 /\ \A k \in 1 .. n : r[k] = q[k]
  OBVIOUS
<1>4. DOMAIN r = 1 .. (n + 1)
  OBVIOUS
<1>5. m \in Nat /\ m >= 1 /\ n >= 1 /\ q[n] + Len(words[n]) = m
  BY <1>1 DEF Ending
<1>6. \A k \in 1 .. n : q[k] \in 1 .. m /\ Len(words[k]) \in Nat /\ q[k] + Len(words[k]) <= m
  BY <1>1, <1>5 DEF WordsAt, WordAt
<1>. HIDE DEF new
<1>7. r \in [1 .. (n + 1) -> 1 .. (m + 1)]
  BY <1>5, <1>6
<1>. HIDE DEF r
<1>8. ASSUME NEW k \in 1 .. (n + 1) PROVE WordAt(t, new[k], r[k], m)
  <2>1. CASE k = n + 1
    <3>1. m + 1 - 1 = m /\ Len(new[k]) = 0
      BY <1>2, <1>5, <2>1
    <3>. QED
      BY <1>2, <1>3, <1>5, <2>1, <3>1 DEF WordAt
  <2>2. CASE k \in 1 .. n
    <3>1. WordAt(t, words[k], q[k], m - 1)
      BY <1>1, <2>2 DEF WordsAt
    <3>2. new[k] = words[k] /\ r[k] = q[k]
      BY <1>2, <1>3, <2>2
    <3>3. q[k] \in 1 .. (m + 1) /\ q[k] + Len(words[k]) <= m + 1
      <4>1. q[k] \in 1 .. m /\ Len(words[k]) \in Nat /\ q[k] + Len(words[k]) <= m
        BY <1>6, <2>2
      <4>. QED
        BY <1>5, <4>1
    <3>. QED
      BY <3>1, <3>2, <3>3 DEF WordAt
  <2>. QED
    BY <2>1, <2>2
<1>9. ASSUME NEW k \in 1 .. (n + 1), NEW l \in 1 .. (n + 1), k < l
      PROVE  r[k] + Len(new[k]) < r[l]
  <2>1. k \in 1 .. n
    BY <1>9
  <2>2. CASE l = n + 1
    <3>1. new[k] = words[k] /\ r[k] = q[k] /\ r[l] = m + 1
      BY <1>2, <1>3, <2>1, <2>2
    <3>2. q[k] \in Nat /\ Len(words[k]) \in Nat /\ q[k] + Len(words[k]) <= m
      BY <1>6, <2>1
    <3>. QED
      BY <1>5, <3>1, <3>2
  <2>3. CASE l \in 1 .. n
    BY <1>1, <1>2, <1>3, <1>9, <2>1, <2>3 DEF WordsAt
  <2>. QED
    BY <2>2, <2>3
<1>10. ASSUME NEW p \in 1 .. m, t[p] # Space
       PROVE  \E k \in 1 .. (n + 1) : p \in r[k] .. (r[k] + Len(new[k]) - 1)
  <2>1. p \in 1 .. (m - 1)
    BY <1>10
  <2>2. PICK k \in 1 .. n : p \in q[k] .. (q[k] + Len(words[k]) - 1)
    BY <1>1, <1>10, <2>1 DEF WordsAt
  <2>3. k \in 1 .. (n + 1) /\ new[k] = words[k] /\ r[k] = q[k]
    BY <1>2, <1>3, <2>2
  <2>. QED
    BY <2>2, <2>3
<1>11. WordsAt(t, new, r, m)
  BY <1>2, <1>7, <1>8, <1>9, <1>10 DEF WordsAt
<1>12. Ending(new, r, m)
  BY <1>1, <1>2, <1>3, <1>5 DEF Ending
<1>. QED
  BY <1>11, <1>12 DEF new

LEMMA AtomAt ==
    ASSUME NEW A, NEW t \in Seq(A), NEW m \in 1 .. Len(t), t[m] # Space,
           NEW words \in Seq(Seq(A)), NEW q, WordsAt(t, words, q, m - 1), Ending(words, q, m - 1)
    PROVE  LET new == Append(Front(words), Append(Last(words), t[m]))
           IN  WordsAt(t, new, q, m) /\ Ending(new, q, m)
<1>1. PICK n \in Nat : n = Len(words)
  OBVIOUS
<1>. DEFINE word == words[n]
            longer == Append(word, t[m])
            front == Front(words)
            new == Append(front, longer)
<1>2. n >= 1 /\ word \in Seq(A) /\ t[m] \in A /\ Last(words) = word
  BY <1>1 DEF Ending, Last
<1>3. /\ longer \in Seq(A) /\ Len(longer) = Len(word) + 1 /\ longer[Len(word) + 1] = t[m]
      /\ \A j \in 1 .. Len(word) : longer[j] = word[j]
  BY <1>2, AppendProperties
<1>4. front \in Seq(Seq(A)) /\ Len(front) = n - 1 /\ \A k \in 1 .. (n - 1) : front[k] = words[k]
  <2>1. front = SubSeq(words, 1, n - 1)
    BY <1>1 DEF Front
  <2>2. \A k \in 1 .. (n - 1) : words[k] \in Seq(A)
    BY <1>1
  <2>. QED
    BY <1>1, <1>2, <2>1, <2>2, SubSeqProperties
<1>. HIDE DEF longer, front, word
<1>5. Len(new) = n /\ new[n] = longer /\ \A k \in 1 .. (n - 1) : new[k] = words[k]
  BY <1>1, <1>2, <1>3, <1>4, AppendProperties
<1>. HIDE DEF new
<1>6. m \in Nat /\ m >= 1 /\ Len(word) \in Nat /\ q[n] + Len(word) = m
  BY <1>1, <1>2 DEF Ending, word
<1>7. \A k \in 1 .. n : q[k] \in 1 .. m /\ Len(words[k]) \in Nat /\ q[k] + Len(words[k]) <= m
  BY <1>1, <1>6 DEF WordsAt, WordAt
<1>8. q \in [1 .. n -> 1 .. (m + 1)]
  <2>1. q \in [1 .. n -> 1 .. (m - 1 + 1)]
    BY <1>1 DEF WordsAt
  <2>. QED
    BY <1>6, <2>1
<1>9. ASSUME NEW k \in 1 .. n PROVE WordAt(t, new[k], q[k], m)
  <2>0. WordAt(t, words[k], q[k], m - 1)
    BY <1>1 DEF WordsAt
  <2>1. CASE k = n
    <3>1. new[k] = longer /\ words[k] = word
      BY <1>5, <2>1 DEF word
    <3>2. q[k] \in 1 .. (m + 1) /\ q[k] + Len(longer) <= m + 1 /\ q[k] \in Nat
      BY <1>3, <1>6, <1>7, <2>1
    <3>3. ASSUME NEW j \in 1 .. Len(longer)
          PROVE  longer[j] = t[q[k] + j - 1] /\ t[q[k] + j - 1] # Space
      <4>1. CASE j \in 1 .. Len(word)
        BY <1>3, <2>0, <3>1, <4>1 DEF WordAt
      <4>2. CASE j = Len(word) + 1
        <5>1. q[k] + j - 1 = m
          BY <1>6, <2>1, <4>2
        <5>. QED
          BY <1>3, <4>2, <5>1
      <4>. QED
        BY <1>3, <1>6, <4>1, <4>2
    <3>4. q[k] = 1 \/ t[q[k] - 1] = Space
      BY <2>0 DEF WordAt
    <3>. QED
      BY <3>1, <3>2, <3>3, <3>4 DEF WordAt
  <2>2. CASE k \in 1 .. (n - 1)
    <3>2. new[k] = words[k]
      BY <1>5, <2>2
    <3>3. q[k] \in 1 .. (m + 1) /\ q[k] + Len(words[k]) <= m + 1
      BY <1>6, <1>7
    <3>. QED
      BY <2>0, <3>2, <3>3 DEF WordAt
  <2>. QED
    BY <2>1, <2>2
<1>10. ASSUME NEW k \in 1 .. n, NEW l \in 1 .. n, k < l
       PROVE  q[k] + Len(new[k]) < q[l]
  <2>1. k \in 1 .. (n - 1)
    BY <1>10
  <2>2. new[k] = words[k]
    BY <1>5, <2>1
  <2>. QED
    BY <1>1, <1>10, <2>2 DEF WordsAt
<1>11. ASSUME NEW p \in 1 .. m, t[p] # Space
       PROVE  \E k \in 1 .. n : p \in q[k] .. (q[k] + Len(new[k]) - 1)
  <2>1. CASE p = m
    <3>1. n \in 1 .. n /\ p \in q[n] .. (q[n] + Len(new[n]) - 1)
      BY <1>2, <1>3, <1>5, <1>6, <1>7, <2>1
    <3>. QED
      BY <3>1
  <2>2. CASE p # m
    <3>1. PICK k \in 1 .. n : p \in q[k] .. (q[k] + Len(words[k]) - 1)
      BY <1>1, <1>11, <2>2 DEF WordsAt
    <3>2. q[k] \in Nat /\ Len(words[k]) \in Nat /\ Len(new[k]) \in Nat /\ Len(new[k]) >= Len(words[k])
      <4>1. CASE k = n
        BY <1>3, <1>5, <1>6, <1>7, <4>1 DEF word
      <4>2. CASE k # n
        BY <1>5, <1>7, <4>2
      <4>. QED
        BY <4>1, <4>2
    <3>3. p \in q[k] .. (q[k] + Len(new[k]) - 1)
      BY <3>1, <3>2, Within
    <3>. QED
      BY <3>3
  <2>. QED
    BY <2>1, <2>2
<1>12. WordsAt(t, new, q, m)
  BY <1>5, <1>8, <1>9, <1>10, <1>11 DEF WordsAt
<1>13. Ending(new, q, m)
  <2>1. n \in 1 .. n /\ q[n] \in Nat
    BY <1>2, <1>7
  <2>2. PICK a \in Nat, b \in Nat : a = q[n] /\ b = Len(word)
    BY <1>6, <2>1
  <2>3. q[n] + Len(longer) = a + (b + 1) /\ a + b = m
    BY <1>3, <1>6, <2>2
  <2>. QED
    BY <1>2, <1>5, <1>6, <2>3 DEF Ending
<1>. QED
  BY <1>2, <1>12, <1>13 DEF new, front, longer

LEMMA WordsPlaces ==
    ASSUME NEW A, NEW t \in Seq(A)
    PROVE  /\ FoldLeft(Extended, <<(<<>>)>>, t) \in Seq(Seq(A))
           /\ \E q : WordsAt(t, FoldLeft(Extended, <<(<<>>)>>, t), q, Len(t))
<1>1. PICK f \in [0 .. Len(t) -> Seq(Seq(A)) \ {<<>>}] : WordsThrough(t, f)
  BY WordsSteps
<1>2. Len(t) \in Nat
  OBVIOUS
<1>. DEFINE Good(m) == \E q : WordsAt(t, f[m], q, m) /\ Ending(f[m], q, m)
            G == {m \in 0 .. Len(t) : Good(m)}
<1>3. 0 \in G
  <2>. DEFINE words == <<(<<>>)>>
              q == [k \in 1 .. 1 |-> 1]
  <2>1. f[0] = words
    BY <1>1 DEF WordsThrough
  <2>2. Len(words) = 1 /\ words[1] = <<>> /\ Len(<<>>) = 0
    OBVIOUS
  <2>3. q[1] = 1 /\ q \in [1 .. 1 -> 1 .. 1]
    OBVIOUS
  <2>. HIDE DEF words, q
  <2>4. WordAt(t, words[1], q[1], 0)
    BY <2>2, <2>3 DEF WordAt
  <2>5. WordsAt(t, words, q, 0) /\ Ending(words, q, 0)
    BY <2>2, <2>3, <2>4 DEF WordsAt, Ending
  <2>. QED
    BY <1>2, <2>1, <2>5
<1>4. ASSUME NEW m \in 1 .. Len(t), m - 1 \in G PROVE m \in G
  <2>1. m - 1 \in 0 .. Len(t) /\ m \in 0 .. Len(t)
    BY <1>2
  <2>2. PICK q : WordsAt(t, f[m - 1], q, m - 1) /\ Ending(f[m - 1], q, m - 1)
    BY <1>4
  <2>3. f[m - 1] \in Seq(Seq(A)) /\ f[m] = Extended(f[m - 1], t[m])
    BY <1>1, <2>1 DEF WordsThrough
  <2>. HIDE DEF G, Good
  <2>4. CASE t[m] = Space
    <3>1. f[m] = Append(f[m - 1], <<>>)
      BY <2>3, <2>4 DEF Extended
    <3>2. \E r : WordsAt(t, f[m], r, m) /\ Ending(f[m], r, m)
      BY <2>2, <2>3, <2>4, <3>1, SpaceAt
    <3>. QED
      BY <2>1, <3>2 DEF G, Good
  <2>5. CASE t[m] # Space
    <3>1. f[m] = Append(Front(f[m - 1]), Append(Last(f[m - 1]), t[m]))
      BY <2>3, <2>5 DEF Extended
    <3>2. WordsAt(t, f[m], q, m) /\ Ending(f[m], q, m)
      BY <2>2, <2>3, <2>5, <3>1, AtomAt
    <3>. QED
      BY <2>1, <3>2 DEF G, Good
  <2>. QED
    BY <2>4, <2>5
<1>. HIDE DEF G
<1>5. Len(t) \in G
  BY <1>2, <1>3, <1>4, Climb
<1>6. f[Len(t)] = FoldLeft(Extended, <<(<<>>)>>, t) /\ f[Len(t)] \in Seq(Seq(A))
  BY <1>1, <1>2 DEF WordsThrough
<1>. QED
  BY <1>5, <1>6 DEF G

-----------------------------------------------------------------------------
(* The words that make a secret, and what the last pass leaves of them *)

\* What may be left: all but the secrets that are not of B.
Harmless(A, B) == {atom \in A : Secret(atom) => atom \in B}

\* The words of Fields are those that are not empty.
LEMMA FieldsPlaces ==
    ASSUME NEW A, NEW t \in Seq(A)
    PROVE  \E words, q, a :
              /\ words \in Seq(Seq(A)) /\ WordsAt(t, words, q, Len(t))
              /\ KeptAt(words, ToSet(words) \ {<<>>}, Len(words), Fields(t), a)
<1>. DEFINE words == FoldLeft(Extended, <<(<<>>)>>, t)
            S == ToSet(words) \ {<<>>}
<1>1. words \in Seq(Seq(A))
  BY WordsPlaces
<1>2. PICK q : WordsAt(t, words, q, Len(t))
  BY WordsPlaces
<1>3. Fields(t) = Kept(words, S)
  BY DEF Fields
<1>. HIDE DEF words, S
<1>4. PICK a : KeptAt(words, S, Len(words), Kept(words, S), a)
  BY <1>1, KeptPlaces
<1>. QED
  BY <1>1, <1>2, <1>3, <1>4 DEF S

\* What stands inside a text, whatever stands next to it.
LEMMA InsideIs ==
    ASSUME NEW A, NEW t \in Seq(A), NEW i \in 1 .. Len(t), InsideAt(t, i), t[i] # Space
    PROVE  t[i] \in Inside(t)
<1>1. PICK words, q, a :
         /\ words \in Seq(Seq(A)) /\ WordsAt(t, words, q, Len(t))
         /\ KeptAt(words, ToSet(words) \ {<<>>}, Len(words), Fields(t), a)
  BY FieldsPlaces
<1>2. PICK k \in 1 .. Len(words) : i \in q[k] .. (q[k] + Len(words[k]) - 1)
  BY <1>1 DEF WordsAt
<1>3. WordAt(t, words[k], q[k], Len(t))
  BY <1>1 DEF WordsAt
<1>4. PICK b \in Nat, l \in Nat, n \in Nat : b = q[k] /\ l = Len(words[k]) /\ n = Len(t)
  <2>1. Len(t) \in Nat /\ Len(words[k]) \in Nat /\ q[k] \in Nat
    BY <1>3 DEF WordAt
  <2>. QED
    BY <2>1
<1>5. i \in Nat /\ b >= 1 /\ b <= i /\ i <= b + l - 1 /\ i \in 2 .. (n - 1) /\ b + l <= n + 1
  BY <1>2, <1>3, <1>4 DEF InsideAt, WordAt
<1>6. i # b
  <2>1. t[i - 1] # Space
    BY DEF InsideAt
  <2>2. b = 1 \/ t[b - 1] = Space
    BY <1>3, <1>4 DEF WordAt
  <2>. QED
    BY <1>5, <2>1, <2>2
<1>7. i # b + l - 1
  <2>. SUFFICES ASSUME i = b + l - 1 PROVE FALSE
    OBVIOUS
  <2>1. i + 1 \in 1 .. n /\ t[i + 1] # Space
    BY <1>5 DEF InsideAt
  <2>2. PICK m \in 1 .. Len(words) : i + 1 \in q[m] .. (q[m] + Len(words[m]) - 1)
    BY <1>1, <1>4, <2>1 DEF WordsAt
  <2>3. PICK c \in Nat, d \in Nat : c = q[m] /\ d = Len(words[m])
    <3>1. WordAt(t, words[m], q[m], Len(t))
      BY <1>1 DEF WordsAt
    <3>2. Len(words[m]) \in Nat /\ q[m] \in Nat
      BY <3>1 DEF WordAt
    <3>. QED
      BY <3>2
  <2>4. i + 1 = b + l /\ c <= b + l /\ b + l < c + d
    BY <1>5, <2>2, <2>3
  <2>5. k < m => b + l < c
    BY <1>1, <1>4, <2>3 DEF WordsAt
  <2>6. m < k => c + d < b
    BY <1>1, <1>4, <2>3 DEF WordsAt
  <2>7. k = m => b = c /\ l = d
    BY <1>4, <2>3
  <2>. QED
    BY <1>5, <2>4, <2>5, <2>6, <2>7
<1>. DEFINE j == i - b + 1
<1>8. j \in 2 .. (l - 1) /\ j \in 1 .. l /\ b + j - 1 = i
  BY <1>5, <1>6, <1>7
<1>. HIDE DEF j
<1>9. words[k][j] = t[i]
  BY <1>3, <1>4, <1>8 DEF WordAt
<1>10. words[k] \in ToSet(words) \ {<<>>}
  <2>1. words[k] # <<>>
    BY <1>4, <1>8
  <2>. QED
    BY <2>1 DEF ToSet
<1>11. PICK x \in 1 .. Len(Fields(t)) : a[x] = k
  BY <1>1, <1>10 DEF KeptAt
<1>12. Fields(t)[x] = words[k]
  BY <1>1, <1>11 DEF KeptAt
<1>13. words[k] \in AtomsOf(Fields(t))
  <2>1. Fields(t) \in Seq(Seq(A))
    BY FieldsIn
  <2>. QED
    BY <1>11, <1>12, <2>1 DEF AtomsOf, ToSet
<1>. QED
  BY <1>4, <1>8, <1>9, <1>13 DEF Inside

LEMMA SecretsPlaces ==
    ASSUME NEW A, NEW t \in Seq(A), NEW B, Sheltered(t, B), NEW values,
           values = Kept(Fields(t), {word \in ToSet(Fields(t)) : IsHighEntropy(word)})
    PROVE  values \in Seq(Glued(A)) /\ \E r : RowAt(t, values, r, Len(values), Harmless(A, B))
<1>. DEFINE H == {word \in ToSet(Fields(t)) : IsHighEntropy(word)}
<1>1. PICK words, q, a :
         /\ words \in Seq(Seq(A)) /\ WordsAt(t, words, q, Len(t))
         /\ KeptAt(words, ToSet(words) \ {<<>>}, Len(words), Fields(t), a)
  BY FieldsPlaces
<1>2. Fields(t) \in Seq(Seq(A))
  BY FieldsIn
<1>. HIDE DEF H
<1>3. PICK b : KeptAt(Fields(t), H, Len(Fields(t)), values, b)
  BY <1>2, KeptPlaces DEF H
<1>4. values \in Seq(Seq(A))
  BY <1>2, KeptIn DEF H
<1>5. PICK n \in Nat, w \in Nat, x \in Nat, y \in Nat :
         n = Len(t) /\ w = Len(words) /\ x = Len(Fields(t)) /\ y = Len(values)
  <2>1. Len(t) \in Nat /\ Len(words) \in Nat
    BY <1>1
  <2>2. Len(Fields(t)) \in Nat
    BY <1>2
  <2>3. Len(values) \in Nat
    BY <1>4
  <2>. QED
    BY <2>1, <2>2, <2>3
<1>. DEFINE at == [k \in 1 .. y |-> a[b[k]]]
            r == [k \in 1 .. y |-> q[at[k]]]
<1>6. ASSUME NEW k \in 1 .. y
      PROVE  /\ b[k] \in 1 .. x /\ at[k] = a[b[k]] /\ at[k] \in 1 .. w /\ r[k] = q[at[k]]
             /\ values[k] = words[at[k]] /\ values[k] # <<>>
  <2>1. b[k] \in 1 .. x /\ values[k] = Fields(t)[b[k]]
    BY <1>3, <1>5 DEF KeptAt
  <2>2. /\ a[b[k]] \in 1 .. w /\ Fields(t)[b[k]] = words[a[b[k]]]
        /\ words[a[b[k]]] \in ToSet(words) \ {<<>>}
    BY <1>1, <1>5, <2>1 DEF KeptAt
  <2>. QED
    BY <2>1, <2>2
<1>8. \A k, l \in 1 .. y : k < l => at[k] < at[l]
  <2>1. SUFFICES ASSUME NEW k \in 1 .. y, NEW l \in 1 .. y, k < l PROVE at[k] < at[l]
    OBVIOUS
  <2>2. b[k] < b[l]
    BY <1>3, <1>5, <2>1 DEF KeptAt
  <2>3. a[b[k]] < a[b[l]]
    BY <1>1, <1>5, <1>6, <2>2 DEF KeptAt
  <2>. QED
    BY <1>6, <2>3
<1>. HIDE DEF at, r
<1>9. ASSUME NEW k \in 1 .. y
       PROVE  values[k] \in Seq(A) /\ Len(values[k]) \in Nat /\ Len(values[k]) # 0
  <2>1. k \in 1 .. Len(values)
    BY <1>5
  <2>2. values[k] \in Seq(A)
    BY <1>4, <2>1, ElementOfSeq
  <2>. QED
    BY <1>6, <2>2, EmptySeq
<1>11. ASSUME NEW k \in 1 .. y PROVE WordAt(t, values[k], r[k], n) /\ r[k] \in 1 .. n
  <2>1. WordAt(t, values[k], r[k], n)
    BY <1>1, <1>5, <1>6 DEF WordsAt
  <2>3. PICK l \in Nat : l = Len(values[k]) /\ l # 0
    BY <1>9
  <2>4. r[k] \in 1 .. (n + 1) /\ r[k] + l <= n + 1
    BY <2>1, <2>3 DEF WordAt
  <2>5. r[k] \in 1 .. n
    BY <2>3, <2>4
  <2>. QED
    BY <2>1, <2>5
<1>12. ASSUME NEW k \in 1 .. y PROVE StandsAt(values[k], t, r[k])
  <2>1. PICK l \in Nat : l = Len(values[k])
    BY <1>9
  <2>2. r[k] \in 1 .. n /\ r[k] + l <= n + 1
    BY <1>11, <2>1 DEF WordAt
  <2>3. r[k] \in 1 .. (n + 1 - l)
    BY <2>2
  <2>. QED
    BY <1>5, <1>11, <2>1, <2>3 DEF WordAt, StandsAt
<1>13. ASSUME NEW k \in 1 .. y, NEW l \in 1 .. y, k < l PROVE r[k] + Len(values[k]) <= r[l]
  <2>1. r[k] + Len(values[k]) < r[l]
    BY <1>1, <1>5, <1>6, <1>8, <1>13 DEF WordsAt
  <2>. QED
    BY <1>11, <1>9, <2>1
<1>14. ASSUME NEW p \in 1 .. n, Secret(t[p]), t[p] \notin B
       PROVE  \E k \in 1 .. y : p \in r[k] .. (r[k] + Len(values[k]) - 1)
  <2>1. t[p] # Space
    BY <1>14 DEF Secret, Space, Atom
  <2>2. PICK k \in 1 .. w : p \in q[k] .. (q[k] + Len(words[k]) - 1)
    BY <1>1, <1>5, <2>1 DEF WordsAt
  <2>3. WordAt(t, words[k], q[k], n)
    BY <1>1, <1>5 DEF WordsAt
  <2>4. PICK c \in Nat, l \in Nat : c = q[k] /\ l = Len(words[k])
    <3>1. Len(words[k]) \in Nat /\ q[k] \in Nat
      BY <1>5, <2>3 DEF WordAt
    <3>. QED
      BY <3>1
  <2>5. p \in Nat /\ c >= 1 /\ c <= p /\ p <= c + l - 1 /\ c + l <= n + 1 /\ l >= 1
    BY <2>2, <2>3, <2>4 DEF WordAt
  <2>6. words[k] \in ToSet(words) \ {<<>>}
    <3>1. words[k] # <<>>
      BY <2>4, <2>5
    <3>. QED
      BY <1>5, <3>1 DEF ToSet
  <2>7. PICK z \in 1 .. x : a[z] = k
    BY <1>1, <1>5, <2>6 DEF KeptAt
  <2>8. Fields(t)[z] = words[k]
    BY <1>1, <1>5, <2>7 DEF KeptAt
  <2>9. \A j \in 1 .. l : words[k][j] = t[c + j - 1] /\ t[c + j - 1] # Space
    BY <2>3, <2>4 DEF WordAt
  <2>10. words[k] \in H
    <3>1. words[k] \in ToSet(Fields(t))
      BY <1>2, <1>5, <2>7, <2>8 DEF ToSet
    <3>2. p - c + 1 \in 1 .. l /\ c + (p - c + 1) - 1 = p
      BY <2>5
    <3>3. words[k][p - c + 1] = t[p] /\ p - c + 1 \in DOMAIN words[k]
      <4>1. k \in 1 .. Len(words)
        BY <1>5
      <4>2. words[k] \in Seq(A)
        BY <1>1, <4>1, ElementOfSeq
      <4>3. DOMAIN words[k] = 1 .. l
        BY <2>4, <4>2, LenProperties
      <4>. QED
        BY <2>9, <3>2, <4>3
    <3>4. \E j \in DOMAIN words[k] : words[k][j].kind \in {"random", "key"}
      BY <1>14, <3>3 DEF Secret
    <3>5. ~Bracketed(words[k])
      <4>. SUFFICES ASSUME Bracketed(words[k]) PROVE FALSE
        OBVIOUS
      <4>1. Head(words[k]) = words[k][1] /\ Last(words[k]) = words[k][l]
        BY <2>4 DEF Last
      <4>2. IsPlaceholder(words[k][1]) /\ IsPlaceholder(words[k][l])
        BY <4>1 DEF Bracketed
      <4>3. words[k][1] = t[c] /\ words[k][l] = t[c + l - 1]
        <5>1. 1 \in 1 .. l /\ l \in 1 .. l /\ c + 1 - 1 = c
          BY <2>5
        <5>. QED
          BY <2>9, <5>1
      <4>4. ~IsPlaceholder(t[p])
        BY <1>14 DEF Secret, IsPlaceholder, Placeholders
      <4>5. p # c /\ p # c + l - 1
        BY <4>2, <4>3, <4>4
      <4>6. p - c \in 1 .. l /\ c + (p - c) - 1 = p - 1
        BY <2>5, <4>5
      <4>7. p - c + 2 \in 1 .. l /\ c + (p - c + 2) - 1 = p + 1
        BY <2>5, <4>5
      <4>8. t[p - 1] # Space /\ t[p + 1] # Space
        BY <2>9, <4>6, <4>7
      <4>9. p \in 2 .. (n - 1)
        BY <2>5, <4>5
      <4>10. InsideAt(t, p)
        BY <1>5, <4>8, <4>9 DEF InsideAt
      <4>. QED
        BY <1>5, <1>14, <4>10 DEF Sheltered
    <3>. QED
      BY <3>1, <3>4, <3>5 DEF H, IsHighEntropy
  <2>11. PICK m \in 1 .. y : b[m] = z
    BY <1>3, <1>5, <2>8, <2>10 DEF KeptAt
  <2>12. at[m] = k /\ r[m] = q[k] /\ values[m] = words[k]
    BY <1>6, <2>7, <2>11
  <2>. QED
    BY <2>2, <2>12
<1>15. \A p \in 1 .. n :
          \/ t[p] \in Harmless(A, B)
          \/ \E k \in 1 .. y : p \in r[k] .. (r[k] + Len(values[k]) - 1)
  <2>1. \A p \in 1 .. n : t[p] \in A
    BY <1>5
  <2>. QED
    BY <1>14, <2>1 DEF Harmless
<1>16. RowAt(t, values, r, Len(values), Harmless(A, B))
  BY <1>5, <1>12, <1>13, <1>15 DEF RowAt
<1>17. ASSUME NEW k \in 1 .. Len(values) PROVE values[k] \in Glued(A)
  <2>1. k \in 1 .. y
    BY <1>5
  <2>2. values[k] \in Seq(A)
    BY <1>4
  <2>3. WordAt(t, values[k], r[k], n) /\ values[k] # <<>>
    BY <1>6, <1>11, <2>1
  <2>4. \A j \in 1 .. Len(values[k]) : values[k][j] # Space
    BY <2>3 DEF WordAt
  <2>5. \A j \in 1 .. Len(values[k]) : values[k][j] \in A \ {Space}
    BY <2>2, <2>4
  <2>. QED
    BY <2>2, <2>3, <2>5, OverThese DEF Glued
<1>18. values \in Seq(Glued(A))
  BY <1>4, <1>17, OverThese
<1>. QED
  BY <1>16, <1>18

\* The last pass leaves no secrets but those that stand inside a word.
LEMMA SecretsCleared ==
    ASSUME NEW A, NEW V, NEW text, PlaceholderAtoms \subseteq A, A \subseteq V,
           NEW scan \in Scans(A, V, text), NEW B, Sheltered(scan.text, B)
    PROVE  RedactHighEntropy(scan).text \in Seq(Harmless(A, B))
<1>. DEFINE words == Fields(scan.text)
            values == Kept(words, {word \in ToSet(words) : IsHighEntropy(word)})
            placeholders == [k \in DOMAIN values |-> Atom("[HIGH_ENTROPY_SECRET]", k)]
            n == Len(values)
<1>1. scan.text \in Seq(A)
  BY DEF Scans
<1>2. values \in Seq(Glued(A)) /\ \E r : RowAt(scan.text, values, r, n, Harmless(A, B))
  BY <1>1, SecretsPlaces
<1>3. RedactHighEntropy(scan) = Replaced(scan, values, placeholders)
  BY DEF RedactHighEntropy, Numbered
<1>. HIDE DEF values
<1>4. PICK r : RowAt(scan.text, values, r, n, Harmless(A, B))
  BY <1>2
<1>5. values \in Seq(Seq(V)) /\ n \in Nat /\ n \in 0 .. Len(values)
  BY <1>2, GluedOverMore, GluedAreTexts
<1>6. \A k \in 1 .. n : placeholders[k] \in PlaceholderAtoms
  BY <1>2, PlaceholderIs DEF Placeholders
<1>. HIDE DEF placeholders
<1>7. PICK f \in [0 .. n -> Scans(A, V, text)] : ReplacedThrough(scan, values, placeholders, f)
  BY <1>5, <1>6, ReplacedSteps
<1>8. f[0] = scan /\ f[n] = RedactHighEntropy(scan)
  BY <1>3, <1>7 DEF ReplacedThrough
<1>9. Clearing(f, values, n, Harmless(A, B))
  BY <1>6, <1>7 DEF ReplacedThrough, Clearing
<1>10. PlaceholderAtoms \subseteq Harmless(A, B)
  BY PlaceholdersAre DEF Harmless
<1>11. f[0].text = scan.text /\ f \in [0 .. Len(values) -> Scans(A, V, text)]
  BY <1>7, <1>8
<1>12. f[n].text \in Seq(Harmless(A, B))
  <2>. DEFINE t == scan.text
              H == Harmless(A, B)
  <2>1. values \in Seq(Glued(A)) /\ t \in Seq(A) /\ n \in 0 .. Len(values)
    BY <1>1, <1>2, <1>5
  <2>2. RowAt(t, values, r, n, H) /\ Clearing(f, values, n, H) /\ PlaceholderAtoms \subseteq H
    BY <1>4, <1>9, <1>10
  <2>3. f \in [0 .. Len(values) -> Scans(A, V, text)] /\ f[0].text = t
    BY <1>11
  <2>. HIDE DEF n, t, H
  <2>4. f[n].text \in Seq(H)
    BY <2>1, <2>2, <2>3, RowClears
  <2>. QED
    BY <2>4 DEF H
<1>. QED
  BY <1>8, <1>12

LEMMA SecretsKept ==
    ASSUME NEW A, PlaceholderAtoms \subseteq A, NEW text \in Seq(A), NEW presidio \in BOOLEAN
    PROVE  NoSecretStandsOut(Sanitize(text, on, presidio).text, text)
<1>. DEFINE B == Inside(text)
            scan == Keys(text, presidio)
            final == Sanitize(text, on, presidio)
<1>. SUFFICES ASSUME "EntropyScanner" \in on,
                     NEW atom \in AtomsOf(final.text), Secret(atom)
              PROVE  atom \in B
  BY DEF NoSecretStandsOut, Secret
<1>1. Sheltered(text, B)
  <2>1. ASSUME NEW i \in 1 .. Len(text), Secret(text[i]), InsideAt(text, i) PROVE text[i] \in B
    <3>1. text[i] # Space
      BY <2>1 DEF Secret, Space, Atom
    <3>. QED
      BY <2>1, <3>1, InsideIs
  <2>. QED
    BY <2>1 DEF Sheltered
<1>. HIDE DEF B, scan, final
<1>2. scan \in Scans(A, A, text) /\ Sheltered(scan.text, B)
  BY <1>1, KeysShelter DEF scan
<1>3. final = RedactHighEntropy(scan)
  BY SanitizePasses DEF final, scan, When
<1>4. final.text \in Seq(Harmless(A, B))
  BY <1>2, <1>3, SecretsCleared
<1>5. atom \in Harmless(A, B)
  BY <1>4, AtomsAre
<1>. QED
  BY <1>5 DEF Harmless

-----------------------------------------------------------------------------
(* Where the passwords stand *)

\* The last value has become longer; a new one has begun.
Grown(old, new, atom) ==
    /\ Len(new) = Len(old)
    /\ \A k \in 1 .. (Len(old) - 1) : new[k] = old[k]
    /\ new[Len(old)] = Append(old[Len(old)], atom)

Begun(old, new, atom) ==
    /\ Len(new) = Len(old) + 1
    /\ \A k \in 1 .. Len(old) : new[k] = old[k]
    /\ new[Len(old) + 1] = <<atom>>

Grows(state, atom) == state.open = "value" /\ atom # Space

Begins(state, atom) == state.open = "keyword" /\ atom # Space

Waits(state, atom) == state.open = "keyword" /\ atom = Space

Ends(state, atom) == state.open # "keyword" /\ (state.open = "value" => atom = Space)

PasswordMove(state, atom, next) ==
    /\ Grows(state, atom) => /\ next.open = "value" /\ state.values # <<>>
                             /\ Grown(state.values, next.values, atom)
    /\ Begins(state, atom) => next.open = "value" /\ Begun(state.values, next.values, atom)
    /\ Waits(state, atom) => next = state
    /\ Ends(state, atom) => /\ next.values = state.values
                            /\ next.open = IF atom.kind = "keyword" THEN "keyword" ELSE "no"

LEMMA PasswordMoves ==
    ASSUME NEW A, NEW state \in PasswordStates(A), NEW atom \in A
    PROVE  PasswordMove(state, atom, PasswordStep(state, atom))
<1>. DEFINE next == PasswordStep(state, atom)
            old == state.values
<1>1. /\ state \in [open : {"no", "keyword", "value"}, values : Seq(Glued(A))]
      /\ state.open = "value" => old # <<>>
  BY DEF PasswordStates
<1>2. old \in Seq(Glued(A))
  BY <1>1
<1>3. ASSUME Grows(state, atom)
      PROVE  next.open = "value" /\ old # <<>> /\ Grown(old, next.values, atom)
  <2>. DEFINE front == Front(old)
              value == Append(Last(old), atom)
              n == Len(old)
  <2>1. old # <<>> /\ next = [state EXCEPT !.values = Append(front, value)]
    BY <1>1, <1>3 DEF PasswordStep, Grows
  <2>2. next.open = "value" /\ next.values = Append(front, value)
    BY <1>1, <1>3, <2>1 DEF Grows
  <2>3. n \in Nat /\ n >= 1 /\ Last(old) = old[n]
    BY <1>2, <2>1 DEF Last
  <2>4. front \in Seq(Glued(A)) /\ Len(front) = n - 1 /\ \A k \in 1 .. (n - 1) : front[k] = old[k]
    <3>1. front = SubSeq(old, 1, n - 1)
      BY DEF Front
    <3>2. \A k \in 1 .. (n - 1) : old[k] \in Glued(A)
      BY <1>2
    <3>. QED
      BY <2>3, <3>1, <3>2, SubSeqProperties
  <2>5. value \in Glued(A)
    <3>1. Last(old) \in Glued(A)
      BY <1>2, <2>1, FrontAndLast
    <3>2. Last(old) \in Seq(A \ {Space})
      BY <3>1 DEF Glued
    <3>. QED
      BY <1>3, <3>2, GluedLonger DEF Grows
  <2>6. value = Append(old[n], atom)
    BY <2>3
  <2>. HIDE DEF front, value, next, n, old
  <2>7. /\ Len(Append(front, value)) = n
        /\ \A k \in 1 .. (n - 1) : Append(front, value)[k] = old[k]
        /\ Append(front, value)[n] = value
    BY <2>3, <2>4, <2>5, AppendProperties
  <2>. QED
    BY <2>1, <2>2, <2>6, <2>7 DEF Grown, n
<1>4. ASSUME Begins(state, atom)
      PROVE  next.open = "value" /\ Begun(old, next.values, atom)
  <2>. DEFINE value == <<atom>>
  <2>1. next = [open |-> "value", values |-> Append(old, value)]
    BY <1>4 DEF PasswordStep, Begins
  <2>2. next.open = "value" /\ next.values = Append(old, value)
    BY <2>1
  <2>3. value \in Glued(A)
    <3>1. <<atom>> \in Seq(A \ {Space})
      BY <1>4 DEF Begins
    <3>. QED
      BY <3>1 DEF Glued
  <2>. HIDE DEF value, next, old
  <2>4. /\ Len(Append(old, value)) = Len(old) + 1
        /\ \A k \in 1 .. Len(old) : Append(old, value)[k] = old[k]
        /\ Append(old, value)[Len(old) + 1] = value
    BY <1>2, <2>3, AppendProperties
  <2>. QED
    BY <2>2, <2>4 DEF Begun, value
<1>5. ASSUME Waits(state, atom) PROVE next = state
  BY <1>5 DEF PasswordStep, Waits
<1>6. ASSUME Ends(state, atom)
      PROVE  next.values = old /\ next.open = IF atom.kind = "keyword" THEN "keyword" ELSE "no"
  <2>1. next = [state EXCEPT !.open = IF atom.kind = "keyword" THEN "keyword" ELSE "no"]
    BY <1>6 DEF PasswordStep, Ends
  <2>. QED
    BY <1>1, <2>1
<1>. QED
  BY <1>3, <1>4, <1>5, <1>6 DEF PasswordMove

\* "password:" and spaces up to i.
Announced(t, i) ==
    \E y \in 1 .. (i - 1) : t[y].kind = "keyword" /\ \A p \in (y + 1) .. (i - 1) : t[p] = Space

ValueAt(t, value, i, m) ==
    /\ i \in 1 .. m /\ i + Len(value) <= m + 1
    /\ \A j \in 1 .. Len(value) : t[i + j - 1] = value[j]
    /\ Announced(t, i)

\* The passwords up to m stand in t at z, one behind the other.
PasswordsTo(t, state, z, m) ==
    /\ \A k \in 1 .. Len(state.values) : ValueAt(t, state.values[k], z[k], m)
    /\ \A k, l \in 1 .. Len(state.values) : k < l => z[k] + Len(state.values[k]) <= z[l]
    /\ state.open = "value" =>
          z[Len(state.values)] + Len(state.values[Len(state.values)]) = m + 1
    /\ state.open = "keyword" => Announced(t, m + 1)

NextPlaces(state, atom, z, m) ==
    IF Begins(state, atom)
    THEN [k \in 1 .. (Len(state.values) + 1) |-> IF k = Len(state.values) + 1 THEN m ELSE z[k]]
    ELSE z

LEMMA PasswordsNext ==
    ASSUME NEW A, NEW t \in Seq(A), NEW m \in 1 .. Len(t), NEW state \in PasswordStates(A),
           NEW z, PasswordsTo(t, state, z, m - 1),
           NEW next, PasswordMove(state, t[m], next)
    PROVE  PasswordsTo(t, next, NextPlaces(state, t[m], z, m), m)
<1>. DEFINE old == state.values
            new == next.values
            r == NextPlaces(state, t[m], z, m)
<1>1. m \in Nat /\ m >= 1 /\ t[m] \in A
  OBVIOUS
<1>2. old \in Seq(Glued(A)) /\ state.open \in {"no", "keyword", "value"}
  BY DEF PasswordStates
<1>3. PICK n \in Nat : n = Len(old)
  BY <1>2
<1>4. ASSUME NEW k \in 1 .. n
      PROVE  /\ ValueAt(t, old[k], z[k], m - 1) /\ z[k] \in Nat /\ z[k] >= 1
             /\ Len(old[k]) \in Nat /\ Len(old[k]) >= 1 /\ z[k] + Len(old[k]) <= m
             /\ ValueAt(t, old[k], z[k], m) /\ old[k] \in Glued(A)
  <2>1. ValueAt(t, old[k], z[k], m - 1)
    BY <1>3 DEF PasswordsTo
  <2>2. old[k] \in Glued(A)
    BY <1>2, <1>3
  <2>3. PICK l \in Nat : l = Len(old[k]) /\ l >= 1
    BY <2>2, GluedIs
  <2>4. z[k] \in 1 .. (m - 1) /\ z[k] + l <= (m - 1) + 1
    BY <2>1, <2>3 DEF ValueAt
  <2>5. z[k] \in 1 .. m /\ z[k] \in Nat /\ z[k] >= 1 /\ z[k] + l <= m /\ z[k] + l <= m + 1
    BY <1>1, <2>3, <2>4
  <2>. QED
    BY <2>1, <2>2, <2>3, <2>5 DEF ValueAt
<1>5. \A k, l \in 1 .. n : k < l => z[k] + Len(old[k]) <= z[l]
  BY <1>3 DEF PasswordsTo
<1>6. CASE Grows(state, t[m])
  <2>1. /\ next.open = "value" /\ old # <<>> /\ Len(new) = n /\ r = z
        /\ \A k \in 1 .. (n - 1) : new[k] = old[k]
        /\ new[n] = Append(old[n], t[m])
    BY <1>3, <1>6 DEF PasswordMove, Grown, NextPlaces, Grows, Begins
  <2>2. n >= 1 /\ z[n] + Len(old[n]) = m /\ n \in 1 .. n
    <3>1. n >= 1
      BY <1>2, <1>3, <2>1
    <3>2. z[n] + Len(old[n]) = (m - 1) + 1
      BY <1>3, <1>6 DEF PasswordsTo, Grows
    <3>. QED
      BY <1>1, <3>1, <3>2
  <2>3. PICK l \in Nat : l = Len(old[n]) /\ z[n] \in Nat /\ z[n] >= 1
    BY <1>4, <2>2
  <2>4. /\ Len(new[n]) = l + 1 /\ new[n][l + 1] = t[m]
        /\ \A j \in 1 .. l : new[n][j] = old[n][j]
    <3>1. old[n] \in Seq(A)
      BY <1>4, <2>2, GluedIs
    <3>. QED
      BY <1>1, <2>1, <2>3, <3>1, AppendProperties
  <2>5. ValueAt(t, new[n], z[n], m)
    <3>1. \A j \in 1 .. (l + 1) : t[z[n] + j - 1] = new[n][j]
      <4>1. SUFFICES ASSUME NEW j \in 1 .. (l + 1) PROVE t[z[n] + j - 1] = new[n][j]
        OBVIOUS
      <4>2. CASE j = l + 1
        BY <2>2, <2>3, <2>4, <4>2
      <4>3. CASE j \in 1 .. l
        <5>1. t[z[n] + j - 1] = old[n][j]
          BY <1>4, <2>2, <2>3, <4>3 DEF ValueAt
        <5>. QED
          BY <2>4, <4>3, <5>1
      <4>4. j = l + 1 \/ j \in 1 .. l
        BY <2>3
      <4>. QED
        BY <4>2, <4>3, <4>4
    <3>2. z[n] \in 1 .. m /\ z[n] + (l + 1) <= m + 1
      BY <1>1, <1>4, <2>2, <2>3
    <3>3. Announced(t, z[n])
      BY <1>4, <2>2 DEF ValueAt
    <3>. QED
      BY <2>4, <3>1, <3>2, <3>3 DEF ValueAt
  <2>6. ASSUME NEW k \in 1 .. n PROVE ValueAt(t, new[k], z[k], m)
    <3>1. k = n \/ k \in 1 .. (n - 1)
      OBVIOUS
    <3>. QED
      BY <1>4, <2>1, <2>5, <3>1
  <2>7. ASSUME NEW k \in 1 .. n, NEW j \in 1 .. n, k < j PROVE z[k] + Len(new[k]) <= z[j]
    <3>1. k \in 1 .. (n - 1)
      BY <2>7
    <3>. QED
      BY <1>5, <2>1, <2>7, <3>1
  <2>8. z[n] + Len(new[n]) = m + 1
    <3>1. PICK a \in Nat : a = z[n]
      BY <2>3
    <3>2. a + l = m
      BY <2>2, <2>3, <3>1
    <3>. QED
      BY <1>1, <2>4, <3>1, <3>2
  <2>. QED
    BY <2>1, <2>6, <2>7, <2>8 DEF PasswordsTo
<1>7. CASE Begins(state, t[m])
  <2>1. /\ next.open = "value" /\ Len(new) = n + 1
        /\ \A k \in 1 .. n : new[k] = old[k]
        /\ new[n + 1] = <<t[m]>>
    BY <1>3, <1>7 DEF PasswordMove, Begun
  <2>2. r = [k \in 1 .. (n + 1) |-> IF k = n + 1 THEN m ELSE z[k]]
    BY <1>3, <1>7 DEF NextPlaces
  <2>3. r[n + 1] = m /\ \A k \in 1 .. n : r[k] = z[k]
    BY <2>2
  <2>. HIDE DEF r
  <2>4. Len(new[n + 1]) = 1 /\ new[n + 1][1] = t[m]
    BY <2>1
  <2>5. Announced(t, m)
    <3>1. Announced(t, (m - 1) + 1)
      BY <1>7 DEF PasswordsTo, Begins
    <3>2. (m - 1) + 1 = m
      BY <1>1
    <3>. QED
      BY <3>1, <3>2
  <2>6. ValueAt(t, new[n + 1], m, m)
    <3>1. ASSUME NEW j \in 1 .. 1 PROVE t[m + j - 1] = new[n + 1][j]
      <4>1. j = 1 /\ m + j - 1 = m
        BY <1>1
      <4>. QED
        BY <2>4, <4>1
    <3>2. m \in 1 .. m /\ m + 1 <= m + 1
      BY <1>1
    <3>. QED
      BY <2>4, <2>5, <3>1, <3>2 DEF ValueAt
  <2>7. ASSUME NEW k \in 1 .. (n + 1) PROVE ValueAt(t, new[k], r[k], m)
    <3>1. k = n + 1 \/ k \in 1 .. n
      OBVIOUS
    <3>. QED
      BY <1>4, <2>1, <2>3, <2>6, <3>1
  <2>8. ASSUME NEW k \in 1 .. (n + 1), NEW j \in 1 .. (n + 1), k < j
        PROVE  r[k] + Len(new[k]) <= r[j]
    <3>1. k \in 1 .. n
      BY <2>8
    <3>2. CASE j = n + 1
      BY <1>4, <2>1, <2>3, <3>1, <3>2
    <3>3. CASE j \in 1 .. n
      BY <1>5, <2>1, <2>3, <2>8, <3>1, <3>3
    <3>. QED
      BY <3>2, <3>3
  <2>9. r[n + 1] + Len(new[n + 1]) = m + 1
    BY <2>3, <2>4
  <2>. QED
    BY <2>1, <2>7, <2>8, <2>9 DEF PasswordsTo, r
<1>8. CASE Waits(state, t[m]) \/ Ends(state, t[m])
  <2>1. new = old /\ r = z /\ next.open # "value"
    BY <1>2, <1>8 DEF PasswordMove, NextPlaces, Waits, Ends, Begins
  <2>2. next.open = "keyword" => Announced(t, m + 1)
    <3>1. CASE Waits(state, t[m])
      <4>1. Announced(t, (m - 1) + 1) /\ t[m] = Space
        BY <3>1 DEF PasswordsTo, Waits
      <4>2. PICK y \in 1 .. (m - 1) :
               t[y].kind = "keyword" /\ \A p \in (y + 1) .. (m - 1) : t[p] = Space
        <5>1. (m - 1) + 1 = m
          BY <1>1
        <5>. QED
          BY <4>1, <5>1 DEF Announced
      <4>3. y \in 1 .. ((m + 1) - 1) /\ \A p \in (y + 1) .. ((m + 1) - 1) : t[p] = Space
        BY <1>1, <4>1, <4>2
      <4>. QED
        BY <4>2, <4>3 DEF Announced
    <3>2. CASE Ends(state, t[m])
      <4>1. next.open = "keyword" => t[m].kind = "keyword"
        BY <3>2 DEF PasswordMove
      <4>2. m \in 1 .. ((m + 1) - 1) /\ \A p \in (m + 1) .. ((m + 1) - 1) : t[p] = Space
        BY <1>1
      <4>. QED
        BY <4>1, <4>2 DEF Announced
    <3>. QED
      BY <1>8, <3>1, <3>2
  <2>3. \A k \in 1 .. n : ValueAt(t, new[k], z[k], m)
    BY <1>4, <2>1
  <2>. QED
    BY <1>3, <1>5, <2>1, <2>2, <2>3 DEF PasswordsTo
<1>9. Grows(state, t[m]) \/ Begins(state, t[m]) \/ Waits(state, t[m]) \/ Ends(state, t[m])
  BY <1>2 DEF Grows, Begins, Waits, Ends
<1>. QED
  BY <1>6, <1>7, <1>8, <1>9

\* Two texts with the same words to announce a password, and the same spaces.
SameShape(t, u) ==
    /\ Len(u) = Len(t)
    /\ \A p \in 1 .. Len(t) :
          /\ t[p] = Space <=> u[p] = Space
          /\ t[p].kind = "keyword" <=> u[p].kind = "keyword"

Alike(a, b) ==
    /\ a.open = b.open /\ Len(a.values) = Len(b.values)
    /\ \A k \in 1 .. Len(a.values) : Len(a.values[k]) = Len(b.values[k])

LEMMA AlikeNext ==
    ASSUME NEW A, NEW a \in PasswordStates(A), NEW b \in PasswordStates(A), Alike(a, b),
           NEW x \in A, NEW y \in A, x = Space <=> y = Space,
           x.kind = "keyword" <=> y.kind = "keyword",
           NEW c, NEW d, PasswordMove(a, x, c), PasswordMove(b, y, d), NEW z, NEW m
    PROVE  Alike(c, d) /\ NextPlaces(a, x, z, m) = NextPlaces(b, y, z, m)
<1>1. /\ a.values \in Seq(Glued(A)) /\ b.values \in Seq(Glued(A))
      /\ a.open \in {"no", "keyword", "value"}
  BY DEF PasswordStates
<1>2. PICK n \in Nat : n = Len(a.values) /\ n = Len(b.values)
  BY <1>1 DEF Alike
<1>3. a.open = b.open /\ \A k \in 1 .. n : Len(a.values[k]) = Len(b.values[k])
  BY <1>2 DEF Alike
<1>4. NextPlaces(a, x, z, m) = NextPlaces(b, y, z, m)
  BY <1>2, <1>3 DEF NextPlaces, Begins
<1>5. CASE Grows(a, x)
  <2>1. Grows(b, y)
    BY <1>3, <1>5 DEF Grows
  <2>2. /\ c.open = d.open /\ a.values # <<>> /\ Len(c.values) = n /\ Len(d.values) = n
        /\ \A k \in 1 .. (n - 1) : c.values[k] = a.values[k] /\ d.values[k] = b.values[k]
        /\ c.values[n] = Append(a.values[n], x) /\ d.values[n] = Append(b.values[n], y)
    BY <1>2, <1>5, <2>1 DEF PasswordMove, Grown
  <2>3. n \in 1 .. n
    BY <1>1, <1>2, <2>2
  <2>4. a.values[n] \in Seq(A) /\ b.values[n] \in Seq(A)
    <3>1. n \in 1 .. Len(a.values) /\ n \in 1 .. Len(b.values)
      BY <1>2, <2>3
    <3>2. a.values[n] \in Glued(A) /\ b.values[n] \in Glued(A)
      BY <1>1, <3>1, ElementOfSeq
    <3>. QED
      BY <3>2, GluedIs
  <2>5. Len(c.values[n]) = Len(a.values[n]) + 1 /\ Len(d.values[n]) = Len(b.values[n]) + 1
    BY <2>2, <2>4, AppendProperties
  <2>6. Len(c.values[n]) = Len(d.values[n])
    BY <1>3, <2>3, <2>5
  <2>7. ASSUME NEW k \in 1 .. n PROVE Len(c.values[k]) = Len(d.values[k])
    <3>1. k = n \/ k \in 1 .. (n - 1)
      OBVIOUS
    <3>. QED
      BY <1>3, <2>2, <2>6, <3>1
  <2>. QED
    BY <1>4, <2>2, <2>7 DEF Alike
<1>6. CASE Begins(a, x)
  <2>1. Begins(b, y)
    BY <1>3, <1>6 DEF Begins
  <2>2. /\ c.open = d.open /\ Len(c.values) = n + 1 /\ Len(d.values) = n + 1
        /\ \A k \in 1 .. n : c.values[k] = a.values[k] /\ d.values[k] = b.values[k]
        /\ c.values[n + 1] = <<x>> /\ d.values[n + 1] = <<y>>
    BY <1>2, <1>6, <2>1 DEF PasswordMove, Begun
  <2>3. ASSUME NEW k \in 1 .. (n + 1) PROVE Len(c.values[k]) = Len(d.values[k])
    <3>1. k = n + 1 \/ k \in 1 .. n
      OBVIOUS
    <3>2. Len(<<x>>) = Len(<<y>>)
      OBVIOUS
    <3>. QED
      BY <1>3, <2>2, <3>1, <3>2
  <2>. QED
    BY <1>4, <2>2, <2>3 DEF Alike
<1>7. CASE Waits(a, x)
  <2>1. Waits(b, y)
    BY <1>3, <1>7 DEF Waits
  <2>. QED
    BY <1>4, <1>7, <2>1 DEF PasswordMove
<1>8. CASE Ends(a, x)
  <2>1. Ends(b, y)
    BY <1>3, <1>8 DEF Ends
  <2>. QED
    BY <1>2, <1>3, <1>4, <1>8, <2>1 DEF PasswordMove, Alike
<1>9. Grows(a, x) \/ Begins(a, x) \/ Waits(a, x) \/ Ends(a, x)
  BY <1>1 DEF Grows, Begins, Waits, Ends
<1>. QED
  BY <1>5, <1>6, <1>7, <1>8, <1>9

\* The values stand in t at z, one behind the other.
PasswordsAt(t, values, z) ==
    /\ \A k \in 1 .. Len(values) : ValueAt(t, values[k], z[k], Len(t))
    /\ \A k, l \in 1 .. Len(values) : k < l => z[k] + Len(values[k]) <= z[l]

\* Those of u stand where those of t do.
LEMMA PasswordsPlaces ==
    ASSUME NEW A, NEW t \in Seq(A), NEW u \in Seq(A), SameShape(t, u)
    PROVE  /\ Len(Passwords(t)) = Len(Passwords(u))
           /\ \A k \in 1 .. Len(Passwords(t)) : Len(Passwords(t)[k]) = Len(Passwords(u)[k])
           /\ \E z : PasswordsAt(t, Passwords(t), z) /\ PasswordsAt(u, Passwords(u), z)
<1>1. PICK n \in Nat : n = Len(t) /\ n = Len(u)
  BY DEF SameShape
<1>2. PICK f \in [0 .. n -> PasswordStates(A)] : PasswordsThrough(t, f)
  BY <1>1, PasswordsSteps
<1>3. PICK g \in [0 .. n -> PasswordStates(A)] : PasswordsThrough(u, g)
  BY <1>1, PasswordsSteps
<1>. DEFINE Pair(m) == \E z : /\ PasswordsTo(t, f[m], z, m) /\ PasswordsTo(u, g[m], z, m)
                              /\ Alike(f[m], g[m])
            G == {m \in 0 .. n : Pair(m)}
<1>4. 0 \in G
  <2>. DEFINE base == [open |-> "no", values |-> <<>>]
  <2>1. f[0] = base /\ g[0] = base
    BY <1>2, <1>3 DEF PasswordsThrough
  <2>2. Len(base.values) = 0 /\ base.open = "no"
    OBVIOUS
  <2>. HIDE DEF base
  <2>3. PasswordsTo(t, base, <<>>, 0) /\ PasswordsTo(u, base, <<>>, 0) /\ Alike(base, base)
    BY <2>2 DEF PasswordsTo, Alike
  <2>. QED
    BY <2>1, <2>3
<1>5. ASSUME NEW m \in 1 .. n, m - 1 \in G PROVE m \in G
  <2>1. m - 1 \in 0 .. n /\ m \in 0 .. n
    OBVIOUS
  <2>2. PICK z : /\ PasswordsTo(t, f[m - 1], z, m - 1) /\ PasswordsTo(u, g[m - 1], z, m - 1)
                 /\ Alike(f[m - 1], g[m - 1])
    BY <1>5
  <2>. HIDE DEF G, Pair
  <2>3. f[m - 1] \in PasswordStates(A) /\ g[m - 1] \in PasswordStates(A)
    BY <2>1
  <2>4. t[m] \in A /\ u[m] \in A /\ m \in 1 .. Len(t) /\ m \in 1 .. Len(u)
    BY <1>1
  <2>5. f[m] = PasswordStep(f[m - 1], t[m]) /\ g[m] = PasswordStep(g[m - 1], u[m])
    BY <1>2, <1>3, <2>4 DEF PasswordsThrough
  <2>6. PasswordMove(f[m - 1], t[m], f[m]) /\ PasswordMove(g[m - 1], u[m], g[m])
    BY <2>3, <2>4, <2>5, PasswordMoves
  <2>7. PasswordsTo(t, f[m], NextPlaces(f[m - 1], t[m], z, m), m)
    BY <2>2, <2>3, <2>4, <2>6, PasswordsNext
  <2>8. PasswordsTo(u, g[m], NextPlaces(g[m - 1], u[m], z, m), m)
    BY <2>2, <2>3, <2>4, <2>6, PasswordsNext
  <2>9. (t[m] = Space <=> u[m] = Space) /\ (t[m].kind = "keyword" <=> u[m].kind = "keyword")
    BY <2>4 DEF SameShape
  <2>10. /\ Alike(f[m], g[m])
         /\ NextPlaces(f[m - 1], t[m], z, m) = NextPlaces(g[m - 1], u[m], z, m)
    BY <2>2, <2>3, <2>4, <2>6, <2>9, AlikeNext
  <2>. QED
    BY <2>1, <2>7, <2>8, <2>10 DEF G, Pair
<1>. HIDE DEF G
<1>6. n \in G
  BY <1>4, <1>5, Climb
<1>7. PICK z : /\ PasswordsTo(t, f[n], z, n) /\ PasswordsTo(u, g[n], z, n) /\ Alike(f[n], g[n])
  BY <1>6 DEF G
<1>8. f[n].values = Passwords(t) /\ g[n].values = Passwords(u)
  BY <1>1, <1>2, <1>3 DEF PasswordsThrough, Passwords
<1>9. PasswordsAt(t, Passwords(t), z) /\ PasswordsAt(u, Passwords(u), z)
  BY <1>1, <1>7, <1>8 DEF PasswordsTo, PasswordsAt
<1>. QED
  BY <1>7, <1>8, <1>9 DEF Alike

-----------------------------------------------------------------------------
(* Passwords and names that stand once in the prompt *)

LEMMA Once ==
    ASSUME NEW A, NEW t \in Seq(A), NEW atom, OccursOnce(atom, t)
    PROVE  \E x \in 1 .. Len(t) : t[x] = atom /\ \A p \in 1 .. Len(t) : t[p] = atom => p = x
<1>. DEFINE S == {i \in DOMAIN t : t[i] = atom}
<1>1. DOMAIN t = 1 .. Len(t) /\ Len(t) \in Nat
  OBVIOUS
<1>2. IsFiniteSet(S)
  <2>1. IsFiniteSet(1 .. Len(t))
    BY <1>1, FS_Interval
  <2>2. S \subseteq 1 .. Len(t)
    BY <1>1
  <2>. HIDE DEF S
  <2>. QED
    BY <2>1, <2>2, FS_Subset
<1>3. Cardinality(S) = 1
  BY DEF OccursOnce
<1>4. \E x : S = {x}
  <2>. HIDE DEF S
  <2>. QED
    BY <1>2, <1>3, FS_Singleton
<1>. QED
  BY <1>1, <1>4

LEMMA MaskedShape ==
    ASSUME NEW A, NEW t \in Seq(A), NEW u, Masked(t, u, MaskedKinds)
    PROVE  SameShape(t, u)
<1>1. {"space", "keyword"} \cap (MaskedKinds \cup Placeholders) = {}
  BY DEF MaskedKinds, Placeholders
<1>2. ASSUME NEW p \in 1 .. Len(t)
      PROVE  /\ t[p] = Space <=> u[p] = Space
             /\ t[p].kind = "keyword" <=> u[p].kind = "keyword"
  <2>1. CASE t[p].kind \in MaskedKinds
    <3>1. u[p] \in PlaceholderAtoms
      BY <2>1 DEF Masked
    <3>2. u[p].kind \in Placeholders
      BY <3>1 DEF PlaceholderAtoms
    <3>. QED
      BY <1>1, <2>1, <3>2 DEF Space, Atom
  <2>2. CASE t[p].kind \notin MaskedKinds
    BY <2>2 DEF Masked
  <2>. QED
    BY <2>1, <2>2
<1>. QED
  BY <1>2 DEF SameShape, Masked

LEMMA PasswordGone ==
    ASSUME NEW A, PlaceholderAtoms \subseteq A, NEW text \in Seq(A), NEW atom,
           OccursOnce(atom, text), on \cap {"EntropyScanner", "ApiKeyProtection"} # {},
           atom.kind = "value", NEW value \in AtomsOf(Passwords(text)),
           atom \in AtomsOf(value), ~Enclosed(value)
    PROVE  Context(text) \in Scans(A \ {atom}, A, text)
<1>. DEFINE B == A \ {atom}
            scan == Finance(text)
            u == scan.text
            values == Passwords(u)
            n == Len(values)
<1>1. Masking(A, A, text, Scan(text), scan, MaskedKinds) /\ Scan(text).text = text
  BY FinanceMasks DEF Scan
<1>2. scan \in Scans(A, A, text) /\ Masked(text, u, MaskedKinds) /\ u \in Seq(A)
  BY <1>1 DEF Masking, Scans
<1>3. SameShape(text, u)
  BY <1>2, MaskedShape
<1>4. Context(text) = RedactPasswords(scan)
  BY DEF Context, When
<1>5. /\ Len(Passwords(text)) = n
      /\ \A k \in 1 .. Len(Passwords(text)) : Len(Passwords(text)[k]) = Len(values[k])
      /\ \E z : PasswordsAt(text, Passwords(text), z) /\ PasswordsAt(u, values, z)
  <2>. HIDE DEF u
  <2>. QED
    BY <1>2, <1>3, PasswordsPlaces
<1>6. values \in Seq(Glued(A)) /\ Passwords(text) \in Seq(Glued(A))
  <2>. HIDE DEF u
  <2>. QED
    BY <1>2, PasswordsGlued
<1>7. PICK z : PasswordsAt(text, Passwords(text), z) /\ PasswordsAt(u, values, z)
  BY <1>5
<1>8. PICK f \in [0 .. n -> Scans(A, A, text)] : PasswordsReplaced(scan, f)
  BY <1>2, RedactPasswordsSteps
<1>9. /\ f[0] = scan /\ f[n] = RedactPasswords(scan)
      /\ \A m \in 1 .. n : f[m] = IF Bracketed(values[m]) THEN f[m - 1]
                                  ELSE Substituted(f[m - 1], values[m], Atom("[PASSWORD_CONTEXT]", m))
  BY <1>8 DEF PasswordsReplaced
<1>10. PICK x \in 1 .. Len(text) : text[x] = atom /\ \A p \in 1 .. Len(text) : text[p] = atom => p = x
  BY Once
<1>11. u[x] = atom /\ Len(u) = Len(text) /\ \A p \in 1 .. Len(u) : u[p] = atom => p = x
  <2>1. atom \notin PlaceholderAtoms /\ atom.kind \notin MaskedKinds
    BY DEF PlaceholderAtoms, Placeholders, MaskedKinds
  <2>. QED
    BY <1>2, <1>10, <2>1 DEF Masked
<1>. HIDE DEF u, values
<1>12. n \in Nat
  BY <1>6
<1>13. PICK k \in 1 .. n : Passwords(text)[k] = value
  <2>1. PICK k \in DOMAIN Passwords(text) : Passwords(text)[k] = value
    BY DEF AtomsOf, ToSet
  <2>2. DOMAIN Passwords(text) = 1 .. n
    BY <1>5, <1>6
  <2>. QED
    BY <2>1, <2>2
<1>14. \A m \in 1 .. n : values[m] \in Glued(A)
  BY <1>6, ElementOfSeq
<1>15. \A m \in 1 .. n : ValueAt(u, values[m], z[m], Len(u))
  BY <1>7 DEF PasswordsAt
<1>16. PICK l \in Nat : l = Len(value) /\ l = Len(values[k]) /\ l >= 1
  <2>1. Len(value) = Len(values[k])
    BY <1>5, <1>13
  <2>. QED
    BY <1>13, <1>14, <2>1, GluedIs
<1>17. ValueAt(text, value, z[k], Len(text))
  BY <1>5, <1>7, <1>13 DEF PasswordsAt
<1>18. x \in z[k] .. (z[k] + l - 1) /\ z[k] \in Nat /\ z[k] >= 1
  <2>1. value \in Glued(A)
    BY <1>5, <1>6, <1>13, ElementOfSeq
  <2>2. PICK j \in 1 .. l : value[j] = atom
    <3>1. value \in Seq(A)
      BY <2>1, GluedIs
    <3>2. DOMAIN value = 1 .. l
      BY <1>16, <3>1, LenProperties
    <3>. QED
      BY <3>2 DEF AtomsOf, ToSet
  <2>3. z[k] \in 1 .. Len(text) /\ z[k] + l <= Len(text) + 1 /\ text[z[k] + j - 1] = atom
    BY <1>16, <1>17, <2>2 DEF ValueAt
  <2>4. z[k] \in Nat /\ z[k] >= 1
    BY <2>3
  <2>5. z[k] + j - 1 \in 1 .. Len(text)
    BY <1>10, <2>2, <2>3, <2>4
  <2>6. z[k] + j - 1 = x
    BY <1>10, <2>3, <2>5
  <2>. QED
    BY <2>2, <2>4, <2>6
<1>19. ASSUME NEW m \in 1 .. k PROVE StandsAt(values[m], u, z[m])
  <2>1. m \in 1 .. n
    OBVIOUS
  <2>2. ValueAt(u, values[m], z[m], Len(u)) /\ values[m] \in Glued(A)
    BY <1>14, <1>15, <2>1
  <2>3. PICK c \in Nat, w \in Nat : c = Len(values[m]) /\ w = Len(u)
    BY <1>2, <2>2, GluedIs
  <2>4. z[m] \in 1 .. w /\ z[m] + c <= w + 1
    BY <2>2, <2>3 DEF ValueAt
  <2>5. z[m] \in 1 .. (w + 1 - c)
    <3>1. \A y \in 1 .. w : y + c <= w + 1 => y \in 1 .. (w + 1 - c)
      BY <2>3
    <3>. QED
      BY <2>4, <3>1
  <2>. QED
    BY <2>2, <2>3, <2>5 DEF StandsAt, ValueAt
<1>20. ASSUME NEW i \in 1 .. k, NEW j \in 1 .. k, i < j PROVE z[i] + Len(values[i]) <= z[j]
  <2>1. i \in 1 .. n /\ j \in 1 .. n
    OBVIOUS
  <2>. QED
    BY <1>7, <1>20, <2>1 DEF PasswordsAt
<1>21. RowAt(u, values, z, k, B)
  <2>1. ASSUME NEW p \in 1 .. Len(u), u[p] \notin B
        PROVE  p \in z[k] .. (z[k] + Len(values[k]) - 1)
    <3>1. u[p] = atom
      BY <1>2, <2>1
    <3>. QED
      BY <1>11, <1>16, <1>18, <3>1
  <2>2. k \in 1 .. k
    BY <1>12
  <2>. QED
    BY <1>19, <1>20, <2>1, <2>2 DEF RowAt
<1>22. ~Bracketed(values[k])
  <2>1. PICK e \in {1, l} : value[e].kind \notin SearchedKinds \cup Placeholders
    <3>1. Head(value) = value[1] /\ Last(value) = value[l]
      BY <1>16 DEF Last
    <3>. QED
      BY <3>1 DEF Enclosed
  <2>2. e \in 1 .. l
    BY <1>16
  <2>3. value[e] = text[z[k] + e - 1] /\ values[k][e] = u[z[k] + e - 1]
    BY <1>15, <1>16, <1>17, <2>2 DEF ValueAt
  <2>4. z[k] + e - 1 \in 1 .. Len(text)
    <3>1. z[k] + l <= Len(text) + 1
      BY <1>16, <1>17 DEF ValueAt
    <3>. QED
      BY <1>10, <1>18, <2>2, <3>1
  <2>5. MaskedKinds \subseteq SearchedKinds
    BY DEF MaskedKinds, SearchedKinds
  <2>6. values[k][e] = value[e]
    BY <1>2, <2>1, <2>3, <2>4, <2>5 DEF Masked
  <2>7. Head(values[k]) = values[k][1] /\ Last(values[k]) = values[k][l]
    BY <1>16 DEF Last
  <2>. QED
    BY <2>1, <2>6, <2>7 DEF Bracketed, IsPlaceholder
<1>23. ASSUME NEW m \in 1 .. k, Bracketed(values[m]), NEW j \in 1 .. Len(values[m])
       PROVE  values[m][j] \in B
  <2>1. m \in 1 .. (k - 1) /\ m \in 1 .. n
    BY <1>22, <1>23
  <2>2. values[m] \in Glued(A) /\ ValueAt(u, values[m], z[m], Len(u))
    BY <1>14, <1>15, <2>1
  <2>3. PICK c \in Nat, w \in Nat : c = Len(values[m]) /\ w = Len(u)
    BY <1>2, <2>2, GluedIs
  <2>4. z[m] \in 1 .. w /\ z[m] + c <= w + 1 /\ u[z[m] + j - 1] = values[m][j]
    BY <2>2, <2>3 DEF ValueAt
  <2>5. z[m] + c <= z[k]
    BY <1>20, <2>1, <2>3
  <2>6. z[m] + j - 1 \in 1 .. w /\ z[m] + j - 1 < z[k]
    <3>1. \A a \in 1 .. w, b \in Nat, i \in 1 .. c :
            a + c <= w + 1 /\ a + c <= b => a + i - 1 \in 1 .. w /\ a + i - 1 < b
      BY <2>3
    <3>2. j \in 1 .. c
      BY <1>23, <2>3
    <3>. QED
      BY <1>18, <2>4, <2>5, <3>1, <3>2
  <2>7. z[m] + j - 1 # x
    BY <1>18, <2>6
  <2>8. values[m][j] # atom
    BY <1>11, <2>3, <2>4, <2>6, <2>7
  <2>9. values[m][j] \in A
    <3>1. values[m] \in Seq(A)
      BY <2>2, GluedIs
    <3>. QED
      BY <3>1, ElementOfSeq
  <2>. QED
    BY <2>8, <2>9
<1>24. Clearing(f, values, k, B)
  <2>1. ASSUME NEW m \in 1 .. k
        PROVE  \/ f[m] = f[m - 1] /\ \A j \in 1 .. Len(values[m]) : values[m][j] \in B
               \/ \E mask \in PlaceholderAtoms : f[m] = Substituted(f[m - 1], values[m], mask)
    <3>1. m \in 1 .. n /\ Atom("[PASSWORD_CONTEXT]", m) \in PlaceholderAtoms
      BY PlaceholderIs DEF Placeholders
    <3>2. CASE Bracketed(values[m])
      BY <1>9, <1>23, <3>1, <3>2
    <3>3. CASE ~Bracketed(values[m])
      BY <1>9, <3>1, <3>3
    <3>. QED
      BY <3>2, <3>3
  <2>. HIDE DEF B
  <2>. QED
    BY <2>1 DEF Clearing
<1>25. PlaceholderAtoms \subseteq B /\ B \subseteq A
  BY DEF PlaceholderAtoms, Placeholders
<1>26. f[0].text = u /\ k \in 0 .. n
  BY <1>9, <1>12 DEF u
<1>. HIDE DEF B
<1>27. f[k].text \in Seq(B)
  BY <1>2, <1>6, <1>8, <1>21, <1>24, <1>25, <1>26, RowClears
<1>. DEFINE G == {m \in 0 .. n : m >= k => f[m] \in Scans(B, A, text)}
<1>28. f[k] \in Scans(B, A, text)
  <2>1. f[k] \in Scans(A, A, text)
    BY <1>26
  <2>. QED
    BY <1>27, <2>1 DEF Scans
<1>29. 0 \in G
  BY <1>12
<1>30. ASSUME NEW m \in 1 .. n, m - 1 \in G PROVE m \in G
  <2>1. CASE m - 1 < k
    BY <1>12, <1>28, <2>1
  <2>2. CASE m - 1 >= k
    <3>1. f[m - 1] \in Scans(B, A, text)
      BY <1>30, <2>2
    <3>2. values[m] \in Seq(A) /\ Atom("[PASSWORD_CONTEXT]", m) \in PlaceholderAtoms
      BY <1>14, GluedIs, PlaceholderIs DEF Placeholders
    <3>3. Substituted(f[m - 1], values[m], Atom("[PASSWORD_CONTEXT]", m)) \in Scans(B, A, text)
      BY <1>25, <3>1, <3>2, SubstitutedIs
    <3>4. f[m] \in Scans(B, A, text)
      BY <1>9, <3>1, <3>3
    <3>. QED
      BY <1>12, <3>4
  <2>. QED
    BY <1>12, <2>1, <2>2
<1>. HIDE DEF G
<1>31. n \in G
  BY <1>12, <1>29, <1>30, Climb
<1>32. f[n] \in Scans(B, A, text)
  BY <1>12, <1>31 DEF G
<1>. QED
  BY <1>4, <1>9, <1>32 DEF B

\* A name that a title announces, and that stands once.
TitledAt(t, x, atom) ==
    x \in 3 .. Len(t) /\ t[x] = atom /\ t[x - 1] = Space /\ t[x - 2].kind = "title"

Lone(t, atom) == \A x, y \in 1 .. Len(t) : t[x] = atom /\ t[y] = atom => x = y

\* A value that is neither the name nor a title.
Spares(value, atom) ==
    \A j \in 1 .. Len(value) : value[j] # atom /\ value[j].kind # "title"

LEMMA TitledNamesAre ==
    ASSUME NEW A, NEW t \in Seq(A), NEW atom
    PROVE  /\ TitledNames(t) \in Seq(Seq(A))
           /\ <<atom>> \in AtomsOf(TitledNames(t)) => atom.kind = "name" /\ \E x : TitledAt(t, x, atom)
           /\ \A x : atom.kind = "name" /\ TitledAt(t, x, atom) => <<atom>> \in AtomsOf(TitledNames(t))
<1>. DEFINE places == [i \in DOMAIN t |-> i]
            S == {i \in DOMAIN t : /\ t[i].kind = "name" /\ i > 2
                                   /\ t[i - 1] = Space /\ t[i - 2].kind = "title"}
            found == Kept(places, S)
            names == TitledNames(t)
<1>1. places \in Seq(1 .. Len(t)) /\ Len(places) = Len(t) /\ Len(t) \in Nat /\ DOMAIN t = 1 .. Len(t)
  OBVIOUS
<1>2. \A i \in 1 .. Len(t) : places[i] = i
  OBVIOUS
<1>. HIDE DEF places
<1>3. PICK q : KeptAt(places, S, Len(t), found, q)
  BY <1>1, KeptPlaces
<1>4. found \in Seq(1 .. Len(t))
  BY <1>1, KeptIn
<1>5. names = [i \in DOMAIN found |-> <<t[found[i]]>>]
  BY DEF TitledNames, places
<1>. HIDE DEF names, found
<1>6. PICK n \in Nat : n = Len(found) /\ DOMAIN found = 1 .. n
  BY <1>4
<1>7. \A i \in 1 .. n : found[i] \in 1 .. Len(t) /\ found[i] \in S /\ names[i] = <<t[found[i]]>>
  <2>1. ASSUME NEW i \in 1 .. n PROVE found[i] \in S
    BY <1>1, <1>2, <1>3, <1>6 DEF KeptAt
  <2>. QED
    BY <1>1, <1>5, <1>6, <2>1
<1>8. names \in Seq(Seq(A)) /\ DOMAIN names = 1 .. n
  <2>1. \A i \in 1 .. n : <<t[found[i]]>> \in Seq(A)
    BY <1>7
  <2>. QED
    BY <1>5, <1>6, <2>1
<1>9. ASSUME <<atom>> \in AtomsOf(names)
      PROVE  atom.kind = "name" /\ \E x : TitledAt(t, x, atom)
  <2>1. PICK i \in 1 .. n : names[i] = <<atom>>
    BY <1>8, <1>9 DEF AtomsOf, ToSet
  <2>2. found[i] \in S /\ t[found[i]] = atom /\ found[i] \in 1 .. Len(t)
    BY <1>7, <2>1
  <2>3. found[i] \in 3 .. Len(t)
    BY <1>1, <2>2
  <2>. QED
    BY <2>2, <2>3 DEF TitledAt
<1>10. ASSUME NEW x, atom.kind = "name", TitledAt(t, x, atom)
       PROVE  <<atom>> \in AtomsOf(names)
  <2>1. x \in 1 .. Len(t) /\ x > 2
    BY <1>1, <1>10 DEF TitledAt
  <2>2. x \in S
    BY <1>1, <1>10, <2>1 DEF TitledAt
  <2>. HIDE DEF S
  <2>3. PICK j \in 1 .. n : q[j] = x
    BY <1>2, <1>3, <1>6, <2>1, <2>2 DEF KeptAt
  <2>4. found[j] = x
    BY <1>2, <1>3, <1>6, <2>1, <2>3 DEF KeptAt
  <2>5. names[j] = <<atom>>
    BY <1>7, <1>10, <2>4 DEF TitledAt
  <2>. QED
    BY <1>8, <2>5 DEF AtomsOf, ToSet
<1>. QED
  BY <1>8, <1>9, <1>10 DEF names

\* Replacing other words leaves the title and the name together.
LEMMA SplicedTitled ==
    ASSUME NEW A, NEW t \in Seq(A), NEW V, NEW value \in Glued(V), NEW mask \in PlaceholderAtoms,
           NEW new, NEW i, Spliced(t, new, i, value, mask), NEW atom, NEW x, TitledAt(t, x, atom),
           Spares(value, atom)
    PROVE  \E y : TitledAt(new, y, atom)
<1>1. PICK l \in Nat, w \in Nat : l = Len(value) /\ l >= 1 /\ w = Len(t)
  BY GluedIs
<1>2. i \in 1 .. (w + 1 - l) /\ \A j \in 1 .. l : t[i + j - 1] = value[j]
  BY <1>1 DEF Spliced, StandsAt
<1>3. /\ Len(new) = w + 1 - l
      /\ \A j \in 1 .. (w + 1 - l) :
            new[j] = IF j < i THEN t[j] ELSE IF j = i THEN mask ELSE t[j + l - 1]
  BY <1>1 DEF Spliced, PutAt
<1>4. i \in Nat /\ i >= 1 /\ i + l <= w + 1
  BY <1>1, <1>2
<1>5. x \in 3 .. w /\ t[x] = atom /\ t[x - 1] = Space /\ t[x - 2].kind = "title"
  BY <1>1 DEF TitledAt
<1>6. ASSUME NEW p \in Nat, p >= i, p < i + l
      PROVE  t[p] # atom /\ t[p] # Space /\ t[p].kind # "title"
  <2>1. p - i + 1 \in 1 .. l /\ i + (p - i + 1) - 1 = p
    BY <1>1, <1>4, <1>6
  <2>2. t[p] = value[p - i + 1]
    BY <1>2, <2>1
  <2>. QED
    BY <1>1, <2>1, <2>2, GluedIs DEF Spares
<1>7. x < i \/ x - 2 >= i + l
  <2>1. x < i \/ x >= i + l
    BY <1>4, <1>5, <1>6
  <2>2. x - 1 < i \/ x - 1 >= i + l
    BY <1>4, <1>5, <1>6
  <2>3. x - 2 < i \/ x - 2 >= i + l
    BY <1>4, <1>5, <1>6
  <2>. QED
    BY <1>1, <1>4, <1>5, <2>1, <2>2, <2>3
<1>8. CASE x < i
  <2>1. /\ x \in 1 .. (w + 1 - l) /\ x - 1 \in 1 .. (w + 1 - l) /\ x - 2 \in 1 .. (w + 1 - l)
        /\ x \in 3 .. (w + 1 - l) /\ x - 1 < i /\ x - 2 < i
    BY <1>1, <1>4, <1>5, <1>8
  <2>2. new[x] = t[x] /\ new[x - 1] = t[x - 1] /\ new[x - 2] = t[x - 2]
    BY <1>3, <1>8, <2>1
  <2>. QED
    BY <1>3, <1>5, <2>1, <2>2 DEF TitledAt
<1>9. CASE x - 2 >= i + l
  <2>. DEFINE y == x + 1 - l
  <2>1. x \in Nat /\ x <= w /\ y \in Nat /\ y = x + 1 - l /\ y - 2 > i
    BY <1>1, <1>4, <1>5, <1>9
  <2>. HIDE DEF y
  <2>2. /\ y \in 1 .. (w + 1 - l) /\ y - 1 \in 1 .. (w + 1 - l) /\ y - 2 \in 1 .. (w + 1 - l)
        /\ y > i /\ y - 1 > i
    BY <1>1, <1>4, <2>1
  <2>3. y + l - 1 = x /\ y - 1 + l - 1 = x - 1 /\ y - 2 + l - 1 = x - 2 /\ y \in 3 .. (w + 1 - l)
    BY <1>1, <1>4, <2>1, <2>2
  <2>4. new[y] = t[x] /\ new[y - 1] = t[x - 1] /\ new[y - 2] = t[x - 2]
    <3>1. \A j \in 1 .. (w + 1 - l) : j > i => new[j] = t[j + l - 1]
      BY <1>3, <1>4
    <3>. QED
      BY <2>1, <2>2, <2>3, <3>1
  <2>. QED
    BY <1>3, <1>5, <2>3, <2>4 DEF TitledAt
<1>. QED
  BY <1>7, <1>8, <1>9

\* Nothing that is replaced comes a second time by it.
LEMMA SplicedLone ==
    ASSUME NEW A, NEW t \in Seq(A), NEW V, NEW value \in Glued(V), NEW mask,
           NEW new, NEW i, Spliced(t, new, i, value, mask), NEW atom, mask # atom, Lone(t, atom)
    PROVE  /\ Lone(new, atom)
           /\ value = <<atom>> => \A y \in 1 .. Len(new) : new[y] # atom
<1>1. PICK l \in Nat, w \in Nat : l = Len(value) /\ l >= 1 /\ w = Len(t)
  BY GluedIs
<1>2. i \in 1 .. (w + 1 - l) /\ \A j \in 1 .. l : t[i + j - 1] = value[j]
  BY <1>1 DEF Spliced, StandsAt
<1>3. /\ Len(new) = w + 1 - l
      /\ \A j \in 1 .. (w + 1 - l) :
            new[j] = IF j < i THEN t[j] ELSE IF j = i THEN mask ELSE t[j + l - 1]
  BY <1>1 DEF Spliced, PutAt
<1>4. i \in Nat /\ i >= 1 /\ i + l <= w + 1
  BY <1>1, <1>2
<1>. DEFINE was(j) == IF j < i THEN j ELSE j + l - 1
<1>5. ASSUME NEW j \in 1 .. (w + 1 - l), new[j] = atom
      PROVE  was(j) \in 1 .. w /\ t[was(j)] = atom /\ j # i
  <2>1. j # i
    BY <1>3, <1>4, <1>5
  <2>2. was(j) \in 1 .. w
    BY <1>1, <1>4
  <2>. QED
    BY <1>3, <1>4, <1>5, <2>1, <2>2
<1>6. ASSUME NEW x \in 1 .. Len(new), NEW y \in 1 .. Len(new), new[x] = atom, new[y] = atom
      PROVE  x = y
  <2>1. was(x) = was(y) /\ x # i /\ y # i
    BY <1>1, <1>3, <1>5, <1>6 DEF Lone
  <2>. QED
    BY <1>1, <1>3, <1>4, <2>1
<1>7. ASSUME value = <<atom>>, NEW y \in 1 .. Len(new), new[y] = atom PROVE FALSE
  <2>1. l = 1 /\ value[1] = atom
    BY <1>1, <1>7
  <2>2. t[i] = atom /\ i \in 1 .. w
    <3>1. t[i + 1 - 1] = value[1] /\ i + 1 - 1 = i
      BY <1>2, <1>4, <2>1
    <3>. QED
      BY <1>1, <1>4, <2>1, <3>1
  <2>3. was(y) \in 1 .. w /\ t[was(y)] = atom /\ y # i
    BY <1>3, <1>5, <1>7
  <2>4. was(y) = i
    BY <1>1, <2>2, <2>3 DEF Lone
  <2>. QED
    BY <1>1, <1>3, <1>4, <2>1, <2>3, <2>4
<1>. QED
  BY <1>6, <1>7 DEF Lone

\* One pass that replaces names: a name that is asked for and stands once goes.
LEMMA NamesGone ==
    ASSUME NEW A, PlaceholderAtoms \subseteq A, NEW text, NEW scan \in Scans(A, A, text),
           NEW presidio \in BOOLEAN, NEW atom, atom.kind = "name", Lone(scan.text, atom),
           <<atom>> \in AtomsOf(TitledNames(scan.text))
    PROVE  RedactNames(scan, presidio) \in Scans(A \ {atom}, A, text)
<1>. DEFINE B == A \ {atom}
            t == scan.text
            names == Names(t, presidio)
            n == Len(names)
<1>1. t \in Seq(A)
  BY DEF Scans
<1>2. names \in Seq(Glued(A)) /\ n \in Nat
  BY <1>1, NamesGlued
<1>3. PICK k \in 1 .. n : names[k] = <<atom>>
  <2>. DEFINE found == IF presidio THEN Found(t, "name") ELSE <<>>
              titled == TitledNames(t)
  <2>1. found \in Seq(Seq(A)) /\ titled \in Seq(Seq(A)) /\ names = found \o titled
    BY <1>1, FoundIs, TitledNamesAre DEF Names
  <2>. HIDE DEF found, titled, names
  <2>2. PICK l \in Nat, w \in Nat : l = Len(found) /\ w = Len(titled)
    BY <2>1
  <2>3. PICK j \in 1 .. w : titled[j] = <<atom>>
    <3>1. <<atom>> \in AtomsOf(titled) /\ DOMAIN titled = 1 .. w
      BY <2>1, <2>2 DEF titled
    <3>. QED
      BY <3>1 DEF AtomsOf, ToSet
  <2>4. Len(names) = l + w /\ \A i \in 1 .. w : names[l + i] = titled[i]
    <3>1. /\ Len(found \o titled) = Len(found) + Len(titled)
          /\ \A i \in 1 .. Len(found) + Len(titled) :
                (found \o titled)[i] = IF i <= Len(found) THEN found[i] ELSE titled[i - Len(found)]
      BY <2>1, ConcatProperties
    <3>2. \A i \in 1 .. w : l + i \in 1 .. l + w /\ ~(l + i <= l) /\ l + i - l = i
      BY <2>2
    <3>. QED
      BY <2>1, <2>2, <3>1, <3>2
  <2>5. l + j \in 1 .. Len(names)
    BY <2>2, <2>4
  <2>. QED
    BY <2>3, <2>4, <2>5 DEF names
<1>4. PICK f \in [0 .. n -> Scans(A, A, text)] : NamesReplaced(scan, presidio, f)
  BY RedactNamesSteps
<1>5. /\ f[0] = scan /\ f[n] = RedactNames(scan, presidio)
      /\ \A m \in 1 .. n : f[m] = IF Places(names[m], f[m - 1].text) # {}
                                  THEN Substituted(f[m - 1], names[m], Atom("[PERSON_NAME]", m))
                                  ELSE f[m - 1]
  BY <1>4 DEF NamesReplaced
<1>. HIDE DEF names
<1>6. PlaceholderAtoms \subseteq B /\ B \subseteq A /\ atom \notin PlaceholderAtoms
  BY DEF PlaceholderAtoms, Placeholders
<1>7. \A m \in 1 .. n : names[m] \in Glued(A) /\ Atom("[PERSON_NAME]", m) \in PlaceholderAtoms
  BY <1>2, ElementOfSeq, PlaceholderIs DEF Placeholders
<1>. DEFINE G == {m \in 0 .. n : Lone(f[m].text, atom) /\ (m >= k => f[m].text \in Seq(B))}
<1>8. 0 \in G
  BY <1>2, <1>5
<1>9. ASSUME NEW m \in 1 .. n, m - 1 \in G PROVE m \in G
  <2>. DEFINE old == f[m - 1]
              new == f[m]
  <2>1. m \in 0 .. n /\ m - 1 \in 0 .. n
    BY <1>2
  <2>2. old \in Scans(A, A, text) /\ new \in Scans(A, A, text) /\ old.text \in Seq(A) /\ new.text \in Seq(A)
    BY <2>1 DEF Scans
  <2>3. Lone(old.text, atom) /\ (m - 1 >= k => old.text \in Seq(B))
    BY <1>9
  <2>4. \/ Places(names[m], old.text) = {} /\ new = old
        \/ \E i : Spliced(old.text, new.text, i, names[m], Atom("[PERSON_NAME]", m))
    <3>1. CASE Places(names[m], old.text) = {}
      BY <1>5, <3>1
    <3>2. CASE Places(names[m], old.text) # {}
      <4>1. new = Substituted(old, names[m], Atom("[PERSON_NAME]", m))
        BY <1>5, <3>2
      <4>2. names[m] \in Seq(A) /\ names[m] # <<>>
        BY <1>7, GluedIs
      <4>. HIDE DEF old, new
      <4>. QED
        BY <2>2, <3>2, <4>1, <4>2, SubstitutedAt
    <3>. QED
      BY <3>1, <3>2
  <2>. HIDE DEF old, new
  <2>5. Atom("[PERSON_NAME]", m) # atom
    BY <1>6, <1>7
  <2>6. Lone(new.text, atom)
    BY <1>7, <2>2, <2>3, <2>4, <2>5, SplicedLone
  <2>7. ASSUME names[m] = <<atom>> PROVE \A y \in 1 .. Len(new.text) : new.text[y] # atom
    <3>1. CASE Places(names[m], old.text) = {} /\ new = old
      <4>1. ASSUME NEW y \in 1 .. Len(old.text), old.text[y] = atom PROVE FALSE
        <5>1. Len(names[m]) = 1 /\ names[m][1] = atom /\ names[m] \in Seq(A) /\ names[m] # <<>>
          BY <1>7, <2>7, GluedIs
        <5>2. y \in 1 .. (Len(old.text) + 1 - 1) /\ y + 1 - 1 = y
          BY <2>2
        <5>3. StandsAt(names[m], old.text, y)
          BY <4>1, <5>1, <5>2 DEF StandsAt
        <5>. QED
          BY <2>2, <3>1, <5>1, <5>3, PlacesAre
      <4>. QED
        BY <3>1, <4>1
    <3>2. CASE \E i : Spliced(old.text, new.text, i, names[m], Atom("[PERSON_NAME]", m))
      <4>1. PICK i : Spliced(old.text, new.text, i, names[m], Atom("[PERSON_NAME]", m))
        BY <3>2
      <4>2. names[m] \in Glued(A) /\ old.text \in Seq(A) /\ Lone(old.text, atom)
        BY <1>7, <2>2, <2>3
      <4>3. names[m] = <<atom>> => \A y \in 1 .. Len(new.text) : new.text[y] # atom
        BY <2>5, <4>1, <4>2, SplicedLone
      <4>. QED
        BY <2>7, <4>3
    <3>. QED
      BY <2>4, <3>1, <3>2
  <2>8. ASSUME m >= k PROVE new.text \in Seq(B)
    <3>1. CASE m = k
      <4>1. \A y \in 1 .. Len(new.text) : new.text[y] \in B
        BY <1>3, <2>2, <2>7, <3>1, ElementOfSeq
      <4>. QED
        BY <2>2, <4>1, OverThese
    <3>2. CASE m # k
      <4>1. old.text \in Seq(B)
        <5>1. m - 1 >= k
          BY <1>2, <2>8, <3>2
        <5>. QED
          BY <2>3, <5>1
      <4>2. CASE new = old
        BY <4>1, <4>2
      <4>3. CASE new # old
        <5>1. new = Substituted(old, names[m], Atom("[PERSON_NAME]", m))
          BY <1>5, <4>3 DEF old, new
        <5>2. old \in Scans(B, A, text) /\ names[m] \in Seq(A)
          BY <1>7, <2>2, <4>1, GluedIs DEF Scans
        <5>. HIDE DEF B
        <5>3. new \in Scans(B, A, text)
          BY <1>6, <1>7, <5>1, <5>2, SubstitutedIs
        <5>. QED
          BY <5>3 DEF Scans
      <4>. QED
        BY <4>2, <4>3
    <3>. QED
      BY <3>1, <3>2
  <2>. QED
    BY <2>1, <2>6, <2>8 DEF new
<1>. HIDE DEF G
<1>10. n \in G
  BY <1>2, <1>8, <1>9, Climb
<1>11. f[n].text \in Seq(B)
  BY <1>2, <1>10 DEF G
<1>12. f[n] \in Scans(B, A, text)
  <2>1. f[n] \in Scans(A, A, text)
    BY <1>2
  <2>. QED
    BY <1>11, <2>1 DEF Scans
<1>. QED
  BY <1>5, <1>12

\* The title and the name after it are not taken for a password.
LEMMA NoTitleTaken ==
    ASSUME NEW A, NEW text \in Seq(A), NEW u \in Seq(A), Masked(text, u, MaskedKinds),
           SameShape(text, u), NEW x, NEW atom, TitledAt(u, x, atom), Lone(u, atom),
           atom \notin PlaceholderAtoms,
           \A taken \in PasswordAtoms(text) : taken.kind # "title",
           NEW k \in 1 .. Len(Passwords(u)), NEW j \in 1 .. Len(Passwords(u)[k])
    PROVE  Passwords(u)[k][j] # atom /\ Passwords(u)[k][j].kind # "title"
<1>. DEFINE values == Passwords(u)
            own == Passwords(text)
<1>1. /\ Len(own) = Len(values)
      /\ \A m \in 1 .. Len(own) : Len(own[m]) = Len(values[m])
      /\ \E z : PasswordsAt(text, own, z) /\ PasswordsAt(u, values, z)
  BY PasswordsPlaces
<1>2. values \in Seq(Glued(A)) /\ own \in Seq(Glued(A))
  BY PasswordsGlued
<1>3. PICK z : PasswordsAt(text, own, z) /\ PasswordsAt(u, values, z)
  BY <1>1
<1>4. k \in 1 .. Len(values) /\ j \in 1 .. Len(values[k])
  OBVIOUS
<1>. HIDE DEF values, own
<1>5. values[k] \in Glued(A) /\ own[k] \in Glued(A)
  BY <1>1, <1>2, <1>4, ElementOfSeq
<1>6. PICK l \in Nat, w \in Nat : l = Len(values[k]) /\ l = Len(own[k]) /\ w = Len(u) /\ w = Len(text)
  BY <1>1, <1>4, <1>5, GluedIs DEF Masked
<1>7. ValueAt(u, values[k], z[k], w) /\ ValueAt(text, own[k], z[k], w)
  BY <1>1, <1>3, <1>4, <1>6 DEF PasswordsAt
<1>8. PICK a \in 1 .. w : a = z[k]
  BY <1>7 DEF ValueAt
<1>9. /\ a + l <= w + 1 /\ Announced(u, a)
      /\ \A i \in 1 .. l : u[a + i - 1] = values[k][i] /\ text[a + i - 1] = own[k][i]
  BY <1>6, <1>7, <1>8 DEF ValueAt
<1>10. j \in 1 .. l
  BY <1>4, <1>6
<1>11. a + j - 1 \in 1 .. w
  BY <1>9, <1>10
<1>12. values[k][j].kind # "title"
  <2>. SUFFICES ASSUME values[k][j].kind = "title" PROVE FALSE
    OBVIOUS
  <2>1. u[a + j - 1].kind = "title"
    BY <1>9, <1>10
  <2>2. u[a + j - 1] \notin PlaceholderAtoms
    BY <2>1 DEF PlaceholderAtoms, Placeholders
  <2>3. text[a + j - 1] = u[a + j - 1]
    BY <1>6, <1>11, <2>2 DEF Masked
  <2>4. own[k][j].kind = "title"
    BY <1>9, <1>10, <2>1, <2>3
  <2>5. own[k] \in AtomsOf(own) /\ own[k][j] \in AtomsOf(own[k])
    <3>1. k \in DOMAIN own
      BY <1>1, <1>2, <1>4
    <3>2. own[k] \in Seq(A)
      BY <1>5, GluedIs
    <3>3. j \in DOMAIN own[k]
      BY <1>6, <1>10, <3>2
    <3>. QED
      BY <3>1, <3>3 DEF AtomsOf, ToSet
  <2>6. own[k][j] \in PasswordAtoms(text)
    BY <2>5 DEF PasswordAtoms, own
  <2>. QED
    BY <2>4, <2>6
<1>13. values[k][j] # atom
  <2>. SUFFICES ASSUME values[k][j] = atom PROVE FALSE
    OBVIOUS
  <2>1. x \in 3 .. w /\ u[x] = atom /\ u[x - 1] = Space /\ u[x - 2].kind = "title"
    BY <1>6 DEF TitledAt
  <2>2. a + j - 1 = x
    <3>1. u[a + j - 1] = atom
      BY <1>9, <1>10
    <3>2. x \in 1 .. w
      BY <2>1
    <3>. QED
      BY <1>6, <1>11, <2>1, <3>1, <3>2 DEF Lone
  <2>3. CASE j = 1
    <3>1. a = x
      BY <1>8, <2>2, <2>3
    <3>2. PICK y \in 1 .. (x - 1) : u[y].kind = "keyword" /\ \A p \in (y + 1) .. (x - 1) : u[p] = Space
      BY <1>9, <3>1 DEF Announced
    <3>3. y # x - 1
      BY <2>1, <3>2 DEF Space, Atom
    <3>4. y # x - 2
      BY <2>1, <3>2
    <3>5. x - 2 \in (y + 1) .. (x - 1)
      BY <2>1, <3>2, <3>3, <3>4
    <3>6. u[x - 2] = Space
      BY <3>2, <3>5
    <3>. QED
      BY <2>1, <3>6 DEF Space, Atom
  <2>4. CASE j # 1
    <3>1. j - 1 \in 1 .. l /\ a + (j - 1) - 1 = x - 1
      BY <1>10, <2>2, <2>4
    <3>2. values[k][j - 1] = Space
      BY <1>9, <2>1, <3>1
    <3>. QED
      BY <1>5, <1>6, <3>1, <3>2, GluedIs
  <2>. QED
    BY <2>3, <2>4
<1>. QED
  BY <1>12, <1>13 DEF values

LEMMA NameGone ==
    ASSUME NEW A, PlaceholderAtoms \subseteq A, NEW text \in Seq(A), NEW atom,
           OccursOnce(atom, text), "NerEnabled" \in on,
           <<atom>> \in AtomsOf(TitledNames(text)),
           \A taken \in PasswordAtoms(text) : taken.kind # "title", NEW presidio \in BOOLEAN
    PROVE  Named(text, presidio) \in Scans(A \ {atom}, A, text)
<1>. DEFINE scan == Finance(text)
            u == scan.text
            values == Passwords(u)
            n == Len(values)
            Stands(s) == (\E x : TitledAt(s.text, x, atom)) /\ Lone(s.text, atom)
<1>1. Masking(A, A, text, Scan(text), scan, MaskedKinds) /\ Scan(text).text = text
  BY FinanceMasks DEF Scan
<1>2. scan \in Scans(A, A, text) /\ Masked(text, u, MaskedKinds) /\ u \in Seq(A)
  BY <1>1 DEF Masking, Scans
<1>3. SameShape(text, u)
  BY <1>2, MaskedShape
<1>4. atom.kind = "name" /\ \E x : TitledAt(text, x, atom)
  BY TitledNamesAre
<1>5. atom \notin PlaceholderAtoms
  BY <1>4 DEF PlaceholderAtoms, Placeholders
<1>6. Lone(text, atom)
  BY Once DEF Lone
<1>7. Stands(scan)
  <2>1. Len(u) = Len(text) /\ Len(text) \in Nat
    BY <1>2 DEF Masked
  <2>2. \A p \in 1 .. Len(text) : u[p] = atom => text[p] = atom
    BY <1>2, <1>5 DEF Masked
  <2>3. PICK x \in 3 .. Len(text) : text[x] = atom /\ text[x - 1] = Space /\ text[x - 2].kind = "title"
    BY <1>4 DEF TitledAt
  <2>4. u[x] = atom /\ u[x - 1] = Space /\ u[x - 2].kind = "title"
    <3>1. {"name", "space", "title"} \cap MaskedKinds = {}
      BY DEF MaskedKinds
    <3>2. x \in 1 .. Len(text) /\ x - 1 \in 1 .. Len(text) /\ x - 2 \in 1 .. Len(text)
      BY <2>1, <2>3
    <3>3. u[x] = text[x]
      BY <1>2, <1>4, <2>3, <3>1, <3>2 DEF Masked
    <3>4. u[x - 1] = text[x - 1]
      BY <1>2, <2>3, <3>1, <3>2 DEF Masked, Space, Atom
    <3>5. u[x - 2] = text[x - 2]
      BY <1>2, <2>3, <3>1, <3>2 DEF Masked
    <3>. QED
      BY <2>3, <3>3, <3>4, <3>5
  <2>5. TitledAt(u, x, atom)
    BY <2>1, <2>3, <2>4 DEF TitledAt
  <2>6. Lone(u, atom)
    BY <1>6, <2>1, <2>2 DEF Lone
  <2>. QED
    BY <2>5, <2>6
<1>8. Context(text) \in Scans(A, A, text) /\ Stands(Context(text))
  <2>1. CASE on \cap {"EntropyScanner", "ApiKeyProtection"} = {}
    BY <1>2, <1>7, <2>1 DEF Context, When
  <2>2. CASE on \cap {"EntropyScanner", "ApiKeyProtection"} # {}
    <3>1. Context(text) = RedactPasswords(scan)
      BY <2>2 DEF Context, When
    <3>2. PICK x : TitledAt(u, x, atom)
      BY <1>7
    <3>3. Lone(u, atom)
      BY <1>7
    <3>4. \A k \in 1 .. n : \A j \in 1 .. Len(values[k]) :
             values[k][j] # atom /\ values[k][j].kind # "title"
      <4>. HIDE DEF u
      <4>. QED
        BY <1>2, <1>3, <1>5, <3>2, <3>3, NoTitleTaken
    <3>5. PICK f \in [0 .. n -> Scans(A, A, text)] : PasswordsReplaced(scan, f)
      BY <1>2, RedactPasswordsSteps
    <3>6. /\ f[0] = scan /\ f[n] = RedactPasswords(scan)
          /\ \A m \in 1 .. n : f[m] = IF Bracketed(values[m]) THEN f[m - 1]
                                      ELSE Substituted(f[m - 1], values[m], Atom("[PASSWORD_CONTEXT]", m))
      BY <3>5 DEF PasswordsReplaced
    <3>7. values \in Seq(Glued(A))
      BY <1>2, PasswordsGlued
    <3>. HIDE DEF values
    <3>8. n \in Nat /\ \A m \in 1 .. n : values[m] \in Glued(A)
      BY <3>7, ElementOfSeq
    <3>. DEFINE G == {m \in 0 .. n : Stands(f[m])}
    <3>. HIDE DEF Stands
    <3>9. 0 \in G
      BY <1>7, <3>6, <3>8
    <3>10. ASSUME NEW m \in 1 .. n, m - 1 \in G PROVE m \in G
      <4>. DEFINE old == f[m - 1]
                  mask == Atom("[PASSWORD_CONTEXT]", m)
                  new == Substituted(old, values[m], mask)
      <4>1. m \in 0 .. n /\ m - 1 \in 0 .. n
        BY <3>8
      <4>2. old \in Scans(A, A, text) /\ old.text \in Seq(A)
        BY <4>1 DEF Scans
      <4>3. Stands(old)
        BY <3>10
      <4>4. mask \in PlaceholderAtoms /\ values[m] \in Glued(A)
        BY <3>8, PlaceholderIs DEF Placeholders
      <4>5. f[m] = old \/ f[m] = new
        BY <3>6
      <4>6. values[m] \in Seq(A) /\ values[m] # <<>>
        BY <4>4, GluedIs
      <4>. HIDE DEF old, mask
      <4>7. \/ new.text = old.text
            \/ \E i : Spliced(old.text, new.text, i, values[m], mask)
        BY <4>2, <4>6, SubstitutedAt
      <4>. HIDE DEF new
      <4>8. Stands(new)
        <5>1. CASE new.text = old.text
          BY <4>3, <5>1 DEF Stands
        <5>2. ASSUME NEW i, Spliced(old.text, new.text, i, values[m], mask) PROVE Stands(new)
          <6>1. PICK y : TitledAt(old.text, y, atom)
            BY <4>3 DEF Stands
          <6>2. Spares(values[m], atom)
            BY <3>4 DEF Spares
          <6>3. \E w : TitledAt(new.text, w, atom)
            BY <4>2, <4>4, <5>2, <6>1, <6>2, SplicedTitled
          <6>4. Lone(old.text, atom) /\ mask # atom
            BY <1>5, <4>3, <4>4 DEF Stands
          <6>5. Lone(new.text, atom)
            BY <4>2, <4>4, <5>2, <6>4, SplicedLone
          <6>. QED
            BY <6>3, <6>5 DEF Stands
        <5>. QED
          BY <4>7, <5>1, <5>2
      <4>. QED
        BY <4>1, <4>3, <4>5, <4>8
    <3>. HIDE DEF G
    <3>11. n \in G
      BY <3>8, <3>9, <3>10, Climb
    <3>12. Stands(f[n]) /\ f[n] \in Scans(A, A, text)
      BY <3>8, <3>11 DEF G
    <3>. QED
      BY <3>1, <3>6, <3>12
  <2>. QED
    BY <2>1, <2>2
<1>9. Context(text).text \in Seq(A) /\ <<atom>> \in AtomsOf(TitledNames(Context(text).text))
  <2>1. Context(text).text \in Seq(A)
    BY <1>8 DEF Scans
  <2>. QED
    BY <1>4, <1>8, <2>1, TitledNamesAre
<1>10. Named(text, presidio) = RedactNames(Context(text), presidio)
  BY DEF Named
<1>. QED
  BY <1>4, <1>8, <1>9, <1>10, NamesGone

\* What the context gives away is not in what Sanitize makes of a text.
LEMMA ContextKept ==
    ASSUME NEW A, PlaceholderAtoms \subseteq A, NEW text \in Seq(A), NEW presidio \in BOOLEAN
    PROVE  AtomsOf(Sanitize(text, on, presidio).text) \cap SearchedInContext(text) = {}
<1>. SUFFICES ASSUME NEW atom \in SearchedInContext(text)
              PROVE  atom \notin AtomsOf(Sanitize(text, on, presidio).text)
  OBVIOUS
<1>. DEFINE B == A \ {atom}
            named == Named(text, presidio)
            keys == Keys(text, presidio)
<1>1. OccursOnce(atom, text)
  BY DEF SearchedInContext
<1>2. named \in Scans(B, A, text) /\ PlaceholderAtoms \subseteq B
  <2>1. ASSUME on \cap {"EntropyScanner", "ApiKeyProtection"} # {}, atom.kind = "value",
               NEW value \in AtomsOf(Passwords(text)), atom \in AtomsOf(value), ~Enclosed(value)
        PROVE  named \in Scans(B, A, text) /\ PlaceholderAtoms \subseteq B
    <3>1. PlaceholderAtoms \subseteq B /\ B \subseteq A
      BY <2>1 DEF PlaceholderAtoms, Placeholders
    <3>2. Context(text) \in Scans(B, A, text)
      BY <1>1, <2>1, PasswordGone
    <3>. HIDE DEF B
    <3>3. RedactNames(Context(text), presidio) \in Scans(B, A, text)
      BY <3>1, <3>2, RedactNamesIn
    <3>. QED
      BY <3>1, <3>2, <3>3 DEF Named
  <2>2. ASSUME "NerEnabled" \in on, <<atom>> \in AtomsOf(TitledNames(text)),
               \A taken \in PasswordAtoms(text) : taken.kind # "title"
        PROVE  named \in Scans(B, A, text) /\ PlaceholderAtoms \subseteq B
    <3>1. atom.kind = "name"
      BY <2>2, TitledNamesAre
    <3>2. PlaceholderAtoms \subseteq B
      BY <3>1 DEF PlaceholderAtoms, Placeholders
    <3>. QED
      BY <1>1, <2>2, <3>2, NameGone
  <2>. QED
    BY <2>1, <2>2 DEF SearchedInContext
<1>3. B \subseteq A
  OBVIOUS
<1>. HIDE DEF B, named
<1>4. keys \in Scans(B, A, text)
  <2>1. CASE "ApiKeyProtection" \in on
    <3>1. keys = Numbered(named, Found(named.text, "key"), "[KEY]")
      BY <2>1 DEF Keys, When, RedactKeys, named
    <3>2. named.text \in Seq(B)
      BY <1>2 DEF Scans
    <3>3. Found(named.text, "key") \in Seq(Seq(A))
      BY <1>3, <3>2, FoundIs, TextsOverMore
    <3>4. "[KEY]" \in Placeholders
      BY DEF Placeholders
    <3>. QED
      BY <1>2, <3>1, <3>3, <3>4, NumberedIn
  <2>2. CASE "ApiKeyProtection" \notin on
    BY <1>2, <2>2 DEF Keys, When, named
  <2>. QED
    BY <2>1, <2>2
<1>. HIDE DEF keys
<1>5. Sanitize(text, on, presidio) \in Scans(B, A, text)
  <2>1. Sanitize(text, on, presidio) = When("EntropyScanner" \in on, RedactHighEntropy, keys)
    BY SanitizePasses DEF keys
  <2>2. RedactHighEntropy(keys) \in Scans(B, A, text)
    BY <1>2, <1>3, <1>4, RedactHighEntropyIn
  <2>. QED
    BY <1>4, <2>1, <2>2 DEF When
<1>6. Sanitize(text, on, presidio).text \in Seq(B)
  BY <1>5 DEF Scans
<1>. QED
  BY <1>6 DEF AtomsOf, ToSet, B

-----------------------------------------------------------------------------
(* What a text means, by a mapping *)

\* A placeholder stands for its value, any other atom for itself.
Meant(atom, map) == IF atom \in DOMAIN map THEN map[atom] ELSE <<atom>>

Expanded(text, map) == FoldLeft(LAMBDA out, atom : out \o Meant(atom, map), <<>>, text)

LEMMA MeantIn ==
    ASSUME NEW B, NEW atom \in B, NEW map \in Mappings(B)
    PROVE  Meant(atom, map) \in Seq(B)
BY MappingIs DEF Meant

\* What Expanded passes through.
ExpandedThrough(text, map, f) ==
    /\ f[0] = <<>> /\ f[Len(text)] = Expanded(text, map)
    /\ \A m \in 1 .. Len(text) : f[m] = f[m - 1] \o Meant(text[m], map)

LEMMA ExpandedSteps ==
    ASSUME NEW B, NEW text \in Seq(B), NEW map \in Mappings(B)
    PROVE  \E f \in [0 .. Len(text) -> Seq(B)] : ExpandedThrough(text, map, f)
<1>. DEFINE n == Len(text)
            T == Seq(B)
            base == <<>>
            op(b, m) == b \o Meant(text[m], map)
            step == [p \in (1 .. n) \X T |-> op(p[2], p[1])]
            Solves(g) == g = [t \in SUBSET (1 .. n) |->
                                IF t = {} THEN base ELSE op(g[t \ {Max(t)}], Max(t))]
            h == CHOOSE g : Solves(g)
<1>1. n \in Nat /\ base \in T
  OBVIOUS
<1>2. ASSUME NEW m \in 1 .. n, NEW b \in T PROVE op(b, m) \in T
  <2>1. text[m] \in B
    OBVIOUS
  <2>2. Meant(text[m], map) \in Seq(B)
    BY <2>1, MeantIn
  <2>. QED
    BY <2>2, ConcatProperties
<1>3. step \in [(1 .. n) \X T -> T]
  <2>. HIDE DEF op, T, n
  <2>. QED
    BY <1>2
<1>4. PICK g \in [SUBSET (1 .. n) -> T] : Recursion(n, base, step, g)
  <2>. HIDE DEF step, T, n, base, op, h, Solves
  <2>. QED
    BY <1>1, <1>3, FoldExists
<1>5. Solves(g)
  <2>1. ASSUME NEW t \in SUBSET (1 .. n)
        PROVE  g[t] = IF t = {} THEN base ELSE op(g[t \ {Max(t)}], Max(t))
    <3>1. SolvedAt(n, T, base, step, g, t)
      <4>. HIDE DEF step, T, n, base, op, h, Solves
      <4>. QED
        BY <1>1, <1>3, <1>4, Solution
    <3>. HIDE DEF T, n, base, op
    <3>. QED
      BY <3>1 DEF SolvedAt
  <2>2. g = [t \in SUBSET (1 .. n) |-> g[t]]
    OBVIOUS
  <2>. HIDE DEF T, n, base, op
  <2>. QED
    BY <2>1, <2>2
<1>6. Solves(h)
  <2>. HIDE DEF Solves
  <2>. QED
    BY <1>5
<1>7. Expanded(text, map) = h[1 .. n]
  <2>1. DOMAIN text = 1 .. n
    OBVIOUS
  <2>. QED
    BY <2>1 DEF Expanded, FoldLeft, MapThenFoldSet
<1>8. RecursionIn(n, T, base, step, h)
  <2>. HIDE DEF h, T, n, base, op
  <2>1. h[{}] = base
    BY <1>6
  <2>2. ASSUME NEW t \in SUBSET (1 .. n), t # {}, h[t \ {Max(t)}] \in T
        PROVE  h[t] = step[<<Max(t), h[t \ {Max(t)}]>>]
    <3>1. Max(t) \in 1 .. n
      BY <1>1, <2>2, HasMax
    <3>2. h[t] = op(h[t \ {Max(t)}], Max(t))
      BY <1>6, <2>2
    <3>. QED
      BY <2>2, <3>1, <3>2
  <2>. QED
    BY <2>1, <2>2 DEF RecursionIn
<1>9. PICK f \in [0 .. n -> T] : Steps(n, base, step, h, f)
  <2>. HIDE DEF step, T, n, base, op, h, Solves
  <2>. QED
    BY <1>1, <1>3, <1>8, FoldSteps
<1>10. ASSUME NEW m \in 1 .. n PROVE f[m] = op(f[m - 1], m)
  <2>. HIDE DEF T, op
  <2>1. m - 1 \in 0 .. n
    OBVIOUS
  <2>. QED
    BY <1>9, <2>1 DEF Steps
<1>12. /\ f[0] = base /\ f[n] = Expanded(text, map)
       /\ \A m \in 1 .. n : f[m] = f[m - 1] \o Meant(text[m], map)
  <2>. HIDE DEF h, n, T, base
  <2>. QED
    BY <1>7, <1>9, <1>10 DEF Steps
<1>. QED
  BY <1>9, <1>12 DEF ExpandedThrough

LEMMA ExpandedIn ==
    ASSUME NEW B, NEW text \in Seq(B), NEW map \in Mappings(B)
    PROVE  Expanded(text, map) \in Seq(B)
<1>1. PICK f \in [0 .. Len(text) -> Seq(B)] : ExpandedThrough(text, map, f)
  BY ExpandedSteps
<1>2. Len(text) \in 0 .. Len(text)
  OBVIOUS
<1>3. f[Len(text)] = Expanded(text, map)
  BY <1>1 DEF ExpandedThrough
<1>. QED
  BY <1>2, <1>3

\* f expands a text atom by atom.
Expands(f, text, map) ==
    /\ f[0] = <<>>
    /\ \A m \in 1 .. Len(text) : f[m] = f[m - 1] \o Meant(text[m], map)

\* Nothing else does.
LEMMA ExpandedOnly ==
    ASSUME NEW B, NEW text \in Seq(B), NEW map \in Mappings(B), NEW f, Expands(f, text, map)
    PROVE  f[Len(text)] = Expanded(text, map)
<1>1. PICK g \in [0 .. Len(text) -> Seq(B)] : ExpandedThrough(text, map, g)
  BY ExpandedSteps
<1>. DEFINE G == {m \in 0 .. Len(text) : f[m] = g[m]}
<1>2. 0 \in G
  BY <1>1 DEF Expands, ExpandedThrough
<1>3. ASSUME NEW m \in 1 .. Len(text), m - 1 \in G PROVE m \in G
  <2>1. f[m - 1] = g[m - 1]
    BY <1>3
  <2>2. f[m] = f[m - 1] \o Meant(text[m], map)
    BY DEF Expands
  <2>3. g[m] = g[m - 1] \o Meant(text[m], map)
    BY <1>1 DEF ExpandedThrough
  <2>4. m \in 0 .. Len(text)
    OBVIOUS
  <2>. QED
    BY <2>1, <2>2, <2>3, <2>4
<1>4. Len(text) \in Nat
  OBVIOUS
<1>5. Len(text) \in G
  <2>. HIDE DEF G
  <2>. QED
    BY <1>2, <1>3, <1>4, Climb
<1>6. g[Len(text)] = Expanded(text, map)
  BY <1>1 DEF ExpandedThrough
<1>. QED
  BY <1>5, <1>6

\* A mapping that says the same of the atoms of a text.
LEMMA ExpandedAlike ==
    ASSUME NEW B, NEW text \in Seq(B), NEW map \in Mappings(B), NEW next \in Mappings(B),
           \A m \in 1 .. Len(text) : Meant(text[m], map) = Meant(text[m], next)
    PROVE  Expanded(text, map) = Expanded(text, next)
<1>1. PICK f \in [0 .. Len(text) -> Seq(B)] : ExpandedThrough(text, map, f)
  BY ExpandedSteps
<1>2. Expands(f, text, next)
  BY <1>1 DEF Expands, ExpandedThrough
<1>3. f[Len(text)] = Expanded(text, next)
  BY <1>2, ExpandedOnly
<1>. QED
  BY <1>1, <1>3 DEF ExpandedThrough

LEMMA ExpandedOne ==
    ASSUME NEW B, NEW atom \in B, NEW map \in Mappings(B)
    PROVE  Expanded(<<atom>>, map) = Meant(atom, map)
<1>1. <<atom>> \in Seq(B) /\ Len(<<atom>>) = 1
  OBVIOUS
<1>2. PICK f \in [0 .. Len(<<atom>>) -> Seq(B)] : ExpandedThrough(<<atom>>, map, f)
  BY <1>1, ExpandedSteps
<1>3. f[0] = <<>> /\ f[1] = Expanded(<<atom>>, map)
  BY <1>1, <1>2 DEF ExpandedThrough
<1>4. f[1] = f[0] \o Meant(<<atom>>[1], map)
  <2>1. 1 \in 1 .. Len(<<atom>>) /\ 1 - 1 = 0
    BY <1>1
  <2>. QED
    BY <1>2, <2>1 DEF ExpandedThrough
<1>5. Meant(atom, map) \in Seq(B)
  BY MeantIn
<1>6. <<atom>>[1] = atom
  OBVIOUS
<1>. QED
  BY <1>3, <1>4, <1>5, <1>6, ConcatEmptySeq

\* Three texts, one after the other.
Regrouped(a, b, c) == (a \o b) \o c = a \o (b \o c)

LEMMA Regroup == \A B : \A a, b, c \in Seq(B) : Regrouped(a, b, c)
<1>. SUFFICES ASSUME NEW B, NEW a \in Seq(B), NEW b \in Seq(B), NEW c \in Seq(B)
              PROVE  (a \o b) \o c = a \o (b \o c)
  BY DEF Regrouped
<1>. QED
  BY ConcatAssociative

\* One text after the other.
Distributes(s, t, map) == Expanded(s \o t, map) = Expanded(s, map) \o Expanded(t, map)

LEMMA ExpandedConcat ==
    ASSUME NEW B, NEW s \in Seq(B), NEW t \in Seq(B), NEW map \in Mappings(B)
    PROVE  Distributes(s, t, map)
<1>0. PICK w \in Seq(B) : w = s \o t
  BY ConcatProperties
<1>1. Len(w) = Len(s) + Len(t) /\ Len(s) \in Nat /\ Len(t) \in Nat
  BY <1>0, ConcatProperties
<1>2. PICK f \in [0 .. Len(s) -> Seq(B)] : ExpandedThrough(s, map, f)
  BY ExpandedSteps
<1>3. PICK g \in [0 .. Len(t) -> Seq(B)] : ExpandedThrough(t, map, g)
  BY ExpandedSteps
<1>. DEFINE l == Len(s)
            h == [m \in 0 .. Len(w) |-> IF m <= l THEN f[m] ELSE f[l] \o g[m - l]]
<1>4. h[0] = <<>>
  BY <1>1, <1>2 DEF ExpandedThrough
<1>5. ASSUME NEW m \in 1 .. Len(w) PROVE h[m] = h[m - 1] \o Meant(w[m], map)
  <2>1. CASE m <= l
    <3>1. m \in 1 .. Len(s) /\ m - 1 <= l /\ m - 1 \in 0 .. Len(w) /\ m \in 0 .. Len(w)
      BY <1>1, <2>1
    <3>2. w[m] = s[m]
      BY <1>0, <3>1, ConcatProperties
    <3>3. f[m] = f[m - 1] \o Meant(s[m], map)
      BY <1>2, <3>1 DEF ExpandedThrough
    <3>4. h[m] = f[m] /\ h[m - 1] = f[m - 1]
      BY <2>1, <3>1
    <3>. QED
      BY <3>2, <3>3, <3>4
  <2>2. CASE m > l
    <3>. DEFINE k == m - l
    <3>1. k \in 1 .. Len(t) /\ m - 1 \in 0 .. Len(w) /\ m \in 0 .. Len(w) /\ ~(m <= l)
      BY <1>1, <2>2
    <3>2. w[m] = t[k]
      BY <1>0, <1>1, <2>2, ConcatProperties
    <3>3. g[k] = g[k - 1] \o Meant(t[k], map)
      BY <1>3, <3>1 DEF ExpandedThrough
    <3>4. h[m] = f[l] \o g[k]
      BY <3>1
    <3>5. h[m - 1] = f[l] \o g[k - 1]
      <4>1. CASE k = 1
        <5>1. m - 1 = l /\ h[m - 1] = f[l]
          BY <1>1, <3>1, <4>1
        <5>2. g[k - 1] = <<>>
          BY <1>3, <4>1 DEF ExpandedThrough
        <5>3. f[l] \in Seq(B)
          <6>1. l \in 0 .. Len(s)
            BY <1>1
          <6>. QED
            BY <1>2, <6>1
        <5>. QED
          BY <5>1, <5>2, <5>3, ConcatEmptySeq
      <4>2. CASE k # 1
        <5>1. ~(m - 1 <= l) /\ (m - 1) - l = k - 1
          BY <1>1, <3>1, <4>2
        <5>. QED
          BY <3>1, <5>1
      <4>. QED
        BY <4>1, <4>2
    <3>6. f[l] \in Seq(B) /\ g[k - 1] \in Seq(B)
      <4>1. l \in 0 .. Len(s) /\ k - 1 \in 0 .. Len(t)
        BY <1>1, <3>1
      <4>. HIDE DEF k, l, h
      <4>. QED
        BY <1>2, <1>3, <4>1
    <3>7. Meant(t[k], map) \in Seq(B)
      BY <3>1, ElementOfSeq, MeantIn
    <3>. HIDE DEF k, l, h
    <3>8. Regrouped(f[l], g[k - 1], Meant(t[k], map))
      BY <3>6, <3>7, Regroup
    <3>. QED
      BY <3>2, <3>3, <3>4, <3>5, <3>8 DEF Regrouped
  <2>3. m <= l \/ m > l
    BY <1>1
  <2>. HIDE DEF h, l
  <2>. QED
    BY <2>1, <2>2, <2>3
<1>6. h[Len(w)] = Expanded(s, map) \o Expanded(t, map)
  <2>1. f[l] = Expanded(s, map) /\ g[Len(t)] = Expanded(t, map)
    BY <1>2, <1>3 DEF ExpandedThrough
  <2>2. CASE Len(t) = 0
    <3>1. g[Len(t)] = <<>>
      BY <1>3, <2>2 DEF ExpandedThrough
    <3>2. h[Len(w)] = f[l] /\ f[l] \in Seq(B)
      BY <1>1, <1>2, <2>2
    <3>. QED
      BY <2>1, <3>1, <3>2, ConcatEmptySeq
  <2>3. CASE Len(t) # 0
    <3>1. ~(Len(w) <= l) /\ Len(w) - l = Len(t) /\ Len(w) \in 0 .. Len(w)
      BY <1>1, <2>3
    <3>. QED
      BY <2>1, <3>1
  <2>. QED
    BY <2>2, <2>3
<1>7. Expands(h, w, map)
  <2>. HIDE DEF h
  <2>. QED
    BY <1>4, <1>5 DEF Expands
<1>. HIDE DEF h
<1>. QED
  BY <1>0, <1>6, <1>7, ExpandedOnly DEF Distributes

\* What the mapping has no entry for is left as it is.
LEMMA ExpandedPlain ==
    ASSUME NEW B, NEW text \in Seq(B), NEW map \in Mappings(B),
           \A m \in 1 .. Len(text) : text[m] \notin DOMAIN map
    PROVE  Expanded(text, map) = text
<1>. DEFINE f == [m \in 0 .. Len(text) |-> SubSeq(text, 1, m)]
<1>1. Len(text) \in Nat
  OBVIOUS
<1>2. f[0] = <<>>
  BY <1>1, SubSeqEmpty
<1>3. ASSUME NEW m \in 1 .. Len(text) PROVE f[m] = f[m - 1] \o Meant(text[m], map)
  <2>1. Meant(text[m], map) = <<text[m]>>
    BY DEF Meant
  <2>2. m \in 0 .. Len(text) /\ m - 1 \in 0 .. Len(text)
    BY <1>1
  <2>3. SubSeq(text, 1, m) = SubSeq(text, 1, m - 1) \o <<text[m]>>
    <3>1. 1 \in 1 .. Len(text) /\ m \in 1 .. Len(text) /\ 1 <= m
      BY <1>1
    <3>. QED
      BY <3>1, SubSeqRecursiveSecond
  <2>. QED
    BY <2>1, <2>2, <2>3
<1>4. f[Len(text)] = text
  BY <1>1, SubSeqFull
<1>5. Expands(f, text, map)
  <2>. HIDE DEF f
  <2>. QED
    BY <1>2, <1>3 DEF Expands
<1>. HIDE DEF f
<1>. QED
  BY <1>4, <1>5, ExpandedOnly

\* A placeholder's value in its place means the same.
LEMMA ExpandedReplaced ==
    ASSUME NEW B, NEW text \in Seq(B), NEW map \in Mappings(B), NEW p \in DOMAIN map,
           \A m \in 1 .. Len(map[p]) : map[p][m] \notin DOMAIN map
    PROVE  Expanded(ReplacedAll(text, p, map[p]), map) = Expanded(text, map)
<1>1. map[p] \in Seq(B)
  BY MappingIs
<1>2. PICK r \in [0 .. Len(text) -> Seq(B)] : ReplacedAllThrough(text, p, map[p], r)
  BY <1>1, ReplacedAllSteps
<1>. DEFINE f == [m \in 0 .. Len(text) |-> Expanded(r[m], map)]
<1>3. Len(text) \in Nat /\ 0 \in 0 .. Len(text) /\ Len(text) \in 0 .. Len(text)
  OBVIOUS
<1>4. f[0] = <<>>
  <2>1. r[0] = <<>> /\ r[0] \in Seq(B)
    BY <1>2, <1>3 DEF ReplacedAllThrough
  <2>2. \A m \in 1 .. Len(r[0]) : r[0][m] \notin DOMAIN map
    BY <2>1
  <2>3. Expanded(r[0], map) = r[0]
    BY <2>1, <2>2, ExpandedPlain
  <2>. QED
    BY <1>3, <2>1, <2>3
<1>5. ASSUME NEW m \in 1 .. Len(text) PROVE f[m] = f[m - 1] \o Meant(text[m], map)
  <2>1. m \in 0 .. Len(text) /\ m - 1 \in 0 .. Len(text) /\ text[m] \in B
    BY <1>3, ElementOfSeq
  <2>2. r[m - 1] \in Seq(B)
    BY <1>2, <2>1
  <2>3. PICK piece \in Seq(B) : /\ r[m] = r[m - 1] \o piece
                                /\ piece = IF text[m] = p THEN map[p] ELSE <<text[m]>>
    <3>1. (IF text[m] = p THEN map[p] ELSE <<text[m]>>) \in Seq(B)
      BY <1>1, <2>1
    <3>2. r[m] = r[m - 1] \o (IF text[m] = p THEN map[p] ELSE <<text[m]>>)
      BY <1>2 DEF ReplacedAllThrough
    <3>. QED
      BY <3>1, <3>2
  <2>4. Expanded(piece, map) = Meant(text[m], map)
    <3>1. CASE text[m] = p
      <4>1. piece = map[p]
        BY <2>3, <3>1
      <4>2. Expanded(map[p], map) = map[p]
        BY <1>1, ExpandedPlain
      <4>. QED
        BY <3>1, <4>1, <4>2 DEF Meant
    <3>2. CASE text[m] # p
      <4>1. piece = <<text[m]>>
        BY <2>3, <3>2
      <4>. QED
        BY <2>1, <4>1, ExpandedOne
    <3>. QED
      BY <3>1, <3>2
  <2>5. Expanded(r[m], map) = Expanded(r[m - 1], map) \o Expanded(piece, map)
    <3>1. PICK before \in Seq(B) : before = r[m - 1]
      BY <2>2
    <3>2. Expanded(before \o piece, map) = Expanded(before, map) \o Expanded(piece, map)
      BY ExpandedConcat DEF Distributes
    <3>. QED
      BY <2>3, <3>1, <3>2
  <2>. QED
    BY <2>1, <2>4, <2>5
<1>6. Expands(f, text, map)
  <2>. HIDE DEF f
  <2>. QED
    BY <1>4, <1>5 DEF Expands
<1>7. f[Len(text)] = Expanded(text, map)
  <2>. HIDE DEF f
  <2>. QED
    BY <1>6, ExpandedOnly
<1>8. r[Len(text)] = ReplacedAll(text, p, map[p])
  BY <1>2 DEF ReplacedAllThrough
<1>. QED
  BY <1>3, <1>7, <1>8

\* Once it is replaced everywhere, the placeholder is gone.
LEMMA ReplacedAllGone ==
    ASSUME NEW C, NEW text \in Seq(C), NEW p, NEW value \in Seq(C \ {p})
    PROVE  ReplacedAll(text, p, value) \in Seq(C \ {p})
<1>1. value \in Seq(C)
  BY SeqMonotonic
<1>2. PICK r \in [0 .. Len(text) -> Seq(C)] : ReplacedAllThrough(text, p, value, r)
  BY <1>1, ReplacedAllSteps
<1>. DEFINE G == {m \in 0 .. Len(text) : r[m] \in Seq(C \ {p})}
<1>3. 0 \in G
  BY <1>2, EmptySeq DEF ReplacedAllThrough
<1>4. ASSUME NEW m \in 1 .. Len(text), m - 1 \in G PROVE m \in G
  <2>1. text[m] \in C /\ m \in 0 .. Len(text)
    BY ElementOfSeq
  <2>2. (IF text[m] = p THEN value ELSE <<text[m]>>) \in Seq(C \ {p})
    <3>1. CASE text[m] = p
      BY <3>1
    <3>2. CASE text[m] # p
      <4>1. text[m] \in C \ {p}
        BY <2>1, <3>2
      <4>2. <<text[m]>> \in Seq(C \ {p})
        BY <4>1
      <4>. QED
        BY <3>2, <4>2
    <3>. QED
      BY <3>1, <3>2
  <2>3. r[m] = r[m - 1] \o (IF text[m] = p THEN value ELSE <<text[m]>>)
    BY <1>2 DEF ReplacedAllThrough
  <2>4. r[m] \in Seq(C \ {p})
    BY <1>4, <2>2, <2>3, ConcatProperties
  <2>. QED
    BY <2>1, <2>4
<1>5. Len(text) \in Nat
  OBVIOUS
<1>6. Len(text) \in G
  <2>. HIDE DEF G
  <2>. QED
    BY <1>3, <1>4, <1>5, Climb
<1>7. r[Len(text)] = ReplacedAll(text, p, value)
  BY <1>2 DEF ReplacedAllThrough
<1>. QED
  BY <1>6, <1>7

\* Every order of a finite set is a sequence of its elements.
LEMMA OrdersAre ==
    ASSUME NEW D, IsFiniteSet(D), NEW order \in SetToSeqs(D)
    PROVE  order \in Seq(D)
<1>1. Cardinality(D) \in Nat
  BY FS_CardinalityType
<1>2. order \in [1 .. Cardinality(D) -> D]
  BY DEF SetToSeqs
<1>. QED
  BY <1>1, <1>2

\* Every order of a finite set has all of its elements.
LEMMA OrdersCover ==
    ASSUME NEW D, IsFiniteSet(D), NEW order \in SetToSeqs(D), NEW p \in D
    PROVE  \E k \in 1 .. Len(order) : order[k] = p
<1>. DEFINE N == 1 .. Cardinality(D)
<1>1. Cardinality(D) \in Nat
  BY FS_CardinalityType
<1>2. order \in [N -> D] /\ \A i, j \in N : i # j => order[i] # order[j]
  BY DEF SetToSeqs
<1>3. IsFiniteSet(N) /\ Cardinality(N) = Cardinality(D)
  BY <1>1, FS_Interval
<1>4. order \in Injection(N, D)
  BY <1>2 DEF Injection, IsInjective
<1>5. order \in Surjection(N, D)
  <2>. HIDE DEF N
  <2>. QED
    BY <1>3, <1>4, FS_SurjSameCardinalityImpliesInj, FS_Injection, FS_Bijection, FS_SameCardinalityBij
<1>6. \E k \in N : order[k] = p
  BY <1>5 DEF Surjection
<1>7. Len(order) = Cardinality(D)
  BY <1>1, <1>2
<1>. QED
  BY <1>6, <1>7

\* No value has a placeholder in it.
PlainValues(map) ==
    \A p \in DOMAIN map : \A i \in 1 .. Len(map[p]) : map[p][i] \notin PlaceholderAtoms

\* Then the order in which the placeholders are replaced does not matter.
LEMMA RehydrateExpands ==
    ASSUME NEW B, NEW text \in Seq(B), NEW map \in Mappings(B), PlainValues(map),
           NEW order \in SetToSeqs(DOMAIN map)
    PROVE  Rehydrate(text, map, order) = Expanded(text, map)
<1>1. IsFiniteSet(DOMAIN map) /\ DOMAIN map \subseteq PlaceholderAtoms /\ map \in [DOMAIN map -> Seq(B)]
  BY MappingIs
<1>2. order \in Seq(DOMAIN map) /\ Len(order) \in Nat
  BY <1>1, OrdersAre
<1>3. PICK f \in [0 .. Len(order) -> Seq(B)] : RehydrateThrough(text, map, order, f)
  BY <1>2, RehydrateSteps
<1>. DEFINE Left(m) == B \ {order[k] : k \in 1 .. m}
            G == {m \in 0 .. Len(order) : f[m] \in Seq(Left(m)) /\ Expanded(f[m], map) = Expanded(text, map)}
<1>4. 0 \in G
  <2>1. Left(0) = B
    OBVIOUS
  <2>. QED
    BY <1>2, <1>3, <2>1 DEF RehydrateThrough
<1>5. ASSUME NEW m \in 1 .. Len(order), m - 1 \in G PROVE m \in G
  <2>1. PICK p \in DOMAIN map : p = order[m]
    BY <1>2, ElementOfSeq
  <2>2. m \in 0 .. Len(order) /\ m - 1 \in 0 .. Len(order)
    BY <1>2
  <2>3. f[m] = ReplacedAll(f[m - 1], p, map[p])
    BY <1>3, <2>1 DEF RehydrateThrough
  <2>4. Expanded(f[m], map) = Expanded(f[m - 1], map)
    <3>1. f[m - 1] \in Seq(B)
      BY <1>3, <2>2
    <3>2. \A i \in 1 .. Len(map[p]) : map[p][i] \notin DOMAIN map
      BY <1>1 DEF PlainValues
    <3>. QED
      BY <2>3, <3>1, <3>2, ExpandedReplaced
  <2>5. map[p] \in Seq(Left(m - 1) \ {p})
    <3>1. map[p] \in Seq(B)
      BY <1>1
    <3>2. ASSUME NEW i \in 1 .. Len(map[p]) PROVE map[p][i] \in Left(m - 1) \ {p}
      <4>1. map[p][i] \in B /\ map[p][i] \notin PlaceholderAtoms
        BY <3>1, ElementOfSeq DEF PlainValues
      <4>2. \A k \in 1 .. (m - 1) : order[k] \in PlaceholderAtoms
        <5>1. \A k \in 1 .. (m - 1) : k \in 1 .. Len(order)
          BY <1>2
        <5>. QED
          BY <1>1, <1>2, <5>1, ElementOfSeq
      <4>. QED
        BY <1>1, <4>1, <4>2
    <3>. HIDE DEF Left
    <3>. QED
      BY <3>1, <3>2, OverThese
  <2>6. f[m] \in Seq(Left(m - 1) \ {p})
    <3>1. f[m - 1] \in Seq(Left(m - 1))
      BY <1>5
    <3>. HIDE DEF Left
    <3>. QED
      BY <2>3, <2>5, <3>1, ReplacedAllGone
  <2>7. Left(m - 1) \ {p} = Left(m)
    <3>1. 1 .. m = (1 .. (m - 1)) \cup {m}
      BY <1>2
    <3>. QED
      BY <2>1, <3>1
  <2>8. Expanded(f[m - 1], map) = Expanded(text, map)
    BY <1>5
  <2>. QED
    BY <2>2, <2>4, <2>6, <2>7, <2>8
<1>6. Len(order) \in G
  <2>. HIDE DEF G
  <2>. QED
    BY <1>2, <1>4, <1>5, Climb
<1>7. f[Len(order)] \in Seq(Left(Len(order))) /\ Expanded(f[Len(order)], map) = Expanded(text, map)
  BY <1>6
<1>8. \A m \in 1 .. Len(f[Len(order)]) : f[Len(order)][m] \notin DOMAIN map
  <2>1. \A p \in DOMAIN map : p \notin Left(Len(order))
    BY <1>1, OrdersCover
  <2>. HIDE DEF Left
  <2>. QED
    BY <1>7, <2>1, ElementOfSeq
<1>9. f[Len(order)] \in Seq(B)
  <2>1. Len(order) \in 0 .. Len(order)
    BY <1>2
  <2>. QED
    BY <1>3, <2>1
<1>10. Expanded(f[Len(order)], map) = f[Len(order)]
  BY <1>8, <1>9, ExpandedPlain
<1>11. f[Len(order)] = Rehydrate(text, map, order)
  BY <1>3 DEF RehydrateThrough
<1>. QED
  BY <1>7, <1>10, <1>11

-----------------------------------------------------------------------------
(* What a scan takes out of a text can be put back *)

\* A text is left, or cut in three where a value is replaced.
Cut(A, t, new, value, p) ==
    new = t \/ \E x, y \in Seq(A) : t = (x \o value) \o y /\ new = (x \o <<p>>) \o y

LEMMA SubstitutedCut ==
    ASSUME NEW A, NEW scan, scan.text \in Seq(A), NEW V, NEW value \in Seq(V), value # <<>>, NEW p
    PROVE  Cut(A, scan.text, Substituted(scan, value, p).text, value, p)
<1>1. PICK t \in Seq(A) : t = scan.text
  OBVIOUS
<1>. DEFINE i == Min(Places(value, t))
<1>. SUFFICES ASSUME Places(value, t) # {}
              PROVE  \E x, y \in Seq(A) : /\ t = (x \o value) \o y
                                          /\ Substituted(scan, value, p).text = (x \o <<p>>) \o y
  BY <1>1 DEF Substituted, Cut
<1>2. Len(t) \in Nat /\ Len(value) \in Nat /\ Len(value) >= 1
  OBVIOUS
<1>3. i \in Places(value, t)
  <2>1. Places(value, t) \in SUBSET Nat
    BY <1>2 DEF Places
  <2>. QED
    BY <2>1, MinIs
<1>. DEFINE l == Len(value)
            x == SubSeq(t, 1, i - 1)
            y == SubSeq(t, i + l, Len(t))
            v == SubSeq(t, i, i + l - 1)
<1>4. Substituted(scan, value, p).text = (x \o <<p>>) \o y
  BY <1>1 DEF Substituted, ReplaceSubSeqAt
<1>. HIDE DEF i
<1>5. i \in 1 .. (Len(t) + 1 - l) /\ v = value
  BY <1>3 DEF Places
<1>6. i \in Nat /\ i >= 1 /\ i + l <= Len(t) + 1 /\ v = value
  <2>. HIDE DEF v
  <2>. QED
    BY <1>2, <1>5
<1>7. x \in Seq(A)
  <2>1. \A j \in 1 .. (i - 1) : t[j] \in A
    BY <1>2, <1>6, ElementOfSeq
  <2>. QED
    BY <1>6, <2>1, SubSeqProperties
<1>8. y \in Seq(A)
  <2>1. \A j \in (i + l) .. Len(t) : t[j] \in A
    BY <1>2, <1>6, ElementOfSeq
  <2>. QED
    BY <1>2, <1>6, <2>1, SubSeqProperties
<1>9. t = (x \o v) \o y
  <2>1. x \o v = SubSeq(t, 1, i + l - 1)
    <3>1. 1 \in 1 .. Len(t) + 1 /\ i - 1 \in 1 - 1 .. Len(t) /\ i + l - 1 \in i - 1 .. Len(t) /\ (i - 1) + 1 = i
      BY <1>2, <1>6
    <3>. QED
      BY <3>1, ConcatAdjacentSubSeq
  <2>2. SubSeq(t, 1, i + l - 1) \o y = SubSeq(t, 1, Len(t))
    <3>1. 1 \in 1 .. Len(t) + 1 /\ i + l - 1 \in 1 - 1 .. Len(t) /\ Len(t) \in i + l - 1 .. Len(t)
          /\ (i + l - 1) + 1 = i + l
      BY <1>2, <1>6
    <3>. QED
      BY <3>1, ConcatAdjacentSubSeq
  <2>3. SubSeq(t, 1, Len(t)) = t
    BY SubSeqFull
  <2>. HIDE DEF x, v, y, l
  <2>. QED
    BY <2>1, <2>2, <2>3
<1>. HIDE DEF x, y, v
<1>. QED
  BY <1>6, <1>4, <1>7, <1>8, <1>9

\* The placeholder means what was there.
LEMMA ExpandedCut ==
    ASSUME NEW B, NEW x \in Seq(B), NEW y \in Seq(B), NEW map \in Mappings(B),
           NEW p \in DOMAIN map, p \in B, PlainValues(map)
    PROVE  Expanded((x \o <<p>>) \o y, map) = Expanded((x \o map[p]) \o y, map)
<1>1. PICK v \in Seq(B) : v = map[p]
  BY MappingIs
<1>2. PICK q \in Seq(B) : q = <<p>>
  <2>1. <<p>> \in Seq(B)
    OBVIOUS
  <2>. QED
    BY <2>1
<1>3. Expanded(q, map) = v
  BY <1>1, <1>2, ExpandedOne DEF Meant
<1>4. Expanded(v, map) = v
  <2>1. \A m \in 1 .. Len(v) : v[m] \notin DOMAIN map
    BY <1>1, MappingIs DEF PlainValues
  <2>. QED
    BY <2>1, ExpandedPlain
<1>5. ASSUME NEW s \in Seq(B)
      PROVE  Expanded((x \o s) \o y, map) = (Expanded(x, map) \o Expanded(s, map)) \o Expanded(y, map)
  <2>1. PICK w \in Seq(B) : w = x \o s
    BY ConcatProperties
  <2>2. Distributes(w, y, map) /\ Distributes(x, s, map)
    BY ExpandedConcat
  <2>. QED
    BY <2>1, <2>2 DEF Distributes
<1>. QED
  BY <1>1, <1>2, <1>3, <1>4, <1>5

\* The mapping can be walked in any order, and the original used none of its
\* placeholders.
Clean(map, original) == PlainValues(map) /\ DOMAIN map \cap AtomsOf(original) = {}

\* A placeholder is the scan's or the original's.
Accounted(scan, original) ==
    \A i \in 1 .. Len(scan.text) :
       scan.text[i] \in PlaceholderAtoms => scan.text[i] \in DOMAIN scan.mapping \cup AtomsOf(original)

\* What was replaced can be put back.
Returns(scan, original) ==
    /\ Accounted(scan, original)
    /\ Clean(scan.mapping, original) => Expanded(scan.text, scan.mapping) = original

\* A text where a value was replaced has the placeholder and what was there.
LEMMA SubstitutedAtoms ==
    ASSUME NEW A, NEW scan, scan.text \in Seq(A), NEW V, NEW value \in Seq(V), value # <<>>, NEW p,
           NEW j \in 1 .. Len(Substituted(scan, value, p).text)
    PROVE  \/ Substituted(scan, value, p).text[j] = p
           \/ \E k \in 1 .. Len(scan.text) : Substituted(scan, value, p).text[j] = scan.text[k]
<1>. DEFINE new == Substituted(scan, value, p).text
<1>1. CASE new = scan.text
  BY <1>1
<1>2. CASE \E i : Spliced(scan.text, new, i, value, p)
  <2>1. PICK i : StandsAt(value, scan.text, i) /\ PutAt(scan.text, new, i, value, p)
    BY <1>2 DEF Spliced
  <2>2. PICK n \in Nat, l \in Nat : n = Len(scan.text) /\ l = Len(value) /\ l >= 1
    OBVIOUS
  <2>3. i \in Nat /\ i >= 1 /\ i + l <= n + 1
    BY <2>1, <2>2 DEF StandsAt
  <2>4. /\ j \in 1 .. (n + 1 - l)
        /\ new[j] = IF j < i THEN scan.text[j] ELSE IF j = i THEN p ELSE scan.text[j + l - 1]
    BY <2>1, <2>2 DEF PutAt
  <2>. HIDE DEF new
  <2>5. CASE j < i
    <3>1. j \in 1 .. Len(scan.text)
      BY <2>2, <2>3, <2>4, <2>5
    <3>. QED
      BY <2>4, <2>5, <3>1 DEF new
  <2>6. CASE j > i
    <3>1. j + l - 1 \in 1 .. Len(scan.text) /\ ~(j < i) /\ j # i
      BY <2>2, <2>3, <2>4, <2>6
    <3>. QED
      BY <2>4, <3>1 DEF new
  <2>7. CASE j = i
    BY <2>3, <2>4, <2>7 DEF new
  <2>. QED
    BY <2>3, <2>4, <2>5, <2>6, <2>7
<1>. QED
  BY <1>1, <1>2, SubstitutedAt

LEMMA SubstitutedReturns ==
    ASSUME NEW A, NEW V, NEW text, PlaceholderAtoms \subseteq A, A \subseteq V,
           NEW scan \in Scans(A, V, text), NEW value \in Seq(V), value # <<>>,
           NEW p \in PlaceholderAtoms, p \in DOMAIN scan.mapping => scan.mapping[p] = value,
           NEW original, Returns(scan, original)
    PROVE  Returns(Substituted(scan, value, p), original)
<1>. DEFINE s == Substituted(scan, value, p)
<1>1. PICK map \in Mappings(V), t \in Seq(V), next \in Mappings(V), new \in Seq(V) :
         map = scan.mapping /\ t = scan.text /\ next = s.mapping /\ new = s.text
  <2>1. s \in Scans(A, V, text)
    BY SubstitutedIs
  <2>2. scan.mapping \in Mappings(V) /\ scan.text \in Seq(A) /\ s.mapping \in Mappings(V) /\ s.text \in Seq(A)
    BY <2>1 DEF Scans
  <2>. HIDE DEF s
  <2>3. scan.text \in Seq(V) /\ s.text \in Seq(V)
    BY <2>2, SeqMonotonic
  <2>. QED
    BY <2>2, <2>3
<1>2. /\ DOMAIN next = DOMAIN map \cup {p}
      /\ next[p] = value
      /\ \A q \in DOMAIN map : next[q] = map[q]
  <2>1. next = Updated(map, [q \in {p} |-> value])
    BY <1>1 DEF Substituted
  <2>2. p \in DOMAIN map => map[p] = value
    <3>. HIDE DEF s
    <3>. QED
      BY <1>1
  <2>. QED
    BY <2>1, <2>2 DEF Updated
<1>3. Accounted(s, original)
  <2>. SUFFICES ASSUME NEW j \in 1 .. Len(new), new[j] \in PlaceholderAtoms
                PROVE  new[j] \in DOMAIN next \cup AtomsOf(original)
    BY <1>1 DEF Accounted
  <2>1. new[j] = p \/ \E k \in 1 .. Len(t) : new[j] = t[k]
    BY <1>1, SubstitutedAtoms
  <2>2. \A k \in 1 .. Len(t) : t[k] \in PlaceholderAtoms => t[k] \in DOMAIN map \cup AtomsOf(original)
    BY <1>1 DEF Returns, Accounted
  <2>. QED
    BY <1>2, <2>1, <2>2
<1>4. ASSUME Clean(next, original) PROVE Expanded(new, next) = original
  <2>1. PlainValues(next) /\ DOMAIN next \cap AtomsOf(original) = {}
    BY <1>4 DEF Clean
  <2>2. Clean(map, original)
    BY <1>2, <2>1 DEF Clean, PlainValues
  <2>3. Expanded(t, map) = original
    BY <1>1, <2>2 DEF Returns
  <2>4. ASSUME NEW m \in 1 .. Len(t) PROVE Meant(t[m], map) = Meant(t[m], next)
    <3>1. t[m] \in DOMAIN map \/ t[m] \notin DOMAIN next
      <4>1. p \notin AtomsOf(original)
        BY <1>2, <2>1
      <4>2. t[m] \in PlaceholderAtoms => t[m] \in DOMAIN map \cup AtomsOf(original)
        BY <1>1 DEF Returns, Accounted
      <4>. QED
        BY <1>2, <4>1, <4>2
    <3>. QED
      BY <1>2, <3>1 DEF Meant
  <2>5. Expanded(t, next) = original
    BY <2>3, <2>4, ExpandedAlike
  <2>6. CASE new = t
    BY <2>5, <2>6
  <2>7. ASSUME NEW x \in Seq(A), NEW y \in Seq(A), t = (x \o value) \o y, new = (x \o <<p>>) \o y
        PROVE  Expanded(new, next) = original
    <3>1. x \in Seq(V) /\ y \in Seq(V) /\ p \in V
      BY SeqMonotonic
    <3>2. Expanded((x \o <<p>>) \o y, next) = Expanded((x \o value) \o y, next)
      BY <1>2, <2>1, <3>1, ExpandedCut
    <3>. QED
      BY <2>5, <2>7, <3>2
  <2>8. \/ new = t
        \/ \E x, y \in Seq(A) : t = (x \o value) \o y /\ new = (x \o <<p>>) \o y
    <3>1. scan.text \in Seq(A)
      BY DEF Scans
    <3>2. Cut(A, scan.text, s.text, value, p)
      BY <3>1, SubstitutedCut
    <3>. HIDE DEF s
    <3>. QED
      BY <1>1, <3>2 DEF Cut
  <2>. QED
    BY <2>6, <2>7, <2>8
<1>. QED
  BY <1>1, <1>3, <1>4 DEF Returns

\* What was replaced can be put back, and has placeholders of these kinds.
Restores(scan, original, K) ==
    Returns(scan, original) /\ \A p \in DOMAIN scan.mapping : p.kind \in K

\* A pass replaces each value or leaves it, with one placeholder for no two
\* values.
Passes(f, values, masks, tag) ==
    /\ \A i \in 1 .. Len(values) :
          /\ values[i] # <<>>
          /\ masks[i] \in PlaceholderAtoms /\ masks[i].kind = tag
          /\ f[i] = f[i - 1] \/ f[i] = Substituted(f[i - 1], values[i], masks[i])
    /\ \A i, j \in 1 .. Len(values) : masks[i] = masks[j] => values[i] = values[j]

\* The mapping so far: what was there and the first m values.
Entries(scan, values, masks, K, m) ==
    \A p \in DOMAIN scan.mapping :
       p.kind \in K \/ \E i \in 1 .. m : p = masks[i] /\ scan.mapping[p] = values[i]

LEMMA PassRestores ==
    ASSUME NEW A, NEW V, NEW text, PlaceholderAtoms \subseteq A, A \subseteq V,
           NEW values \in Seq(Seq(V)), NEW masks, NEW tag,
           NEW f \in [0 .. Len(values) -> Scans(A, V, text)], Passes(f, values, masks, tag),
           NEW original, NEW K, tag \notin K, Restores(f[0], original, K)
    PROVE  Restores(f[Len(values)], original, K \cup {tag})
<1>. DEFINE G == {m \in 0 .. Len(values) : Returns(f[m], original) /\ Entries(f[m], values, masks, K, m)}
<1>1. Len(values) \in Nat
  OBVIOUS
<1>2. 0 \in G
  BY <1>1 DEF Restores, Entries
<1>3. ASSUME NEW m \in 1 .. Len(values), m - 1 \in G PROVE m \in G
  <2>1. PICK scan \in Scans(A, V, text) : scan = f[m - 1]
    <3>1. m - 1 \in 0 .. Len(values)
      BY <1>1
    <3>. QED
      BY <3>1
  <2>2. Returns(scan, original) /\ Entries(scan, values, masks, K, m - 1)
    BY <1>3, <2>1
  <2>3. PICK value \in Seq(V), p \in PlaceholderAtoms :
           /\ value = values[m] /\ p = masks[m] /\ value # <<>> /\ p.kind = tag
           /\ f[m] = scan \/ f[m] = Substituted(scan, value, p)
    <3>1. values[m] \in Seq(V)
      BY ElementOfSeq
    <3>. QED
      BY <2>1, <3>1 DEF Passes
  <2>4. CASE f[m] = scan
    BY <1>1, <2>2, <2>4 DEF Entries
  <2>5. CASE f[m] = Substituted(scan, value, p)
    <3>1. p \in DOMAIN scan.mapping => scan.mapping[p] = value
      <4>. SUFFICES ASSUME p \in DOMAIN scan.mapping PROVE scan.mapping[p] = value
        OBVIOUS
      <4>1. PICK i \in 1 .. (m - 1) : p = masks[i] /\ scan.mapping[p] = values[i]
        BY <2>2, <2>3 DEF Entries
      <4>2. i \in 1 .. Len(values)
        BY <1>1
      <4>. QED
        BY <2>3, <4>1, <4>2 DEF Passes
    <3>2. Returns(f[m], original)
      BY <2>2, <2>3, <2>5, <3>1, SubstitutedReturns
    <3>3. PICK next : next = f[m].mapping /\ next = Updated(scan.mapping, [q \in {p} |-> value])
      BY <2>5 DEF Substituted
    <3>4. /\ DOMAIN next = DOMAIN scan.mapping \cup {p}
          /\ next[p] = value
          /\ \A q \in DOMAIN scan.mapping : q # p => next[q] = scan.mapping[q]
      BY <3>3 DEF Updated
    <3>5. ASSUME NEW q \in DOMAIN next
          PROVE  q.kind \in K \/ \E i \in 1 .. m : q = masks[i] /\ next[q] = values[i]
      <4>1. CASE q = p
        BY <2>3, <3>4, <4>1
      <4>2. CASE q # p
        <5>1. q.kind \in K \/ \E i \in 1 .. (m - 1) : q = masks[i] /\ scan.mapping[q] = values[i]
          BY <2>2, <3>4, <4>2 DEF Entries
        <5>2. \A i \in 1 .. (m - 1) : i \in 1 .. m
          BY <1>1
        <5>. QED
          BY <3>4, <4>2, <5>1, <5>2
      <4>. QED
        BY <4>1, <4>2
    <3>6. Entries(f[m], values, masks, K, m)
      BY <3>3, <3>5 DEF Entries
    <3>7. m \in 0 .. Len(values)
      BY <1>1
    <3>. QED
      BY <3>2, <3>6, <3>7
  <2>. QED
    BY <2>3, <2>4, <2>5
<1>4. Len(values) \in G
  <2>. HIDE DEF G
  <2>. QED
    BY <1>1, <1>2, <1>3, Climb
<1>5. \A p \in DOMAIN f[Len(values)].mapping : p.kind \in K \cup {tag}
  BY <1>4 DEF Entries, Passes
<1>. QED
  BY <1>4, <1>5 DEF Restores

\* A scan on the way, with placeholders of these kinds.
Stage(A, text, scan, K) == scan \in Scans(A, A, text) /\ Restores(scan, text, K)

LEMMA StageMore ==
    ASSUME NEW A, NEW text, NEW scan, NEW K, Stage(A, text, scan, K), NEW L, K \subseteq L
    PROVE  Stage(A, text, scan, L)
BY DEF Stage, Restores

LEMMA MaskedRestores ==
    ASSUME NEW A, PlaceholderAtoms \subseteq A, NEW text, NEW scan, NEW K, Stage(A, text, scan, K),
           NEW values \in Seq(Seq(A)), NEW masks, NEW tag, tag \notin K,
           \A i \in 1 .. Len(values) :
              values[i] # <<>> /\ masks[i] \in PlaceholderAtoms /\ masks[i].kind = tag,
           \A i, j \in 1 .. Len(values) : masks[i] = masks[j] => values[i] = values[j]
    PROVE  Stage(A, text, Replaced(scan, values, masks), K \cup {tag})
<1>1. scan \in Scans(A, A, text) /\ Restores(scan, text, K)
  BY DEF Stage
<1>2. PICK f \in [0 .. Len(values) -> Scans(A, A, text)] : ReplacedThrough(scan, values, masks, f)
  BY <1>1, ReplacedSteps
<1>3. f[0] = scan /\ f[Len(values)] = Replaced(scan, values, masks)
  BY <1>2 DEF ReplacedThrough
<1>4. Passes(f, values, masks, tag)
  BY <1>2 DEF ReplacedThrough, Passes
<1>5. Restores(f[0], text, K)
  BY <1>1, <1>3
<1>6. Restores(f[Len(values)], text, K \cup {tag})
  BY <1>4, <1>5, PassRestores
<1>7. Replaced(scan, values, masks) \in Scans(A, A, text)
  BY <1>1, ReplacedIn
<1>. QED
  BY <1>3, <1>6, <1>7 DEF Stage

LEMMA NumberedRestores ==
    ASSUME NEW A, PlaceholderAtoms \subseteq A, NEW text, NEW scan, NEW K, Stage(A, text, scan, K),
           NEW values \in Seq(Seq(A)), \A i \in 1 .. Len(values) : values[i] # <<>>,
           NEW tag \in Placeholders, tag \notin K
    PROVE  Stage(A, text, Numbered(scan, values, tag), K \cup {tag})
<1>. DEFINE masks == [i \in DOMAIN values |-> Atom(tag, i)]
<1>1. ASSUME NEW i \in 1 .. Len(values)
      PROVE  masks[i] \in PlaceholderAtoms /\ masks[i].kind = tag
  <2>1. masks[i] = Atom(tag, i) /\ i \in Nat
    OBVIOUS
  <2>2. Atom(tag, i) \in PlaceholderAtoms
    BY <2>1, PlaceholderIs
  <2>. QED
    BY <2>1, <2>2 DEF Atom
<1>2. \A i, j \in 1 .. Len(values) : masks[i] = masks[j] => values[i] = values[j]
  BY DEF Atom
<1>3. Numbered(scan, values, tag) = Replaced(scan, values, masks)
  BY DEF Numbered
<1>. HIDE DEF masks
<1>. QED
  BY <1>1, <1>2, <1>3, MaskedRestores

LEMMA FoundRestores ==
    ASSUME NEW A, PlaceholderAtoms \subseteq A, NEW text, NEW scan, NEW K, Stage(A, text, scan, K),
           NEW kind, NEW tag \in Placeholders, tag \notin K
    PROVE  Stage(A, text, Numbered(scan, Found(scan.text, kind), tag), K \cup {tag})
<1>. DEFINE values == Found(scan.text, kind)
<1>1. values \in Seq(Seq(A)) /\ \E q : FoundAt(scan.text, kind, values, q)
  BY FoundIs DEF Stage, Scans
<1>. HIDE DEF values
<1>2. \A i \in 1 .. Len(values) : values[i] # <<>>
  <2>1. \A i \in 1 .. Len(values) : \E atom : values[i] = <<atom>>
    BY <1>1 DEF FoundAt
  <2>. QED
    BY <2>1
<1>3. Stage(A, text, Numbered(scan, values, tag), K \cup {tag})
  BY <1>1, <1>2, NumberedRestores
<1>. QED
  BY <1>3 DEF values

\* The IBANs have one placeholder, so there must be one IBAN.
LEMMA IBANsRestore ==
    ASSUME NEW A, PlaceholderAtoms \subseteq A, NEW text, NEW scan, NEW K, Stage(A, text, scan, K),
           "[IBAN_MASKED]" \notin K,
           \A a, b \in A : a.kind = "iban" /\ b.kind = "iban" => a = b
    PROVE  Stage(A, text, RedactIBANs(scan), K \cup {"[IBAN_MASKED]"})
<1>. DEFINE values == Found(scan.text, "iban")
            mask == Atom("[IBAN_MASKED]", 0)
            masks == [i \in DOMAIN values |-> mask]
<1>1. scan.text \in Seq(A)
  BY DEF Stage, Scans
<1>2. values \in Seq(Seq(A)) /\ \E q : FoundAt(scan.text, "iban", values, q)
  BY <1>1, FoundIs
<1>3. RedactIBANs(scan) = Replaced(scan, values, masks)
  BY DEF RedactIBANs
<1>. HIDE DEF values
<1>4. PICK q : FoundAt(scan.text, "iban", values, q)
  BY <1>2
<1>5. \A i \in 1 .. Len(values) : /\ q[i] \in 1 .. Len(scan.text)
                                  /\ values[i] = <<scan.text[q[i]]>> /\ scan.text[q[i]].kind = "iban"
  BY <1>2, <1>4 DEF FoundAt
<1>6. \A i \in 1 .. Len(values) : values[i] # <<>> /\ masks[i] \in PlaceholderAtoms /\ masks[i].kind = "[IBAN_MASKED]"
  <2>1. mask \in PlaceholderAtoms /\ mask.kind = "[IBAN_MASKED]"
    BY PlaceholderIs DEF Placeholders, Atom
  <2>2. \A i \in 1 .. Len(values) : masks[i] = mask
    BY <1>2
  <2>. HIDE DEF masks, mask
  <2>3. ASSUME NEW i \in 1 .. Len(values) PROVE values[i] # <<>>
    <3>1. PICK atom : values[i] = <<atom>>
      BY <1>5
    <3>. QED
      BY <3>1
  <2>. QED
    BY <2>1, <2>2, <2>3
<1>7. \A i, j \in 1 .. Len(values) : values[i] = values[j]
  <2>. SUFFICES ASSUME NEW i \in 1 .. Len(values), NEW j \in 1 .. Len(values)
                PROVE  values[i] = values[j]
    OBVIOUS
  <2>1. scan.text[q[i]] \in A /\ scan.text[q[j]] \in A
    BY <1>1, <1>5, ElementOfSeq
  <2>2. scan.text[q[i]] = scan.text[q[j]]
    BY <1>5, <2>1
  <2>. QED
    BY <1>5, <2>2
<1>. HIDE DEF masks
<1>8. Stage(A, text, Replaced(scan, values, masks), K \cup {"[IBAN_MASKED]"})
  BY <1>2, <1>6, <1>7, MaskedRestores
<1>. QED
  BY <1>3, <1>8

LEMMA PasswordsRestore ==
    ASSUME NEW A, PlaceholderAtoms \subseteq A, NEW text, NEW scan, NEW K, Stage(A, text, scan, K),
           "[PASSWORD_CONTEXT]" \notin K
    PROVE  Stage(A, text, RedactPasswords(scan), K \cup {"[PASSWORD_CONTEXT]"})
<1>. DEFINE values == Passwords(scan.text)
            masks == [i \in 1 .. Len(values) |-> Atom("[PASSWORD_CONTEXT]", i)]
<1>1. scan \in Scans(A, A, text) /\ Restores(scan, text, K) /\ scan.text \in Seq(A)
  BY DEF Stage, Scans
<1>2. PICK f \in [0 .. Len(values) -> Scans(A, A, text)] : PasswordsReplaced(scan, f)
  BY <1>1, RedactPasswordsSteps
<1>3. values \in Seq(Glued(A)) /\ values \in Seq(Seq(A))
  BY <1>1, PasswordsGlued, GluedAreTexts
<1>4. /\ f[0] = scan /\ f[Len(values)] = RedactPasswords(scan)
      /\ \A i \in 1 .. Len(values) : f[i] = f[i - 1] \/ f[i] = Substituted(f[i - 1], values[i], masks[i])
  BY <1>2 DEF PasswordsReplaced
<1>. HIDE DEF values
<1>5. \A i \in 1 .. Len(values) : masks[i] \in PlaceholderAtoms /\ masks[i].kind = "[PASSWORD_CONTEXT]"
  <2>1. \A i \in 1 .. Len(values) : masks[i] = Atom("[PASSWORD_CONTEXT]", i) /\ i \in Nat
    OBVIOUS
  <2>. HIDE DEF masks
  <2>. QED
    BY <2>1, PlaceholderIs DEF Placeholders, Atom
<1>6. \A i, j \in 1 .. Len(values) : masks[i] = masks[j] => values[i] = values[j]
  BY DEF Atom
<1>7. \A i \in 1 .. Len(values) : values[i] # <<>>
  BY <1>3, ElementOfSeq DEF Glued
<1>. HIDE DEF masks
<1>8. Passes(f, values, masks, "[PASSWORD_CONTEXT]")
  BY <1>4, <1>5, <1>6, <1>7 DEF Passes
<1>9. Restores(f[0], text, K)
  BY <1>1, <1>4
<1>10. Restores(f[Len(values)], text, K \cup {"[PASSWORD_CONTEXT]"})
  BY <1>3, <1>8, <1>9, PassRestores
<1>11. RedactPasswords(scan) \in Scans(A, A, text)
  BY <1>1, RedactPasswordsIn
<1>. QED
  BY <1>4, <1>10, <1>11 DEF Stage

LEMMA NamesRestore ==
    ASSUME NEW A, PlaceholderAtoms \subseteq A, NEW text, NEW scan, NEW K, Stage(A, text, scan, K),
           "[PERSON_NAME]" \notin K, NEW presidio \in BOOLEAN
    PROVE  Stage(A, text, RedactNames(scan, presidio), K \cup {"[PERSON_NAME]"})
<1>. DEFINE values == Names(scan.text, presidio)
            masks == [i \in 1 .. Len(values) |-> Atom("[PERSON_NAME]", i)]
<1>1. scan \in Scans(A, A, text) /\ Restores(scan, text, K) /\ scan.text \in Seq(A)
  BY DEF Stage, Scans
<1>2. PICK f \in [0 .. Len(values) -> Scans(A, A, text)] : NamesReplaced(scan, presidio, f)
  BY <1>1, RedactNamesSteps
<1>3. values \in Seq(Glued(A)) /\ values \in Seq(Seq(A))
  BY <1>1, NamesGlued, GluedAreTexts
<1>4. /\ f[0] = scan /\ f[Len(values)] = RedactNames(scan, presidio)
      /\ \A i \in 1 .. Len(values) : f[i] = f[i - 1] \/ f[i] = Substituted(f[i - 1], values[i], masks[i])
  BY <1>2 DEF NamesReplaced
<1>. HIDE DEF values
<1>5. \A i \in 1 .. Len(values) : masks[i] \in PlaceholderAtoms /\ masks[i].kind = "[PERSON_NAME]"
  <2>1. \A i \in 1 .. Len(values) : masks[i] = Atom("[PERSON_NAME]", i) /\ i \in Nat
    OBVIOUS
  <2>. HIDE DEF masks
  <2>. QED
    BY <2>1, PlaceholderIs DEF Placeholders, Atom
<1>6. \A i, j \in 1 .. Len(values) : masks[i] = masks[j] => values[i] = values[j]
  BY DEF Atom
<1>7. \A i \in 1 .. Len(values) : values[i] # <<>>
  BY <1>3, ElementOfSeq DEF Glued
<1>. HIDE DEF masks
<1>8. Passes(f, values, masks, "[PERSON_NAME]")
  BY <1>4, <1>5, <1>6, <1>7 DEF Passes
<1>9. Restores(f[0], text, K)
  BY <1>1, <1>4
<1>10. Restores(f[Len(values)], text, K \cup {"[PERSON_NAME]"})
  BY <1>3, <1>8, <1>9, PassRestores
<1>11. RedactNames(scan, presidio) \in Scans(A, A, text)
  BY <1>1, RedactNamesIn
<1>. QED
  BY <1>4, <1>10, <1>11 DEF Stage

LEMMA SecretsRestore ==
    ASSUME NEW A, PlaceholderAtoms \subseteq A, NEW text, NEW scan, NEW K, Stage(A, text, scan, K),
           "[HIGH_ENTROPY_SECRET]" \notin K
    PROVE  Stage(A, text, RedactHighEntropy(scan), K \cup {"[HIGH_ENTROPY_SECRET]"})
<1>. DEFINE words == Fields(scan.text)
            values == Kept(words, {word \in ToSet(words) : IsHighEntropy(word)})
<1>1. scan.text \in Seq(A)
  BY DEF Stage, Scans
<1>2. Sheltered(scan.text, A)
  BY <1>1, ElementOfSeq DEF Sheltered
<1>3. values \in Seq(Glued(A))
  BY <1>1, <1>2, SecretsPlaces
<1>4. RedactHighEntropy(scan) = Numbered(scan, values, "[HIGH_ENTROPY_SECRET]")
  BY DEF RedactHighEntropy
<1>. HIDE DEF values
<1>5. values \in Seq(Seq(A)) /\ \A i \in 1 .. Len(values) : values[i] # <<>>
  BY <1>3, GluedAreTexts, ElementOfSeq DEF Glued
<1>6. "[HIGH_ENTROPY_SECRET]" \in Placeholders
  BY DEF Placeholders
<1>. QED
  BY <1>4, <1>5, <1>6, NumberedRestores

LEMMA ScanRestores ==
    ASSUME NEW A, NEW text \in Seq(A)
    PROVE  Stage(A, text, Scan(text), {})
<1>1. Scan(text) \in Scans(A, A, text) /\ Scan(text).text = text /\ Scan(text).mapping = <<>>
  BY EmptyMapping DEF Scan, Scans
<1>2. DOMAIN <<>> = {} /\ <<>> \in Mappings(A)
  BY EmptyMapping
<1>3. Accounted(Scan(text), text)
  BY <1>1 DEF Accounted, AtomsOf, ToSet
<1>4. Expanded(text, <<>>) = text
  BY <1>2, ExpandedPlain
<1>. QED
  BY <1>1, <1>2, <1>3, <1>4 DEF Stage, Restores, Returns

\* What Sanitize replaces in a text can be put back, when there is one IBAN in
\* it, none of the placeholders and none in what it replaces.
LEMMA SanitizeRestores ==
    ASSUME NEW A, PlaceholderAtoms \subseteq A, NEW text \in Seq(A), NEW presidio \in BOOLEAN,
           \A a, b \in A : a.kind = "iban" /\ b.kind = "iban" => a = b
    PROVE  Returns(Sanitize(text, on, presidio), text)
<1>. DEFINE K1 == {"[EMAIL]"}
            K2 == K1 \cup {"[PHONE]"}
            K3 == K2 \cup {"[IBAN_MASKED]"}
            K4 == K3 \cup {"[CREDIT_CARD]"}
            K5 == K4 \cup {"[PASSWORD_CONTEXT]"}
            K6 == K5 \cup {"[PERSON_NAME]"}
            K7 == K6 \cup {"[KEY]"}
            K8 == K7 \cup {"[HIGH_ENTROPY_SECRET]"}
            final == Sanitize(text, on, presidio)
<1>0. {"[EMAIL]", "[PHONE]", "[CREDIT_CARD]", "[KEY]"} \subseteq Placeholders
  BY DEF Placeholders
<1>1. Stage(A, text, Emails(text), K1)
  <2>1. Stage(A, text, Scan(text), {})
    BY ScanRestores
  <2>2. CASE "EmailRedaction" \in on
    <3>1. Emails(text) = Numbered(Scan(text), Found(Scan(text).text, "email"), "[EMAIL]")
      BY <2>2 DEF Emails, When, RedactEmails
    <3>2. "[EMAIL]" \in Placeholders /\ "[EMAIL]" \notin {}
      BY <1>0
    <3>3. Stage(A, text, Emails(text), {} \cup {"[EMAIL]"})
      BY <2>1, <3>1, <3>2, FoundRestores
    <3>. QED
      BY <3>3, StageMore
  <2>3. CASE "EmailRedaction" \notin on
    BY <2>1, <2>3, StageMore DEF Emails, When
  <2>. QED
    BY <2>2, <2>3
<1>2. Stage(A, text, Phones(text), K2)
  <2>1. CASE "PhoneRedaction" \in on
    <3>1. Phones(text) = Numbered(Emails(text), Found(Emails(text).text, "phone"), "[PHONE]")
      BY <2>1 DEF Phones, When, RedactPhones
    <3>2. "[PHONE]" \in Placeholders /\ "[PHONE]" \notin K1
      BY <1>0
    <3>. DEFINE emails == Emails(text)
    <3>3. Stage(A, text, emails, K1)
      BY <1>1
    <3>. HIDE DEF emails, K1
    <3>4. Stage(A, text, Numbered(emails, Found(emails.text, "phone"), "[PHONE]"), K2)
      BY <3>2, <3>3, FoundRestores
    <3>. QED
      BY <3>1, <3>4 DEF emails
  <2>2. CASE "PhoneRedaction" \notin on
    BY <1>1, <2>2, StageMore DEF Phones, When
  <2>. QED
    BY <2>1, <2>2
<1>3. Stage(A, text, Finance(text), K4)
  <2>1. CASE "EmailRedaction" \in on
    <3>. DEFINE ibans == RedactIBANs(Phones(text))
    <3>1. Stage(A, text, ibans, K3)
      BY <1>2, IBANsRestore
    <3>2. Finance(text) = Numbered(ibans, Found(ibans.text, "card"), "[CREDIT_CARD]")
      BY <2>1 DEF Finance, Financed, When, RedactCards
    <3>3. "[CREDIT_CARD]" \in Placeholders /\ "[CREDIT_CARD]" \notin K3
      BY <1>0
    <3>. HIDE DEF ibans, K3
    <3>4. Stage(A, text, Numbered(ibans, Found(ibans.text, "card"), "[CREDIT_CARD]"), K4)
      BY <3>1, <3>3, FoundRestores
    <3>. QED
      BY <3>2, <3>4
  <2>2. CASE "EmailRedaction" \notin on
    BY <1>2, <2>2, StageMore DEF Finance, When
  <2>. QED
    BY <2>1, <2>2
<1>4. Stage(A, text, Context(text), K5)
  <2>1. Stage(A, text, RedactPasswords(Finance(text)), K5)
    BY <1>3, PasswordsRestore
  <2>2. Stage(A, text, Finance(text), K5)
    BY <1>3, StageMore
  <2>. QED
    BY <2>1, <2>2 DEF Context, When
<1>5. Stage(A, text, Named(text, presidio), K6)
  <2>1. Stage(A, text, RedactNames(Context(text), presidio), K6)
    BY <1>4, NamesRestore
  <2>2. Stage(A, text, Context(text), K6)
    BY <1>4, StageMore
  <2>. QED
    BY <2>1, <2>2 DEF Named
<1>6. Stage(A, text, Keys(text, presidio), K7)
  <2>. DEFINE named == Named(text, presidio)
  <2>1. Stage(A, text, named, K6)
    BY <1>5
  <2>2. Keys(text, presidio) \in {Numbered(named, Found(named.text, "key"), "[KEY]"), named}
    BY DEF Keys, When, RedactKeys
  <2>. HIDE DEF named
  <2>3. Stage(A, text, Numbered(named, Found(named.text, "key"), "[KEY]"), K7)
    BY <2>1, FoundRestores DEF Placeholders
  <2>4. Stage(A, text, named, K7)
    BY <2>1, StageMore
  <2>. QED
    BY <2>2, <2>3, <2>4
<1>7. Stage(A, text, final, K8)
  <2>1. Stage(A, text, RedactHighEntropy(Keys(text, presidio)), K8)
    BY <1>6, SecretsRestore
  <2>2. Stage(A, text, Keys(text, presidio), K8)
    BY <1>6, StageMore
  <2>. QED
    BY <2>1, <2>2, SanitizePasses DEF When
<1>. QED
  BY <1>7 DEF Stage, Restores

-----------------------------------------------------------------------------
(* A scan that changes nothing *)

\* u is shorter than t, or has placeholders where t has and one more.
After(t, u) ==
    \/ Len(u) < Len(t)
    \/ /\ Len(u) = Len(t)
       /\ \A i \in 1 .. Len(t) : IsPlaceholder(t[i]) => IsPlaceholder(u[i])
       /\ \E i \in 1 .. Len(t) : ~IsPlaceholder(t[i]) /\ IsPlaceholder(u[i])

Reached(t, u) == u = t \/ After(t, u)

LEMMA ReachedTwice ==
    ASSUME NEW A, NEW t \in Seq(A), NEW u \in Seq(A), NEW v \in Seq(A),
           Reached(t, u), Reached(u, v)
    PROVE  Reached(t, v)
<1>1. PICK k \in Nat, l \in Nat, m \in Nat : k = Len(t) /\ l = Len(u) /\ m = Len(v)
  OBVIOUS
<1>2. CASE u = t \/ v = u
  BY <1>2 DEF Reached
<1>3. CASE After(t, u) /\ After(u, v)
  <2>1. CASE l < k \/ m < l
    <3>1. m < k
      BY <1>1, <1>3, <2>1 DEF After
    <3>. QED
      BY <1>1, <3>1 DEF Reached, After
  <2>2. CASE l = k /\ m = l
    BY <1>1, <1>3, <2>2 DEF Reached, After
  <2>. QED
    BY <1>1, <1>3, <2>1, <2>2 DEF After
<1>. QED
  BY <1>2, <1>3 DEF Reached

\* There is no way back.
LEMMA ReachedBack ==
    ASSUME NEW A, NEW t \in Seq(A), NEW u \in Seq(A), Reached(t, u), Reached(u, t)
    PROVE  u = t
<1>1. PICK k \in Nat, l \in Nat : k = Len(t) /\ l = Len(u)
  OBVIOUS
<1>. QED
  BY <1>1 DEF Reached, After

\* A value that is not a placeholder itself.
Replaceable(value) == value # <<>> /\ (Len(value) = 1 => ~IsPlaceholder(value[1]))

LEMMA SubstitutedReaches ==
    ASSUME NEW A, NEW scan, scan.text \in Seq(A), NEW V, NEW value \in Seq(V), Replaceable(value),
           NEW p \in PlaceholderAtoms
    PROVE  /\ Reached(scan.text, Substituted(scan, value, p).text)
           /\ Places(value, scan.text) # {} => After(scan.text, Substituted(scan, value, p).text)
<1>. DEFINE new == Substituted(scan, value, p).text
<1>1. PICK t \in Seq(A) : t = scan.text
  OBVIOUS
<1>2. Places(value, t) = {} => new = t
  BY <1>1 DEF Substituted
<1>3. ASSUME Places(value, t) # {} PROVE After(t, new)
  <2>1. PICK i : StandsAt(value, t, i) /\ PutAt(t, new, i, value, p)
    <3>. DEFINE i == Min(Places(value, t))
    <3>1. value # <<>>
      BY DEF Replaceable
    <3>2. Places(value, t) \in SUBSET Nat
      <4>1. Len(t) \in Nat /\ Len(value) \in Nat
        OBVIOUS
      <4>. QED
        BY <4>1 DEF Places
    <3>3. i \in Places(value, t)
      BY <1>3, <3>2, MinIs
    <3>4. new = ReplaceSubSeqAt(i, <<p>>, value, t)
      BY <1>1, <1>3 DEF Substituted
    <3>. HIDE DEF i, new
    <3>5. StandsAt(value, t, i)
      BY <3>1, <3>3, PlacesAre
    <3>6. PutAt(t, new, i, value, p)
      BY <3>1, <3>4, <3>5, SplicedThere
    <3>. QED
      BY <3>5, <3>6
  <2>. HIDE DEF new
  <2>2. PICK n \in Nat, l \in Nat : n = Len(t) /\ l = Len(value) /\ l >= 1
    BY DEF Replaceable
  <2>3. i \in Nat /\ i >= 1 /\ i + l <= n + 1 /\ Len(new) = n + 1 - l
    BY <2>1, <2>2 DEF StandsAt, PutAt
  <2>4. CASE l > 1
    BY <2>2, <2>3, <2>4 DEF After
  <2>5. CASE l = 1
    <3>1. t[i] = value[1] /\ ~IsPlaceholder(value[1])
      <4>1. t[i + 1 - 1] = value[1]
        BY <2>1, <2>2, <2>5 DEF StandsAt
      <4>2. i + 1 - 1 = i
        BY <2>3
      <4>. QED
        BY <2>2, <2>5, <4>1, <4>2 DEF Replaceable
    <3>2. \A j \in 1 .. n : new[j] = IF j = i THEN p ELSE t[j]
      <4>1. ASSUME NEW j \in 1 .. n PROVE new[j] = IF j = i THEN p ELSE t[j]
        <5>1. j \in 1 .. Len(new) /\ j + l - 1 = j
          BY <2>3, <2>5
        <5>2. new[j] = IF j < i THEN t[j] ELSE IF j = i THEN p ELSE t[j + Len(value) - 1]
          BY <2>1, <5>1 DEF PutAt
        <5>. QED
          BY <2>2, <2>3, <5>1, <5>2
      <4>. QED
        BY <4>1
    <3>3. IsPlaceholder(p)
      BY DEF IsPlaceholder, PlaceholderAtoms
    <3>4. i \in 1 .. n /\ Len(new) = n
      BY <2>3, <2>5
    <3>. QED
      BY <2>2, <3>1, <3>2, <3>3, <3>4 DEF After
  <2>. QED
    BY <2>2, <2>4, <2>5
<1>. QED
  BY <1>1, <1>2, <1>3 DEF Reached

\* From one value to the next.
Reaching(f, values, masks) ==
    \A m \in 1 .. Len(values) :
       \/ f[m] = f[m - 1]
       \/ /\ Replaceable(values[m]) /\ masks[m] \in PlaceholderAtoms
          /\ f[m] = Substituted(f[m - 1], values[m], masks[m])

LEMMA PassReaches ==
    ASSUME NEW A, NEW V, NEW text, NEW values \in Seq(Seq(V)), NEW masks,
           NEW f \in [0 .. Len(values) -> Scans(A, V, text)], Reaching(f, values, masks),
           NEW k \in 0 .. Len(values)
    PROVE  \A m \in k .. Len(values) : Reached(f[k].text, f[m].text)
<1>1. PICK n \in Nat : n = Len(values)
  OBVIOUS
<1>. DEFINE G == {m \in 0 .. n : m >= k => Reached(f[k].text, f[m].text)}
<1>2. \A m \in 0 .. n : f[m].text \in Seq(A)
  BY <1>1 DEF Scans
<1>3. ASSUME NEW m \in 1 .. n PROVE Reached(f[m - 1].text, f[m].text)
  <2>1. m - 1 \in 0 .. n /\ m \in 1 .. Len(values)
    BY <1>1
  <2>2. values[m] \in Seq(V) /\ f[m - 1].text \in Seq(A)
    BY <1>2, <2>1, ElementOfSeq
  <2>3. CASE f[m] = f[m - 1]
    BY <2>3 DEF Reached
  <2>4. CASE /\ Replaceable(values[m]) /\ masks[m] \in PlaceholderAtoms
             /\ f[m] = Substituted(f[m - 1], values[m], masks[m])
    BY <2>2, <2>4, SubstitutedReaches
  <2>. QED
    BY <2>1, <2>3, <2>4 DEF Reaching
<1>4. 0 \in G
  BY <1>1 DEF Reached
<1>5. ASSUME NEW m \in 1 .. n, m - 1 \in G PROVE m \in G
  <2>1. m \in 0 .. n /\ m - 1 \in 0 .. n
    BY <1>1
  <2>2. CASE m = k
    BY <2>1, <2>2 DEF Reached
  <2>3. CASE m - 1 >= k
    <3>1. Reached(f[k].text, f[m - 1].text)
      BY <1>5, <2>3
    <3>2. f[k].text \in Seq(A) /\ f[m - 1].text \in Seq(A) /\ f[m].text \in Seq(A)
      BY <1>1, <1>2, <2>1
    <3>3. Reached(f[k].text, f[m].text)
      BY <1>3, <3>1, <3>2, ReachedTwice
    <3>. QED
      BY <2>1, <3>3
  <2>4. CASE m < k
    BY <1>1, <2>1, <2>4
  <2>. QED
    BY <1>1, <2>2, <2>3, <2>4
<1>6. ASSUME NEW m \in 0 .. n PROVE m \in G
  <2>. HIDE DEF G
  <2>1. m \in Nat /\ \A j \in 1 .. m : j \in 1 .. n
    BY <1>1
  <2>2. \A j \in 1 .. m : j - 1 \in G => j \in G
    BY <1>5, <2>1
  <2>. QED
    BY <1>4, <2>1, <2>2, Climb
<1>. QED
  BY <1>1, <1>6

LEMMA MaskedReaches ==
    ASSUME NEW A, PlaceholderAtoms \subseteq A, NEW text, NEW scan \in Scans(A, A, text),
           NEW values \in Seq(Seq(A)), NEW masks,
           \A i \in 1 .. Len(values) : Replaceable(values[i]) /\ masks[i] \in PlaceholderAtoms
    PROVE  Reached(scan.text, Replaced(scan, values, masks).text)
<1>1. PICK f \in [0 .. Len(values) -> Scans(A, A, text)] : ReplacedThrough(scan, values, masks, f)
  BY ReplacedSteps
<1>2. f[0] = scan /\ f[Len(values)] = Replaced(scan, values, masks)
  BY <1>1 DEF ReplacedThrough
<1>3. Reaching(f, values, masks)
  BY <1>1 DEF ReplacedThrough, Reaching
<1>4. 0 \in 0 .. Len(values) /\ Len(values) \in 0 .. Len(values)
  OBVIOUS
<1>5. Reached(f[0].text, f[Len(values)].text)
  BY <1>3, <1>4, PassReaches
<1>. QED
  BY <1>2, <1>5

LEMMA NumberedReaches ==
    ASSUME NEW A, PlaceholderAtoms \subseteq A, NEW text, NEW scan \in Scans(A, A, text),
           NEW values \in Seq(Seq(A)), \A i \in 1 .. Len(values) : Replaceable(values[i]),
           NEW tag \in Placeholders
    PROVE  Reached(scan.text, Numbered(scan, values, tag).text)
<1>. DEFINE masks == [i \in DOMAIN values |-> Atom(tag, i)]
<1>1. ASSUME NEW i \in 1 .. Len(values) PROVE masks[i] \in PlaceholderAtoms
  <2>1. masks[i] = Atom(tag, i) /\ i \in Nat
    OBVIOUS
  <2>. QED
    BY <2>1, PlaceholderIs
<1>2. Numbered(scan, values, tag) = Replaced(scan, values, masks)
  BY DEF Numbered
<1>. HIDE DEF masks
<1>. QED
  BY <1>1, <1>2, MaskedReaches

\* What a pattern finds is no placeholder.
LEMMA FoundReplaceable ==
    ASSUME NEW A, NEW text \in Seq(A), NEW kind, kind \notin Placeholders
    PROVE  \A i \in 1 .. Len(Found(text, kind)) : Replaceable(Found(text, kind)[i])
<1>. DEFINE values == Found(text, kind)
<1>1. PICK q : FoundAt(text, kind, values, q)
  BY FoundIs
<1>. HIDE DEF values
<1>2. ASSUME NEW i \in 1 .. Len(values) PROVE Replaceable(values[i])
  <2>1. PICK atom : values[i] = <<atom>> /\ atom.kind = kind
    BY <1>1 DEF FoundAt
  <2>. QED
    BY <2>1 DEF Replaceable, IsPlaceholder
<1>. QED
  BY <1>2 DEF values

\* A word that is not bracketed is more than a placeholder.
LEMMA BracketedNot ==
    ASSUME NEW A, NEW value \in Glued(A), ~Bracketed(value)
    PROVE  Replaceable(value)
<1>1. value \in Seq(A) /\ value # <<>>
  BY GluedIs
<1>2. Len(value) = 1 => Last(value) = value[1]
  BY DEF Last
<1>3. Head(value) = value[1]
  BY <1>1
<1>. QED
  BY <1>1, <1>2, <1>3 DEF Bracketed, Replaceable

LEMMA PasswordsReach ==
    ASSUME NEW A, PlaceholderAtoms \subseteq A, NEW text, NEW scan \in Scans(A, A, text)
    PROVE  Reached(scan.text, RedactPasswords(scan).text)
<1>. DEFINE values == Passwords(scan.text)
            n == Len(values)
            masks == [m \in 1 .. n |-> Atom("[PASSWORD_CONTEXT]", m)]
<1>1. scan.text \in Seq(A)
  BY DEF Scans
<1>2. PICK f \in [0 .. n -> Scans(A, A, text)] : PasswordsReplaced(scan, f)
  BY RedactPasswordsSteps
<1>3. values \in Seq(Glued(A)) /\ values \in Seq(Seq(A)) /\ n \in Nat
  BY <1>1, PasswordsGlued, GluedAreTexts
<1>4. /\ f[0] = scan /\ f[n] = RedactPasswords(scan)
      /\ \A m \in 1 .. n : f[m] = IF Bracketed(values[m]) THEN f[m - 1]
                                  ELSE Substituted(f[m - 1], values[m], masks[m])
  BY <1>2 DEF PasswordsReplaced
<1>. HIDE DEF values
<1>5. ASSUME NEW m \in 1 .. n PROVE masks[m] \in PlaceholderAtoms
  BY <1>3, PlaceholderIs DEF Placeholders
<1>6. ASSUME NEW m \in 1 .. n, ~Bracketed(values[m]) PROVE Replaceable(values[m])
  <2>1. values[m] \in Glued(A)
    BY <1>3, ElementOfSeq
  <2>. QED
    BY <1>6, <2>1, BracketedNot
<1>. HIDE DEF masks
<1>7. Reaching(f, values, masks)
  BY <1>4, <1>5, <1>6 DEF Reaching
<1>8. 0 \in 0 .. n /\ n \in 0 .. n
  BY <1>3
<1>9. Reached(f[0].text, f[n].text)
  BY <1>3, <1>7, <1>8, PassReaches
<1>. QED
  BY <1>4, <1>9

LEMMA SecretsReach ==
    ASSUME NEW A, PlaceholderAtoms \subseteq A, NEW text, NEW scan \in Scans(A, A, text)
    PROVE  Reached(scan.text, RedactHighEntropy(scan).text)
<1>. DEFINE words == Fields(scan.text)
            S == {word \in ToSet(words) : IsHighEntropy(word)}
            values == Kept(words, S)
<1>1. scan.text \in Seq(A)
  BY DEF Scans
<1>2. Sheltered(scan.text, A)
  BY <1>1, ElementOfSeq DEF Sheltered
<1>3. values \in Seq(Glued(A))
  BY <1>1, <1>2, SecretsPlaces
<1>4. words \in Seq(Seq(A))
  BY <1>1, FieldsIn
<1>5. RedactHighEntropy(scan) = Numbered(scan, values, "[HIGH_ENTROPY_SECRET]")
  BY DEF RedactHighEntropy
<1>. HIDE DEF words
<1>6. PICK q : KeptAt(words, S, Len(words), values, q)
  BY <1>4, KeptPlaces
<1>. HIDE DEF values
<1>7. ASSUME NEW i \in 1 .. Len(values) PROVE Replaceable(values[i])
  <2>1. values[i] \in Glued(A)
    BY <1>3, ElementOfSeq
  <2>2. ~Bracketed(values[i])
    BY <1>6 DEF KeptAt, IsHighEntropy
  <2>. QED
    BY <2>1, <2>2, BracketedNot
<1>8. values \in Seq(Seq(A)) /\ "[HIGH_ENTROPY_SECRET]" \in Placeholders
  BY <1>3, GluedAreTexts DEF Placeholders
<1>. QED
  BY <1>5, <1>7, <1>8, NumberedReaches

\* The title finds no name that Presidio does not report.
LEMMA NamesAre ==
    ASSUME NEW A, NEW t \in Seq(A), NEW presidio \in BOOLEAN,
           NEW i \in 1 .. Len(Names(t, presidio))
    PROVE  /\ Replaceable(Names(t, presidio)[i])
           /\ \E j \in 1 .. Len(Names(t, TRUE)) : Names(t, TRUE)[j] = Names(t, presidio)[i]
<1>. DEFINE found == Found(t, "name")
            titled == TitledNames(t)
            all == Names(t, TRUE)
            names == Names(t, presidio)
<1>1. found \in Seq(Seq(A)) /\ titled \in Seq(Seq(A))
  BY FoundIs, TitledNamesAre
<1>2. \A k \in 1 .. Len(found) : Replaceable(found[k])
  BY FoundReplaceable DEF Placeholders
<1>3. \A k \in 1 .. Len(titled) : Replaceable(titled[k])
  <2>1. ASSUME NEW k \in 1 .. Len(titled) PROVE Replaceable(titled[k])
    <3>1. PICK atom : titled[k] = <<atom>>
      <4>1. k \in DOMAIN titled
        BY <1>1
      <4>2. \A l \in DOMAIN titled : \E atom : titled[l] = <<atom>>
        BY DEF TitledNames
      <4>. QED
        BY <4>1, <4>2
    <3>2. <<atom>> \in AtomsOf(titled)
      <4>. HIDE DEF titled
      <4>1. k \in DOMAIN titled
        BY <1>1
      <4>. QED
        BY <3>1, <4>1 DEF AtomsOf, ToSet
    <3>3. atom.kind = "name"
      BY <3>2, TitledNamesAre
    <3>. QED
      BY <3>1, <3>3 DEF Replaceable, IsPlaceholder, Placeholders
  <2>. QED
    BY <2>1
<1>4. all = found \o titled /\ (presidio => names = all) /\ (~presidio => names = titled)
  <2>1. <<>> \o titled = titled
    BY <1>1, ConcatEmptySeq
  <2>. QED
    BY <2>1 DEF Names
<1>. HIDE DEF found, titled, all, names
<1>5. PICK l \in Nat, w \in Nat : l = Len(found) /\ w = Len(titled)
  BY <1>1
<1>6. /\ Len(all) = l + w
      /\ \A k \in 1 .. l + w : all[k] = IF k <= l THEN found[k] ELSE titled[k - l]
  BY <1>1, <1>4, <1>5, ConcatProperties
<1>7. ASSUME NEW k \in 1 .. l + w PROVE Replaceable(all[k])
  <2>1. CASE k <= l
    BY <1>2, <1>5, <1>6, <2>1
  <2>2. CASE k > l
    <3>1. k - l \in 1 .. w /\ ~(k <= l)
      BY <2>2
    <3>. QED
      BY <1>3, <1>5, <1>6, <3>1
  <2>. QED
    BY <2>1, <2>2
<1>8. \E j \in 1 .. l + w : all[j] = names[i]
  <2>0. i \in 1 .. Len(names)
    BY DEF names
  <2>1. CASE presidio
    BY <1>4, <1>6, <2>0, <2>1
  <2>2. CASE ~presidio
    <3>1. i \in 1 .. w /\ names[i] = titled[i]
      BY <1>4, <1>5, <2>0, <2>2
    <3>2. l + i \in 1 .. l + w /\ ~(l + i <= l) /\ (l + i) - l = i
      BY <3>1
    <3>. QED
      BY <1>6, <3>1, <3>2
  <2>. QED
    BY <2>1, <2>2
<1>9. Replaceable(names[i])
  BY <1>7, <1>8
<1>. QED
  BY <1>6, <1>8, <1>9 DEF all, names

NameMasks(n) == [m \in 1 .. n |-> Atom("[PERSON_NAME]", m)]

\* The names of a text are replaced where they are found.
NamesPass(f, scan, presidio, values) ==
    /\ f[0] = scan /\ f[Len(values)] = RedactNames(scan, presidio)
    /\ Reaching(f, values, NameMasks(Len(values)))
    /\ \A m \in 1 .. Len(values) :
          IF Places(values[m], f[m - 1].text) # {} THEN After(f[m - 1].text, f[m].text)
          ELSE f[m] = f[m - 1]

LEMMA NamesRow ==
    ASSUME NEW A, PlaceholderAtoms \subseteq A, NEW text, NEW scan \in Scans(A, A, text),
           NEW presidio \in BOOLEAN, NEW values, values = Names(scan.text, presidio)
    PROVE  /\ values \in Seq(Seq(A))
           /\ \E f \in [0 .. Len(values) -> Scans(A, A, text)] : NamesPass(f, scan, presidio, values)
<1>1. scan.text \in Seq(A)
  BY DEF Scans
<1>2. values \in Seq(Seq(A)) /\ Len(values) \in Nat
  BY <1>1, NamesGlued, GluedAreTexts
<1>3. PICK f \in [0 .. Len(values) -> Scans(A, A, text)] : NamesReplaced(scan, presidio, f)
  BY RedactNamesSteps
<1>. DEFINE masks == NameMasks(Len(values))
<1>4. /\ f[0] = scan /\ f[Len(values)] = RedactNames(scan, presidio)
      /\ \A m \in 1 .. Len(values) :
            f[m] = IF Places(values[m], f[m - 1].text) # {}
                   THEN Substituted(f[m - 1], values[m], masks[m]) ELSE f[m - 1]
  BY <1>3 DEF NamesReplaced, NameMasks
<1>5. ASSUME NEW m \in 1 .. Len(values)
      PROVE  /\ values[m] \in Seq(A) /\ Replaceable(values[m])
             /\ masks[m] \in PlaceholderAtoms
             /\ f[m - 1].text \in Seq(A)
  <2>1. Replaceable(values[m])
    BY <1>1, NamesAre
  <2>2. masks[m] \in PlaceholderAtoms
    BY <1>2, PlaceholderIs DEF NameMasks, Placeholders
  <2>3. m - 1 \in 0 .. Len(values)
    BY <1>2
  <2>4. f[m - 1].text \in Seq(A)
    BY <2>3 DEF Scans
  <2>. QED
    BY <1>2, <2>1, <2>2, <2>4, ElementOfSeq
<1>. HIDE DEF masks
<1>6. Reaching(f, values, masks)
  BY <1>4, <1>5 DEF Reaching
<1>7. ASSUME NEW m \in 1 .. Len(values), Places(values[m], f[m - 1].text) # {}
      PROVE  After(f[m - 1].text, f[m].text)
  <2>1. f[m] = Substituted(f[m - 1], values[m], masks[m])
    BY <1>4, <1>7
  <2>2. After(f[m - 1].text, Substituted(f[m - 1], values[m], masks[m]).text)
    BY <1>5, <1>7, SubstitutedReaches
  <2>. QED
    BY <2>1, <2>2
<1>8. NamesPass(f, scan, presidio, values)
  BY <1>4, <1>6, <1>7 DEF NamesPass, masks
<1>. QED
  BY <1>2, <1>8

LEMMA NamesReach ==
    ASSUME NEW A, PlaceholderAtoms \subseteq A, NEW text, NEW scan \in Scans(A, A, text),
           NEW presidio \in BOOLEAN
    PROVE  Reached(scan.text, RedactNames(scan, presidio).text)
<1>1. PICK t \in Seq(A) : t = scan.text
  BY DEF Scans
<1>2. PICK values : values = Names(t, presidio)
  OBVIOUS
<1>3. values \in Seq(Seq(A))
  BY <1>1, <1>2, NamesRow
<1>4. PICK f \in [0 .. Len(values) -> Scans(A, A, text)] : NamesPass(f, scan, presidio, values)
  BY <1>1, <1>2, NamesRow
<1>5. 0 \in 0 .. Len(values) /\ Len(values) \in 0 .. Len(values)
  BY <1>3
<1>6. Reached(f[0].text, f[Len(values)].text)
  BY <1>3, <1>4, <1>5, PassReaches DEF NamesPass
<1>. QED
  BY <1>4, <1>6 DEF NamesPass

\* A scan that finds none of the names Presidio reports finds none by itself.
LEMMA NamesStay ==
    ASSUME NEW A, PlaceholderAtoms \subseteq A, NEW text, NEW scan \in Scans(A, A, text),
           NEW presidio \in BOOLEAN, RedactNames(scan, TRUE).text = scan.text
    PROVE  RedactNames(scan, presidio) = scan
<1>1. PICK t \in Seq(A) : t = scan.text
  BY DEF Scans
<1>2. ~After(t, t)
  <2>1. Len(t) \in Nat
    OBVIOUS
  <2>. QED
    BY <2>1 DEF After
<1>3. PICK all : all = Names(t, TRUE)
  OBVIOUS
<1>4. ASSUME NEW m \in 1 .. Len(all) PROVE Places(all[m], t) = {}
  <2>1. all \in Seq(Seq(A))
    BY <1>1, <1>3, NamesRow
  <2>2. PICK f \in [0 .. Len(all) -> Scans(A, A, text)] : NamesPass(f, scan, TRUE, all)
    BY <1>1, <1>3, NamesRow
  <2>3. PICK n \in Nat : n = Len(all)
    BY <2>1
  <2>4. f[0].text = t /\ f[n].text = t
    BY <1>1, <2>2, <2>3 DEF NamesPass
  <2>5. ASSUME NEW k \in 0 .. n PROVE f[k].text = t
    <3>1. 0 \in 0 .. n /\ n \in k .. n /\ f[k].text \in Seq(A)
      BY <2>3 DEF Scans
    <3>2. Reached(f[0].text, f[k].text) /\ Reached(f[k].text, f[n].text)
      BY <2>1, <2>2, <2>3, <3>1, PassReaches DEF NamesPass
    <3>. QED
      BY <2>4, <3>1, <3>2, ReachedBack
  <2>6. m \in 1 .. n /\ m \in 0 .. n /\ m - 1 \in 0 .. n
    BY <2>3
  <2>7. f[m].text = t /\ f[m - 1].text = t
    BY <2>5, <2>6
  <2>. QED
    BY <1>2, <2>2, <2>7 DEF NamesPass
<1>5. PICK values : values = Names(t, presidio)
  OBVIOUS
<1>6. values \in Seq(Seq(A))
  BY <1>1, <1>5, NamesRow
<1>7. ASSUME NEW m \in 1 .. Len(values) PROVE Places(values[m], t) = {}
  <2>1. \E j \in 1 .. Len(all) : all[j] = values[m]
    BY <1>3, <1>5, NamesAre
  <2>. QED
    BY <1>4, <2>1
<1>8. PICK f \in [0 .. Len(values) -> Scans(A, A, text)] : NamesPass(f, scan, presidio, values)
  BY <1>1, <1>5, NamesRow
<1>. DEFINE G == {m \in 0 .. Len(values) : f[m] = scan}
<1>9. 0 \in G /\ Len(values) \in Nat
  BY <1>6, <1>8 DEF NamesPass
<1>10. ASSUME NEW m \in 1 .. Len(values), m - 1 \in G PROVE m \in G
  <2>1. f[m - 1] = scan
    BY <1>10
  <2>2. Places(values[m], f[m - 1].text) = {}
    BY <1>1, <1>7, <2>1
  <2>3. f[m] = f[m - 1]
    BY <1>8, <2>2 DEF NamesPass
  <2>. QED
    BY <2>1, <2>3
<1>11. Len(values) \in G
  <2>. HIDE DEF G
  <2>. QED
    BY <1>9, <1>10, Climb
<1>. QED
  BY <1>8, <1>11 DEF NamesPass

\* A mask hides nothing that is a placeholder already.
LEMMA MaskReaches ==
    ASSUME NEW A, NEW t \in Seq(A), NEW u \in Seq(A), NEW kinds, kinds \cap Placeholders = {},
           Masked(t, u, kinds)
    PROVE  Reached(t, u)
<1>1. PICK n \in Nat : n = Len(t) /\ n = Len(u)
  BY DEF Masked
<1>2. \A p \in 1 .. n : IF t[p].kind \in kinds THEN u[p] \in PlaceholderAtoms ELSE u[p] = t[p]
  BY <1>1 DEF Masked
<1>3. \A p \in 1 .. n : t[p].kind \in kinds => ~IsPlaceholder(t[p]) /\ IsPlaceholder(u[p])
  BY <1>2 DEF IsPlaceholder, PlaceholderAtoms
<1>4. CASE \E p \in 1 .. n : t[p].kind \in kinds
  <2>1. \A p \in 1 .. n : IsPlaceholder(t[p]) => IsPlaceholder(u[p])
    BY <1>2, <1>3
  <2>. QED
    BY <1>1, <1>3, <1>4, <2>1 DEF Reached, After
<1>5. CASE \A p \in 1 .. n : t[p].kind \notin kinds
  <2>1. \A p \in 1 .. n : u[p] = t[p]
    BY <1>2, <1>5
  <2>2. u = t
    BY <1>1, <2>1, SeqEqual
  <2>. QED
    BY <2>2 DEF Reached
<1>. QED
  BY <1>4, <1>5

\* A text that the scan leaves as it is when Presidio answers is left as it is
\* when it does not.
LEMMA Rescan ==
    ASSUME NEW A, PlaceholderAtoms \subseteq A, NEW text \in Seq(A), NEW presidio \in BOOLEAN,
           Sanitize(text, on, TRUE).text = text
    PROVE  Sanitize(text, on, presidio).text = text
<1>. DEFINE context == Context(text)
            named == Named(text, TRUE)
            keys == Keys(text, TRUE)
            final == Sanitize(text, on, TRUE)
<1>1. Sheltered(text, A)
  BY ElementOfSeq DEF Sheltered
<1>2. Finance(text) \in Scans(A, A, text) /\ Reached(text, Finance(text).text)
  <2>1. Masking(A, A, text, Scan(text), Finance(text), MaskedKinds) /\ Scan(text).text = text
    BY FinanceMasks DEF Scan
  <2>2. Finance(text) \in Scans(A, A, text) /\ Finance(text).text \in Seq(A)
    BY <2>1 DEF Masking, Scans
  <2>3. MaskedKinds \cap Placeholders = {}
    BY DEF MaskedKinds, Placeholders
  <2>4. Masked(text, Finance(text).text, MaskedKinds)
    BY <2>1 DEF Masking
  <2>. QED
    BY <2>2, <2>3, <2>4, MaskReaches
<1>3. context \in Scans(A, A, text) /\ Reached(Finance(text).text, context.text)
  <2>1. context \in {Finance(text), RedactPasswords(Finance(text))}
    BY DEF Context, When
  <2>2. RedactPasswords(Finance(text)) \in Scans(A, A, text)
    BY <1>2, RedactPasswordsIn
  <2>3. Reached(Finance(text).text, RedactPasswords(Finance(text)).text)
    BY <1>2, PasswordsReach
  <2>. HIDE DEF context
  <2>. QED
    BY <1>2, <2>1, <2>2, <2>3 DEF Reached
<1>. HIDE DEF context
<1>4. named \in Scans(A, A, text) /\ Reached(context.text, named.text)
  <2>1. named \in {context, RedactNames(context, TRUE)}
    BY DEF Named, context
  <2>2. RedactNames(context, TRUE) \in Scans(A, A, text)
    BY <1>3, RedactNamesIn
  <2>3. Reached(context.text, RedactNames(context, TRUE).text)
    BY <1>3, NamesReach
  <2>. HIDE DEF named
  <2>. QED
    BY <1>3, <2>1, <2>2, <2>3 DEF Reached
<1>. HIDE DEF named
<1>5. keys \in Scans(A, A, text) /\ Reached(named.text, keys.text)
  <2>1. keys \in {named, Numbered(named, Found(named.text, "key"), "[KEY]")}
    BY DEF Keys, When, RedactKeys, named
  <2>2. "key" \notin Placeholders /\ "[KEY]" \in Placeholders /\ {"key"} \cap Placeholders = {}
    BY DEF Placeholders
  <2>3. Masking(A, A, text, named, Numbered(named, Found(named.text, "key"), "[KEY]"), {"key"})
    BY <1>4, <2>2, NumberedMasks
  <2>. HIDE DEF keys
  <2>4. CASE keys = named
    BY <1>4, <2>4 DEF Reached
  <2>5. CASE keys = Numbered(named, Found(named.text, "key"), "[KEY]")
    <3>1. keys \in Scans(A, A, text) /\ Masked(named.text, keys.text, {"key"})
      BY <2>3, <2>5 DEF Masking
    <3>2. named.text \in Seq(A) /\ keys.text \in Seq(A)
      BY <1>4, <3>1 DEF Scans
    <3>. QED
      BY <2>2, <3>1, <3>2, MaskReaches
  <2>. QED
    BY <2>1, <2>4, <2>5
<1>. HIDE DEF keys
<1>6. final \in Scans(A, A, text) /\ Reached(keys.text, final.text)
  <2>1. final \in {keys, RedactHighEntropy(keys)}
    BY SanitizePasses DEF When, keys
  <2>2. RedactHighEntropy(keys) \in Scans(A, A, text)
    BY <1>5, RedactHighEntropyIn
  <2>3. Reached(keys.text, RedactHighEntropy(keys).text)
    BY <1>5, SecretsReach
  <2>. HIDE DEF final
  <2>. QED
    BY <1>5, <2>1, <2>2, <2>3 DEF Reached
<1>7. PICK a \in Seq(A), b \in Seq(A), c \in Seq(A), d \in Seq(A) :
         a = Finance(text).text /\ b = context.text /\ c = named.text /\ d = keys.text
  BY <1>2, <1>3, <1>4, <1>5 DEF Scans
<1>8. Reached(text, a) /\ Reached(a, b) /\ Reached(b, c) /\ Reached(c, d) /\ Reached(d, text)
  BY <1>2, <1>3, <1>4, <1>5, <1>6, <1>7
<1>9. b = c
  <2>1. Reached(c, text)
    BY <1>8, ReachedTwice
  <2>2. Reached(c, a)
    BY <1>8, <2>1, ReachedTwice
  <2>3. Reached(c, b)
    BY <1>8, <2>2, ReachedTwice
  <2>. QED
    BY <1>8, <2>3, ReachedBack
<1>10. Named(text, presidio) = named
  <2>1. CASE "NerEnabled" \in on
    <3>1. named = RedactNames(context, TRUE) /\ Named(text, presidio) = RedactNames(context, presidio)
      BY <2>1 DEF Named, named, context
    <3>2. RedactNames(context, TRUE).text = context.text
      BY <1>7, <1>9, <3>1
    <3>3. RedactNames(context, presidio) = context /\ RedactNames(context, TRUE) = context
      BY <1>3, <3>2, NamesStay
    <3>. QED
      BY <3>1, <3>3
  <2>2. CASE "NerEnabled" \notin on
    BY <2>2 DEF Named, named
  <2>. QED
    BY <2>1, <2>2
<1>11. Keys(text, presidio) = keys
  BY <1>10 DEF Keys, keys, named
<1>12. Sanitize(text, on, presidio) = final
  BY <1>11, SanitizePasses DEF keys
<1>. QED
  BY <1>12

-----------------------------------------------------------------------------
(* The requests *)

\* The atoms of the request's own prompt, and the placeholders.
Own(r) == AtomsOf(prompt[r]) \cup PlaceholderAtoms

\* Those, and the atoms of the provider's answer.
Read(r) == Own(r) \cup AtomsOf(reply[r])

\* What the scan of the answer lets through, and what rehydration adds to it.
Admitted(r) == {atom \in Read(r) : atom.kind \in SearchedKinds => atom \in Own(r)}

Steady ==
    /\ DOMAIN pc = Requests /\ DOMAIN mapping = Requests /\ DOMAIN body = Requests
    /\ DOMAIN reply = Requests /\ DOMAIN answer = Requests /\ DOMAIN vault = Requests
    /\ streamed \in [Requests -> BOOLEAN]

PromptInv(r) == prompt[r] \in Seq(Own(r))

\* Nothing is in the vault of a request but its own values.
VaultInv(r) == mapping[r] \in Mappings(Own(r)) /\ vault[r] \in Mappings(Own(r))

\* No secret stands out in the body, and no password or name that stood once.
Hidden(r) ==
    /\ NoSecretStandsOut(body[r], prompt[r])
    /\ AtomsOf(body[r]) \cap SearchedInContext(prompt[r]) = {}

BodyInv(r) ==
    /\ body[r] \in Seq(Own(r))
    /\ pc[r] # "sanitize" => body[r] \in Seq(Unsearched(Own(r))) /\ Hidden(r)

AnswerInv(r) ==
    /\ reply[r] \in Seq(AtomsOf(reply[r]))
    /\ answer[r] \in Seq(Read(r))
    /\ "OutputControl" \in on /\ ~streamed[r] => answer[r] \in Seq(Admitted(r))

RequestInv(r) == PromptInv(r) /\ VaultInv(r) /\ BodyInv(r) /\ AnswerInv(r)

IInv == Steady /\ \A r \in Requests : RequestInv(r)

LEMMA MappingsOverMore ==
    ASSUME NEW V, NEW W, V \subseteq W, NEW m \in Mappings(V)
    PROVE  m \in Mappings(W)
<1>1. Seq(V) \subseteq Seq(W)
  BY SeqMonotonic
<1>2. m \in [DOMAIN m -> Seq(W)]
  BY <1>1, MappingIs
<1>. QED
  BY <1>2, MappingIs, IsMapping

LEMMA NothingIsText ==
    ASSUME NEW X
    PROVE  Nothing \in Seq(X) /\ Nothing \in Mappings(X)
BY EmptyMapping DEF Nothing

LEMMA SetsAre ==
    ASSUME NEW r
    PROVE  /\ PlaceholderAtoms \subseteq Own(r) /\ Own(r) \subseteq Read(r)
           /\ Own(r) \subseteq Admitted(r) /\ Admitted(r) \subseteq Read(r)
           /\ PlaceholderAtoms \subseteq Read(r)
           /\ Unsearched(Own(r)) \subseteq Own(r) /\ Unsearched(Read(r)) \subseteq Admitted(r)
           /\ AtomsOf(reply[r]) \subseteq Read(r)
BY DEF Own, Read, Admitted, Unsearched

\* No prompt and no switch changes.
LEMMA Fixed ==
    ASSUME UNCHANGED <<on, prompt>>
    PROVE  /\ Requests' = Requests /\ SearchedKinds' = SearchedKinds
           /\ \A q : Own(q)' = Own(q)
           /\ \A q : Unsearched(Own(q))' = Unsearched(Own(q))
           /\ \A q : reply'[q] = reply[q] => Read(q)' = Read(q)
           /\ \A q : reply'[q] = reply[q] => Admitted(q)' = Admitted(q)
           /\ \A q : body'[q] = body[q] /\ Hidden(q) => Hidden(q)'
<1>1. Requests' = Requests
  BY DEF Requests
<1>2. SearchedKinds' = SearchedKinds
  BY DEF SearchedKinds
<1>3. \A q : Own(q)' = Own(q)
  BY DEF Own
<1>4. \A q : Unsearched(Own(q))' = Unsearched(Own(q))
  BY <1>2, <1>3 DEF Unsearched
<1>5. \A q : reply'[q] = reply[q] => Read(q)' = Read(q)
  BY <1>3 DEF Read
<1>6. \A q : reply'[q] = reply[q] => Admitted(q)' = Admitted(q)
  BY <1>2, <1>3, <1>5 DEF Admitted
<1>7. ASSUME NEW q, body'[q] = body[q], Hidden(q) PROVE Hidden(q)'
  <2>1. SearchedInContext(prompt[q])' = SearchedInContext(prompt[q])
    BY <1>2 DEF SearchedInContext, Enclosed
  <2>2. NoSecretStandsOut(body[q], prompt[q])'
    BY <1>7 DEF Hidden, NoSecretStandsOut
  <2>. QED
    BY <1>7, <2>1, <2>2 DEF Hidden
<1>. QED
  BY <1>1, <1>2, <1>3, <1>4, <1>5, <1>6, <1>7

\* A step leaves the requests alone that it does not belong to.
Untouched(q) ==
    /\ pc'[q] = pc[q] /\ mapping'[q] = mapping[q] /\ body'[q] = body[q]
    /\ reply'[q] = reply[q] /\ answer'[q] = answer[q] /\ vault'[q] = vault[q]
    /\ streamed'[q] = streamed[q]

LEMMA UntouchedKeeps ==
    ASSUME UNCHANGED <<on, prompt>>, NEW q, RequestInv(q), Untouched(q)
    PROVE  RequestInv(q)'
<1>. USE Fixed DEF Untouched, RequestInv
<1>1. PromptInv(q)'
  BY DEF PromptInv
<1>2. VaultInv(q)'
  BY DEF VaultInv
<1>3. BodyInv(q)'
  BY DEF BodyInv
<1>4. AnswerInv(q)'
  BY DEF AnswerInv
<1>. QED
  BY <1>1, <1>2, <1>3, <1>4

LEMMA InitIInv == Init => IInv
<1>. SUFFICES ASSUME Init PROVE IInv
  OBVIOUS
<1>1. Steady
  BY DEF Init, Steady
<1>2. ASSUME NEW r \in Requests PROVE RequestInv(r)
  <2>1. /\ mapping[r] = Nothing /\ body[r] = Nothing /\ reply[r] = Nothing
        /\ answer[r] = Nothing /\ vault[r] = Nothing /\ pc[r] = "sanitize"
    BY DEF Init
  <2>2. PromptInv(r)
    <3>1. prompt[r] \in Texts
      BY VaultAssumption DEF Init, Requests
    <3>2. prompt[r] \in Seq(AtomsOf(prompt[r]))
      BY <3>1, OverItsAtoms DEF Texts
    <3>3. AtomsOf(prompt[r]) \subseteq Own(r)
      BY DEF Own
    <3>. QED
      BY <3>2, <3>3, SeqMonotonic DEF PromptInv
  <2>3. VaultInv(r)
    BY <2>1, NothingIsText DEF VaultInv
  <2>4. BodyInv(r)
    BY <2>1, NothingIsText DEF BodyInv
  <2>5. AnswerInv(r)
    BY <2>1, NothingIsText DEF AnswerInv
  <2>. QED
    BY <2>2, <2>3, <2>4, <2>5 DEF RequestInv
<1>. QED
  BY <1>1, <1>2 DEF IInv

LEMMA SanitizeKeeps ==
    ASSUME IInv, NEW r \in Requests, SanitizeRequest(r)
    PROVE  IInv'
<1>1. PICK presidio \in {TRUE} \cup {"presidio" \notin Failures} :
         LET scan == Sanitize(prompt[r], on, presidio)
         IN  /\ mapping' = [mapping EXCEPT ![r] = scan.mapping]
             /\ body' = [body EXCEPT ![r] = IF scan.mapping # Nothing THEN scan.text
                                            ELSE prompt[r]]
  BY DEF SanitizeRequest
<1>. DEFINE scan == Sanitize(prompt[r], on, presidio)
<1>2. /\ pc' = [pc EXCEPT ![r] = "store"]
      /\ UNCHANGED <<on, prompt, reply, answer, vault, streamed>>
  BY DEF SanitizeRequest, Goto
<1>3. Steady /\ RequestInv(r)
  BY DEF IInv
<1>4. scan \in Scans(Unsearched(Own(r)), Own(r), prompt[r])
  BY <1>3, SetsAre, SanitizeIn DEF RequestInv, PromptInv
<1>5. /\ mapping' = [mapping EXCEPT ![r] = scan.mapping]
      /\ body' = [body EXCEPT ![r] = IF scan.mapping # Nothing THEN scan.text ELSE prompt[r]]
  BY <1>1
<1>. HIDE DEF scan
<1>6. body' = [body EXCEPT ![r] = scan.text]
  BY <1>4, <1>5 DEF Scans, Nothing
<1>7. scan.text \in Seq(Unsearched(Own(r))) /\ scan.mapping \in Mappings(Own(r))
  BY <1>4 DEF Scans
<1>8. scan.text \in Seq(Own(r))
  BY <1>7, SetsAre, SeqMonotonic
<1>9. Steady'
  BY <1>2, <1>3, <1>5, <1>6, Fixed DEF Steady
<1>10. body'[r] = scan.text /\ mapping'[r] = scan.mapping
  BY <1>3, <1>5, <1>6 DEF Steady
<1>11. PromptInv(r)'
  BY <1>2, <1>3, Fixed DEF RequestInv, PromptInv
<1>12. VaultInv(r)'
  BY <1>2, <1>3, <1>7, <1>10, Fixed DEF RequestInv, VaultInv
<1>13. BodyInv(r)'
  <2>1. presidio \in BOOLEAN /\ PlaceholderAtoms \subseteq Own(r) /\ prompt[r] \in Seq(Own(r))
    BY <1>3, SetsAre DEF RequestInv, PromptInv
  <2>2. NoSecretStandsOut(scan.text, prompt[r])
    BY <2>1, SecretsKept DEF scan
  <2>3. AtomsOf(scan.text) \cap SearchedInContext(prompt[r]) = {}
    BY <2>1, ContextKept DEF scan
  <2>4. NoSecretStandsOut(body[r], prompt[r])'
    BY <1>2, <1>10, <2>2 DEF NoSecretStandsOut
  <2>5. SearchedInContext(prompt[r])' = SearchedInContext(prompt[r])
    BY <1>2, Fixed DEF SearchedInContext, Enclosed
  <2>6. Hidden(r)'
    BY <1>10, <2>3, <2>4, <2>5 DEF Hidden
  <2>. QED
    BY <1>2, <1>7, <1>8, <1>10, <2>6, Fixed DEF BodyInv
<1>14. AnswerInv(r)'
  BY <1>2, <1>3, Fixed DEF RequestInv, AnswerInv
<1>15. ASSUME NEW q \in Requests, q # r PROVE RequestInv(q)'
  <2>1. RequestInv(q)
    BY DEF IInv
  <2>2. Untouched(q)
    BY <1>2, <1>3, <1>5, <1>6, <1>15 DEF Untouched, Steady
  <2>. QED
    BY <1>2, <2>1, <2>2, UntouchedKeeps
<1>16. RequestInv(r)'
  BY <1>11, <1>12, <1>13, <1>14 DEF RequestInv
<1>. QED
  BY <1>2, <1>9, <1>15, <1>16, Fixed DEF IInv

LEMMA SetVaultKeeps ==
    ASSUME IInv, NEW r \in Requests, SetVault(r)
    PROVE  IInv'
<1>1. /\ pc[r] = "store" /\ pc' = [pc EXCEPT ![r] = "await"]
      /\ UNCHANGED <<on, prompt, mapping, body, reply, answer, streamed>>
  BY DEF SetVault, Goto
<1>2. Steady /\ RequestInv(r)
  BY DEF IInv
<1>3. \/ vault' = [vault EXCEPT ![r] = Updated(vault[r], mapping[r])]
      \/ vault' = vault
  BY DEF SetVault, VaultKey
<1>4. Updated(vault[r], mapping[r]) \in Mappings(Own(r))
  BY <1>2, UpdatedIs DEF RequestInv, VaultInv
<1>5. DOMAIN vault' = Requests /\ vault'[r] \in {vault[r], Updated(vault[r], mapping[r])}
  BY <1>2, <1>3 DEF Steady
<1>6. Steady'
  BY <1>1, <1>2, <1>5, Fixed DEF Steady
<1>7. PromptInv(r)'
  BY <1>1, <1>2, Fixed DEF RequestInv, PromptInv
<1>8. VaultInv(r)'
  BY <1>1, <1>2, <1>4, <1>5, Fixed DEF RequestInv, VaultInv
<1>9. BodyInv(r)'
  BY <1>1, <1>2, Fixed DEF RequestInv, BodyInv
<1>10. AnswerInv(r)'
  BY <1>1, <1>2, Fixed DEF RequestInv, AnswerInv
<1>11. ASSUME NEW q \in Requests, q # r PROVE RequestInv(q)'
  <2>1. RequestInv(q)
    BY DEF IInv
  <2>2. Untouched(q)
    BY <1>1, <1>2, <1>3, <1>11 DEF Untouched, Steady
  <2>. QED
    BY <1>1, <2>1, <2>2, UntouchedKeeps
<1>12. RequestInv(r)'
  BY <1>7, <1>8, <1>9, <1>10 DEF RequestInv
<1>. QED
  BY <1>1, <1>6, <1>11, <1>12, Fixed DEF IInv

\* What the scan of an answer lets through.
LEMMA ScannedIs ==
    ASSUME NEW A, PlaceholderAtoms \subseteq A, NEW text \in Seq(A), NEW presidio \in BOOLEAN
    PROVE  /\ Scanned(text, presidio) \in Seq(A)
           /\ "OutputControl" \in on => Scanned(text, presidio) \in Seq(Unsearched(A))
<1>1. Sanitize(text, on, presidio) \in Scans(Unsearched(A), A, text)
  BY SanitizeIn
<1>2. Sanitize(text, on, presidio).text \in Seq(Unsearched(A))
  BY <1>1 DEF Scans
<1>3. Unsearched(A) \subseteq A
  BY DEF Unsearched
<1>4. Sanitize(text, on, presidio).text \in Seq(A)
  BY <1>2, <1>3, SeqMonotonic
<1>. QED
  BY <1>2, <1>4 DEF Scanned

LEMMA ForwardKeeps ==
    ASSUME IInv, NEW r \in Requests, ForwardToProvider(r)
    PROVE  IInv'
<1>1. PICK text \in {body[r]} \cup Replies, presidio \in {TRUE} \cup {"presidio" \notin Failures} :
         /\ reply' = [reply EXCEPT ![r] = text]
         /\ \/ /\ pc' = [pc EXCEPT ![r] = "rehydrate"]
               /\ answer' = [answer EXCEPT ![r] = Scanned(text, presidio)]
               /\ UNCHANGED streamed
            \/ /\ pc' = [pc EXCEPT ![r] = "done"]
               /\ answer' = [answer EXCEPT ![r] = text]
               /\ streamed' = [streamed EXCEPT ![r] = TRUE]
  BY DEF ForwardToProvider, Goto
<1>2. pc[r] = "await" /\ UNCHANGED <<on, prompt, mapping, body, vault>>
  BY DEF ForwardToProvider, Goto
<1>3. Steady /\ RequestInv(r)
  BY DEF IInv
<1>. DEFINE A == Own(r) \cup AtomsOf(text)
<1>4. text \in Seq(AtomsOf(text))
  <2>1. body[r] \in Seq(Own(r))
    BY <1>3 DEF RequestInv, BodyInv
  <2>2. CASE text = body[r]
    BY <2>1, <2>2, OverItsAtoms
  <2>3. CASE text \in Replies
    BY <2>3, VaultAssumption, OverItsAtoms DEF Texts
  <2>. QED
    BY <2>2, <2>3
<1>5. PlaceholderAtoms \subseteq A /\ AtomsOf(text) \subseteq A /\ Own(r) \subseteq A
  BY SetsAre
<1>6. text \in Seq(A)
  BY <1>4, <1>5, SeqMonotonic
<1>7. reply'[r] = text /\ Read(r)' = A
  BY <1>1, <1>2, <1>3, Fixed DEF Steady, Read
<1>8. Unsearched(A) \subseteq Admitted(r)'
  BY <1>2, <1>7, Fixed DEF Unsearched, Admitted
<1>. HIDE DEF A
<1>9. /\ Scanned(text, presidio) \in Seq(A)
      /\ "OutputControl" \in on => Scanned(text, presidio) \in Seq(Unsearched(A))
  BY <1>5, <1>6, ScannedIs
<1>10. "OutputControl" \in on => Scanned(text, presidio) \in Seq(Admitted(r)')
  BY <1>8, <1>9, SeqMonotonic
<1>11. /\ answer'[r] \in Seq(A)
       /\ "OutputControl" \in on /\ ~streamed'[r] => answer'[r] \in Seq(Admitted(r)')
  BY <1>1, <1>3, <1>6, <1>9, <1>10 DEF Steady
<1>12. Steady'
  <2>1. DOMAIN pc' = Requests /\ DOMAIN reply' = Requests /\ DOMAIN answer' = Requests
    BY <1>1, <1>3 DEF Steady
  <2>2. streamed' \in [Requests -> BOOLEAN]
    <3>1. streamed \in [Requests -> BOOLEAN]
      BY <1>3 DEF Steady
    <3>2. streamed' = streamed \/ streamed' = [streamed EXCEPT ![r] = TRUE]
      BY <1>1
    <3>. QED
      BY <3>1, <3>2
  <2>. QED
    BY <1>2, <1>3, <2>1, <2>2, Fixed DEF Steady
<1>13. pc'[r] # "sanitize"
  BY <1>1, <1>3 DEF Steady
<1>14. PromptInv(r)'
  BY <1>2, <1>3, Fixed DEF RequestInv, PromptInv
<1>15. VaultInv(r)'
  BY <1>2, <1>3, Fixed DEF RequestInv, VaultInv
<1>16. BodyInv(r)'
  BY <1>2, <1>3, <1>13, Fixed DEF RequestInv, BodyInv
<1>17. AnswerInv(r)'
  BY <1>2, <1>4, <1>7, <1>11 DEF AnswerInv
<1>18. ASSUME NEW q \in Requests, q # r PROVE RequestInv(q)'
  <2>1. RequestInv(q)
    BY DEF IInv
  <2>2. Untouched(q)
    BY <1>1, <1>2, <1>3, <1>18 DEF Untouched, Steady
  <2>. QED
    BY <1>2, <2>1, <2>2, UntouchedKeeps
<1>19. RequestInv(r)'
  BY <1>14, <1>15, <1>16, <1>17 DEF RequestInv
<1>. QED
  BY <1>2, <1>12, <1>18, <1>19, Fixed DEF IInv

LEMMA FailKeeps ==
    ASSUME IInv, NEW r \in Requests, ProviderFails(r)
    PROVE  IInv'
<1>1. /\ pc[r] = "await" /\ pc' = [pc EXCEPT ![r] = "failed"]
      /\ UNCHANGED <<on, prompt, mapping, body, reply, answer, vault, streamed>>
  BY DEF ProviderFails, Goto
<1>2. Steady /\ RequestInv(r)
  BY DEF IInv
<1>3. Steady'
  BY <1>1, <1>2, Fixed DEF Steady
<1>4. PromptInv(r)'
  BY <1>1, <1>2, Fixed DEF RequestInv, PromptInv
<1>5. VaultInv(r)'
  BY <1>1, <1>2, Fixed DEF RequestInv, VaultInv
<1>6. BodyInv(r)'
  BY <1>1, <1>2, Fixed DEF RequestInv, BodyInv
<1>7. AnswerInv(r)'
  BY <1>1, <1>2, Fixed DEF RequestInv, AnswerInv
<1>8. ASSUME NEW q \in Requests, q # r PROVE RequestInv(q)'
  <2>1. RequestInv(q)
    BY DEF IInv
  <2>2. Untouched(q)
    BY <1>1, <1>2, <1>8 DEF Untouched, Steady
  <2>. QED
    BY <1>1, <2>1, <2>2, UntouchedKeeps
<1>9. RequestInv(r)'
  BY <1>4, <1>5, <1>6, <1>7 DEF RequestInv
<1>. QED
  BY <1>1, <1>3, <1>8, <1>9, Fixed DEF IInv

LEMMA RehydrateKeeps ==
    ASSUME IInv, NEW r \in Requests, RehydrateAnswer(r)
    PROVE  IInv'
<1>1. /\ pc[r] = "rehydrate" /\ pc' = [pc EXCEPT ![r] = "done"]
      /\ UNCHANGED <<on, prompt, mapping, body, reply, vault, streamed>>
  BY DEF RehydrateAnswer, Goto
<1>2. Steady /\ RequestInv(r)
  BY DEF IInv
<1>3. \/ answer' = answer
      \/ \E order \in SetToSeqs(DOMAIN vault[r]) :
            answer' = [answer EXCEPT ![r] = Rehydrate(answer[r], vault[r], order)]
  BY DEF RehydrateAnswer, VaultKey
<1>4. DOMAIN answer' = Requests /\ \A q \in Requests : q # r => answer'[q] = answer[q]
  BY <1>2, <1>3 DEF Steady
<1>5. ASSUME NEW B, Own(r) \subseteq B, answer[r] \in Seq(B)
      PROVE  answer'[r] \in Seq(B)
  <2>1. CASE answer' = answer
    BY <1>5, <2>1
  <2>2. ASSUME NEW order \in SetToSeqs(DOMAIN vault[r]),
               answer' = [answer EXCEPT ![r] = Rehydrate(answer[r], vault[r], order)]
        PROVE  answer'[r] \in Seq(B)
    <3>1. vault[r] \in Mappings(B)
      BY <1>2, <1>5, MappingsOverMore DEF RequestInv, VaultInv
    <3>2. order \in Seq(DOMAIN vault[r])
      BY <3>1, MappingIs, OrdersAre
    <3>3. Rehydrate(answer[r], vault[r], order) \in Seq(B)
      BY <1>5, <3>1, <3>2, RehydrateIn
    <3>. QED
      BY <1>2, <2>2, <3>3 DEF Steady
  <2>. QED
    BY <1>3, <2>1, <2>2
<1>6. answer'[r] \in Seq(Read(r))
  BY <1>2, <1>5, SetsAre DEF RequestInv, AnswerInv
<1>7. "OutputControl" \in on /\ ~streamed[r] => answer'[r] \in Seq(Admitted(r))
  BY <1>2, <1>5, SetsAre DEF RequestInv, AnswerInv
<1>8. Steady'
  BY <1>1, <1>2, <1>4, Fixed DEF Steady
<1>9. PromptInv(r)'
  BY <1>1, <1>2, Fixed DEF RequestInv, PromptInv
<1>10. VaultInv(r)'
  BY <1>1, <1>2, Fixed DEF RequestInv, VaultInv
<1>11. BodyInv(r)'
  BY <1>1, <1>2, Fixed DEF RequestInv, BodyInv
<1>12. AnswerInv(r)'
  BY <1>1, <1>2, <1>6, <1>7, Fixed DEF RequestInv, AnswerInv
<1>13. ASSUME NEW q \in Requests, q # r PROVE RequestInv(q)'
  <2>1. RequestInv(q)
    BY DEF IInv
  <2>2. Untouched(q)
    BY <1>1, <1>2, <1>4, <1>13 DEF Untouched, Steady
  <2>. QED
    BY <1>1, <2>1, <2>2, UntouchedKeeps
<1>14. RequestInv(r)'
  BY <1>9, <1>10, <1>11, <1>12 DEF RequestInv
<1>. QED
  BY <1>1, <1>8, <1>13, <1>14, Fixed DEF IInv

LEMMA StepIInv == IInv /\ [Next]_vars => IInv'
<1>. SUFFICES ASSUME IInv, [Next]_vars PROVE IInv'
  OBVIOUS
<1>1. ASSUME NEW r \in Requests, SanitizeRequest(r) PROVE IInv'
  BY <1>1, SanitizeKeeps
<1>2. ASSUME NEW r \in Requests, SetVault(r) PROVE IInv'
  BY <1>2, SetVaultKeeps
<1>3. ASSUME NEW r \in Requests, ForwardToProvider(r) PROVE IInv'
  BY <1>3, ForwardKeeps
<1>4. ASSUME NEW r \in Requests, ProviderFails(r) PROVE IInv'
  BY <1>4, FailKeeps
<1>5. ASSUME NEW r \in Requests, RehydrateAnswer(r) PROVE IInv'
  BY <1>5, RehydrateKeeps
<1>6. CASE UNCHANGED vars
  <2>1. UNCHANGED <<on, prompt>> /\ Steady' /\ \A q \in Requests : Untouched(q)
    BY <1>6 DEF vars, IInv, Steady, Requests, Untouched
  <2>2. \A q \in Requests : RequestInv(q)'
    BY <2>1, UntouchedKeeps DEF IInv
  <2>. QED
    BY <2>1, <2>2, Fixed DEF IInv
<1>. QED
  BY <1>1, <1>2, <1>3, <1>4, <1>5, <1>6 DEF Next

\* The texts and the vault of a request hold its own values and what the
\* provider said, and nothing the patterns match once it was scanned.
THEOREM Invariance == Spec => []IInv
<1>. QED
  BY InitIInv, StepIInv, PTL DEF Spec

\* The client reads its own values and the provider's: the vaults of two
\* requests are two hashes (cache/redis.go, handler.go:267, 483-492).
THEOREM OwnValues == Spec => []OwnValuesOnly
<1>1. IInv => OwnValuesOnly
  <2>. SUFFICES ASSUME IInv, NEW r \in Requests, NEW atom \in AtomsOf(answer[r]),
                       atom.kind \in Values
                PROVE  atom \in AtomsOf(prompt[r]) \cup AtomsOf(reply[r])
    BY DEF OwnValuesOnly
  <2>1. answer[r] \in Seq(Read(r))
    BY DEF IInv, RequestInv, AnswerInv
  <2>2. atom \in Read(r)
    BY <2>1, AtomsAre
  <2>3. atom \notin PlaceholderAtoms
    BY DEF PlaceholderAtoms, Placeholders, Values
  <2>. QED
    BY <2>2, <2>3 DEF Read, Own
<1>. QED
  BY <1>1, Invariance, PTL

\* With output control, what the patterns match in an answer that is not
\* streamed came from the prompt (handler.go:418-421, 455-479).
THEOREM GeneratedLeaksCaught == Spec => []GeneratedLeaksAreCaught
<1>1. IInv => GeneratedLeaksAreCaught
  <2>. SUFFICES ASSUME IInv, NEW r \in Requests, "OutputControl" \in on, ~streamed[r],
                       NEW atom \in AtomsOf(answer[r]), atom.kind \in SearchedKinds
                PROVE  atom \in AtomsOf(prompt[r])
    BY DEF GeneratedLeaksAreCaught
  <2>1. answer[r] \in Seq(Admitted(r))
    BY DEF IInv, RequestInv, AnswerInv
  <2>2. atom \in Own(r)
    BY <2>1, AtomsAre DEF Admitted
  <2>3. atom \notin PlaceholderAtoms
    BY DEF PlaceholderAtoms, Placeholders, SearchedKinds
  <2>. QED
    BY <2>2, <2>3 DEF Own
<1>. QED
  BY <1>1, Invariance, PTL

\* Of what the switches of the policy ask for, no email, IBAN, card number,
\* phone number or key is in the body that goes out, wherever and however often
\* it stood in the prompt, no secret but inside a word, and no password or name
\* that stood once (sanitizer.go:62-233, handler.go:257-261).
THEOREM NothingFound == Spec => []NothingFoundLeaves
<1>1. IInv => NothingFoundLeaves
  <2>. SUFFICES ASSUME IInv, NEW r \in Requests, pc[r] = "await"
                PROVE  NoPatternMatches(body[r]) /\ Hidden(r)
    BY DEF NothingFoundLeaves, Hidden
  <2>1. body[r] \in Seq(Unsearched(Own(r))) /\ Hidden(r)
    BY DEF IInv, RequestInv, BodyInv
  <2>. QED
    BY <2>1, AtomsAre DEF NoPatternMatches, Unsearched
<1>. QED
  BY <1>1, Invariance, PTL
-----------------------------------------------------------------------------
(* What comes back *)

OneIBAN(text) == Cardinality({atom \in AtomsOf(text) : atom.kind = "iban"}) <= 1

\* A set of at most one element has no two.
LEMMA AtMostOne ==
    ASSUME NEW S, IsFiniteSet(S), Cardinality(S) <= 1, NEW a \in S, NEW b \in S
    PROVE  a = b
<1>. SUFFICES ASSUME a # b PROVE FALSE
  OBVIOUS
<1>1. IsFiniteSet({a}) /\ Cardinality({a}) = 1
  BY FS_Singleton
<1>2. IsFiniteSet({a} \cup {b}) /\ Cardinality({a} \cup {b}) = Cardinality({a}) + 1
  BY <1>1, FS_AddElement
<1>3. {a} \cup {b} \subseteq S
  OBVIOUS
<1>4. Cardinality({a} \cup {b}) <= Cardinality(S) /\ Cardinality(S) \in Nat
  BY <1>3, FS_Subset, FS_CardinalityType
<1>. QED
  BY <1>1, <1>2, <1>4

LEMMA AtomsFinite ==
    ASSUME NEW X, NEW text \in Seq(X)
    PROVE  IsFiniteSet(AtomsOf(text))
<1>1. Len(text) \in Nat /\ DOMAIN text = 1 .. Len(text)
  OBVIOUS
<1>2. text \in Surjection(1 .. Len(text), AtomsOf(text))
  BY <1>1 DEF AtomsOf, ToSet, Surjection
<1>3. IsFiniteSet(1 .. Len(text))
  BY <1>1, FS_Interval
<1>. QED
  BY <1>2, <1>3, FS_Surjection

\* No placeholder is an IBAN.
LEMMA OwnIBAN ==
    ASSUME NEW r, PromptInv(r), OneIBAN(prompt[r])
    PROVE  \A a, b \in Own(r) : a.kind = "iban" /\ b.kind = "iban" => a = b
<1>. DEFINE S == {atom \in AtomsOf(prompt[r]) : atom.kind = "iban"}
<1>1. IsFiniteSet(S) /\ Cardinality(S) <= 1
  <2>1. IsFiniteSet(AtomsOf(prompt[r])) /\ S \subseteq AtomsOf(prompt[r])
    BY AtomsFinite DEF PromptInv
  <2>2. IsFiniteSet(S)
    BY <2>1, FS_Subset
  <2>. QED
    BY <2>2 DEF OneIBAN
<1>2. \A a \in Own(r) : a.kind = "iban" => a \in S
  BY DEF Own, PlaceholderAtoms, Placeholders
<1>. HIDE DEF S
<1>. QED
  BY <1>1, <1>2, AtMostOne

\* The scan of an answer with Presidio stands for that without.
LEMMA ScannedStays ==
    ASSUME NEW A, PlaceholderAtoms \subseteq A, NEW text \in Seq(A), NEW presidio \in BOOLEAN,
           Scanned(text, TRUE) = text
    PROVE  Scanned(text, presidio) = text
<1>1. CASE "OutputControl" \in on
  <2>1. Sanitize(text, on, TRUE).text = text
    BY <1>1 DEF Scanned
  <2>2. Sanitize(text, on, presidio).text = text
    BY <2>1, Rescan
  <2>. QED
    BY <1>1, <2>2 DEF Scanned
<1>2. CASE "OutputControl" \notin on
  BY <1>2 DEF Scanned
<1>. QED
  BY <1>1, <1>2

\* The vault holds the mapping from the moment it is written.
StoredInv(r) ==
    /\ pc[r] \in {"sanitize", "store"} => vault[r] = Nothing
    /\ pc[r] \in {"await", "rehydrate"} /\ intact[r] /\ "TokenVault" \in on =>
          vault[r] = mapping[r]

\* With the mapping, the prompt can be read from the body.
ReturnInv(r) ==
    pc[r] # "sanitize" /\ OneIBAN(prompt[r]) =>
        Returns([text |-> body[r], mapping |-> mapping[r]], prompt[r])

\* An answer in which the scan finds nothing is the provider's.
ScanInv(r) ==
    pc[r] = "rehydrate" /\ Scanned(reply[r], TRUE) = reply[r] => answer[r] = reply[r]

\* What RoundTrip says of the request.
Restored(r) ==
    /\ pc[r] = "done" /\ intact[r] /\ ~streamed[r]
    /\ reply[r] = body[r]
    /\ OneIBAN(prompt[r])
    /\ DOMAIN mapping[r] \cap AtomsOf(prompt[r]) = {}
    /\ \A p \in DOMAIN mapping[r] : \A atom \in AtomsOf(mapping[r][p]) : ~IsPlaceholder(atom)
    /\ Scanned(reply[r], TRUE) = reply[r]
    => answer[r] = prompt[r]

RoundInv(r) == StoredInv(r) /\ ReturnInv(r) /\ ScanInv(r) /\ Restored(r)

JInv == IInv /\ DOMAIN intact = Requests /\ \A r \in Requests : RoundInv(r)

LEMMA InitRound == Init => JInv
<1>. SUFFICES ASSUME Init PROVE JInv
  OBVIOUS
<1>1. IInv
  BY InitIInv
<1>2. DOMAIN intact = Requests
  BY DEF Init
<1>3. ASSUME NEW r \in Requests PROVE RoundInv(r)
  <2>1. pc[r] = "sanitize" /\ vault[r] = Nothing
    BY <1>3 DEF Init
  <2>. QED
    BY <2>1 DEF RoundInv, StoredInv, ReturnInv, ScanInv, Restored
<1>. QED
  BY <1>1, <1>2, <1>3 DEF JInv

LEMMA UntouchedReturns ==
    ASSUME UNCHANGED <<on, prompt>>, NEW q, RoundInv(q), Untouched(q), intact'[q] = intact[q]
    PROVE  RoundInv(q)'
<1>. USE DEF Untouched, RoundInv
<1>1. StoredInv(q)'
  BY DEF StoredInv
<1>2. ReturnInv(q)'
  BY DEF ReturnInv
<1>3. Scanned(reply[q], TRUE)' = Scanned(reply[q], TRUE)
  BY DEF Scanned
<1>4. ScanInv(q)'
  BY <1>3 DEF ScanInv
<1>5. Restored(q)'
  BY <1>3 DEF Restored
<1>. QED
  BY <1>1, <1>2, <1>4, <1>5

LEMMA SanitizeReturns ==
    ASSUME JInv, NEW r \in Requests, SanitizeRequest(r)
    PROVE  JInv'
<1>1. PICK presidio \in {TRUE} \cup {"presidio" \notin Failures} :
         LET scan == Sanitize(prompt[r], on, presidio)
         IN  /\ mapping' = [mapping EXCEPT ![r] = scan.mapping]
             /\ body' = [body EXCEPT ![r] = IF scan.mapping # Nothing THEN scan.text
                                            ELSE prompt[r]]
  BY DEF SanitizeRequest
<1>. DEFINE scan == Sanitize(prompt[r], on, presidio)
<1>2. /\ pc[r] = "sanitize" /\ pc' = [pc EXCEPT ![r] = "store"]
      /\ UNCHANGED <<on, prompt, reply, answer, vault, streamed, intact>>
  BY DEF SanitizeRequest, Goto
<1>3. Steady /\ RequestInv(r) /\ RoundInv(r) /\ IInv
  BY DEF IInv, JInv
<1>4. presidio \in BOOLEAN /\ PlaceholderAtoms \subseteq Own(r) /\ prompt[r] \in Seq(Own(r))
  BY <1>3, SetsAre DEF RequestInv, PromptInv
<1>5. scan \in Scans(Unsearched(Own(r)), Own(r), prompt[r])
  BY <1>4, SanitizeIn
<1>6. OneIBAN(prompt[r]) => Returns(scan, prompt[r])
  <2>1. SUFFICES ASSUME OneIBAN(prompt[r]) PROVE Returns(scan, prompt[r])
    OBVIOUS
  <2>2. \A a, b \in Own(r) : a.kind = "iban" /\ b.kind = "iban" => a = b
    BY <1>3, <2>1, OwnIBAN DEF RequestInv
  <2>. QED
    BY <1>4, <2>2, SanitizeRestores
<1>7. /\ mapping' = [mapping EXCEPT ![r] = scan.mapping]
      /\ body' = [body EXCEPT ![r] = IF scan.mapping # Nothing THEN scan.text ELSE prompt[r]]
  BY <1>1
<1>. HIDE DEF scan
<1>8. body' = [body EXCEPT ![r] = scan.text]
  BY <1>5, <1>7 DEF Scans, Nothing
<1>9. body'[r] = scan.text /\ mapping'[r] = scan.mapping /\ pc'[r] = "store"
  BY <1>2, <1>3, <1>7, <1>8 DEF Steady
<1>10. StoredInv(r)'
  BY <1>2, <1>3, <1>9 DEF RoundInv, StoredInv
<1>11. ReturnInv(r)'
  <2>1. OneIBAN(prompt[r]) => Returns([text |-> scan.text, mapping |-> scan.mapping], prompt[r])
    BY <1>6 DEF Returns, Accounted
  <2>. QED
    BY <1>2, <1>9, <2>1 DEF ReturnInv
<1>12. ScanInv(r)' /\ Restored(r)'
  BY <1>9 DEF ScanInv, Restored
<1>13. ASSUME NEW q \in Requests, q # r PROVE RoundInv(q)'
  <2>1. RoundInv(q)
    BY DEF JInv
  <2>2. Untouched(q) /\ intact'[q] = intact[q]
    BY <1>2, <1>3, <1>7, <1>8, <1>13 DEF Untouched, Steady
  <2>. QED
    BY <1>2, <2>1, <2>2, UntouchedReturns
<1>14. RoundInv(r)'
  BY <1>10, <1>11, <1>12 DEF RoundInv
<1>15. IInv' /\ Requests' = Requests /\ DOMAIN intact' = Requests
  BY <1>2, <1>3, SanitizeKeeps, Fixed DEF JInv
<1>. QED
  BY <1>13, <1>14, <1>15 DEF JInv

LEMMA SetVaultReturns ==
    ASSUME JInv, NEW r \in Requests, SetVault(r)
    PROVE  JInv'
<1>1. /\ pc[r] = "store" /\ pc' = [pc EXCEPT ![r] = "await"]
      /\ UNCHANGED <<on, prompt, mapping, body, reply, answer, streamed>>
  BY DEF SetVault, Goto
<1>2. Steady /\ RequestInv(r) /\ RoundInv(r) /\ IInv /\ DOMAIN intact = Requests
  BY DEF IInv, JInv
<1>3. \/ /\ vault' = IF "TokenVault" \in on
                     THEN [vault EXCEPT ![r] = Updated(vault[r], mapping[r])] ELSE vault
         /\ intact' = intact
      \/ /\ intact' = [intact EXCEPT ![r] = FALSE]
         /\ vault' = vault
  BY DEF SetVault, VaultKey
<1>4. pc'[r] = "await"
  BY <1>1, <1>2 DEF Steady
<1>5. Updated(vault[r], mapping[r]) = mapping[r]
  <2>1. vault[r] = <<>> /\ DOMAIN <<>> = {}
    BY <1>1, <1>2 DEF RoundInv, StoredInv, Nothing
  <2>2. mapping[r] = [p \in DOMAIN mapping[r] |-> mapping[r][p]]
    BY <1>2, MappingIs DEF RequestInv, VaultInv
  <2>. QED
    BY <2>1, <2>2 DEF Updated
<1>6. StoredInv(r)'
  <2>1. SUFFICES ASSUME intact'[r], "TokenVault" \in on PROVE vault'[r] = mapping[r]
    BY <1>1, <1>4 DEF StoredInv
  <2>2. vault' = [vault EXCEPT ![r] = Updated(vault[r], mapping[r])]
    BY <1>2, <1>3, <2>1
  <2>. QED
    BY <1>2, <1>5, <2>2 DEF Steady
<1>7. ReturnInv(r)'
  BY <1>1, <1>2, <1>4 DEF RoundInv, ReturnInv
<1>8. ScanInv(r)' /\ Restored(r)'
  BY <1>4 DEF ScanInv, Restored
<1>9. ASSUME NEW q \in Requests, q # r PROVE RoundInv(q)'
  <2>1. RoundInv(q)
    BY DEF JInv
  <2>2. Untouched(q) /\ intact'[q] = intact[q]
    BY <1>1, <1>2, <1>3, <1>9 DEF Untouched, Steady
  <2>. QED
    BY <1>1, <2>1, <2>2, UntouchedReturns
<1>10. RoundInv(r)'
  BY <1>6, <1>7, <1>8 DEF RoundInv
<1>11. IInv' /\ Requests' = Requests /\ DOMAIN intact' = Requests
  BY <1>1, <1>2, <1>3, SetVaultKeeps, Fixed
<1>. QED
  BY <1>9, <1>10, <1>11 DEF JInv

LEMMA ForwardReturns ==
    ASSUME JInv, NEW r \in Requests, ForwardToProvider(r)
    PROVE  JInv'
<1>1. PICK text \in {body[r]} \cup Replies, presidio \in {TRUE} \cup {"presidio" \notin Failures} :
         /\ reply' = [reply EXCEPT ![r] = text]
         /\ \/ /\ pc' = [pc EXCEPT ![r] = "rehydrate"]
               /\ answer' = [answer EXCEPT ![r] = Scanned(text, presidio)]
               /\ UNCHANGED streamed
            \/ /\ pc' = [pc EXCEPT ![r] = "done"]
               /\ answer' = [answer EXCEPT ![r] = text]
               /\ streamed' = [streamed EXCEPT ![r] = TRUE]
  BY DEF ForwardToProvider, Goto
<1>2. pc[r] = "await" /\ UNCHANGED <<on, prompt, mapping, body, vault, intact>>
  BY DEF ForwardToProvider, Goto
<1>3. Steady /\ RequestInv(r) /\ RoundInv(r) /\ IInv /\ DOMAIN intact = Requests
  BY DEF IInv, JInv
<1>4. pc'[r] \in {"rehydrate", "done"} /\ reply'[r] = text
  BY <1>1, <1>3 DEF Steady
<1>5. StoredInv(r)'
  BY <1>2, <1>3, <1>4 DEF RoundInv, StoredInv
<1>6. ReturnInv(r)'
  BY <1>2, <1>3, <1>4 DEF RoundInv, ReturnInv
<1>7. Scanned(reply[r], TRUE)' = Scanned(text, TRUE)
  BY <1>2, <1>4 DEF Scanned
<1>8. ScanInv(r)'
  <2>1. SUFFICES ASSUME pc'[r] = "rehydrate", Scanned(text, TRUE) = text
                 PROVE  answer'[r] = text
    BY <1>4, <1>7 DEF ScanInv
  <2>2. answer'[r] = Scanned(text, presidio)
    BY <1>1, <1>3, <2>1 DEF Steady
  <2>3. text \in Seq(AtomsOf(text))
    <3>1. body[r] \in Seq(Own(r))
      BY <1>3 DEF RequestInv, BodyInv
    <3>2. CASE text = body[r]
      BY <3>1, <3>2, OverItsAtoms
    <3>3. CASE text \in Replies
      BY <3>3, VaultAssumption, OverItsAtoms DEF Texts
    <3>. QED
      BY <3>2, <3>3
  <2>. DEFINE A == PlaceholderAtoms \cup AtomsOf(text)
  <2>4. PlaceholderAtoms \subseteq A /\ AtomsOf(text) \subseteq A /\ presidio \in BOOLEAN
    OBVIOUS
  <2>5. text \in Seq(A)
    BY <2>3, <2>4, SeqMonotonic
  <2>. HIDE DEF A
  <2>6. Scanned(text, presidio) = text
    BY <2>1, <2>4, <2>5, ScannedStays
  <2>. QED
    BY <2>2, <2>6
<1>9. Restored(r)'
  <2>1. CASE pc' = [pc EXCEPT ![r] = "rehydrate"]
    <3>1. pc'[r] = "rehydrate"
      BY <1>3, <2>1 DEF Steady
    <3>. QED
      BY <3>1 DEF Restored
  <2>2. CASE streamed' = [streamed EXCEPT ![r] = TRUE]
    <3>1. streamed'[r] = TRUE
      BY <1>3, <2>2 DEF Steady
    <3>. QED
      BY <3>1 DEF Restored
  <2>. QED
    BY <1>1, <2>1, <2>2
<1>10. ASSUME NEW q \in Requests, q # r PROVE RoundInv(q)'
  <2>1. RoundInv(q)
    BY DEF JInv
  <2>2. Untouched(q) /\ intact'[q] = intact[q]
    BY <1>1, <1>2, <1>3, <1>10 DEF Untouched, Steady
  <2>. QED
    BY <1>2, <2>1, <2>2, UntouchedReturns
<1>11. RoundInv(r)'
  BY <1>5, <1>6, <1>8, <1>9 DEF RoundInv
<1>12. IInv' /\ Requests' = Requests /\ DOMAIN intact' = Requests
  BY <1>2, <1>3, ForwardKeeps, Fixed
<1>. QED
  BY <1>10, <1>11, <1>12 DEF JInv

LEMMA FailReturns ==
    ASSUME JInv, NEW r \in Requests, ProviderFails(r)
    PROVE  JInv'
<1>1. /\ pc[r] = "await" /\ pc' = [pc EXCEPT ![r] = "failed"]
      /\ UNCHANGED <<on, prompt, mapping, body, reply, answer, vault, streamed, intact>>
  BY DEF ProviderFails, Goto
<1>2. Steady /\ RoundInv(r) /\ IInv /\ DOMAIN intact = Requests
  BY DEF IInv, JInv
<1>3. pc'[r] = "failed"
  BY <1>1, <1>2 DEF Steady
<1>4. ReturnInv(r)'
  BY <1>1, <1>2, <1>3 DEF RoundInv, ReturnInv
<1>5. RoundInv(r)'
  BY <1>3, <1>4 DEF RoundInv, StoredInv, ScanInv, Restored
<1>6. ASSUME NEW q \in Requests, q # r PROVE RoundInv(q)'
  <2>1. RoundInv(q)
    BY DEF JInv
  <2>2. Untouched(q) /\ intact'[q] = intact[q]
    BY <1>1, <1>2, <1>6 DEF Untouched, Steady
  <2>. QED
    BY <1>1, <2>1, <2>2, UntouchedReturns
<1>7. IInv' /\ Requests' = Requests /\ DOMAIN intact' = Requests
  BY <1>1, <1>2, FailKeeps, Fixed
<1>. QED
  BY <1>5, <1>6, <1>7 DEF JInv

\* The vault is walked over the body: every placeholder in it is expanded.
LEMMA RehydrateReturns ==
    ASSUME JInv, NEW r \in Requests, RehydrateAnswer(r)
    PROVE  JInv'
<1>1. /\ pc[r] = "rehydrate" /\ pc' = [pc EXCEPT ![r] = "done"]
      /\ UNCHANGED <<on, prompt, mapping, body, reply, vault, streamed>>
  BY DEF RehydrateAnswer, Goto
<1>2. Steady /\ RequestInv(r) /\ RoundInv(r) /\ IInv /\ DOMAIN intact = Requests
  BY DEF IInv, JInv
<1>3. \/ /\ "TokenVault" \in on
         /\ \E order \in SetToSeqs(DOMAIN vault[r]) :
               answer' = [answer EXCEPT ![r] = Rehydrate(answer[r], vault[r], order)]
         /\ intact' = intact
      \/ /\ answer' = answer
         /\ intact' = [intact EXCEPT ![r] = FALSE]
  BY DEF RehydrateAnswer, VaultKey
<1>4. pc'[r] = "done"
  BY <1>1, <1>2 DEF Steady
<1>5. StoredInv(r)' /\ ScanInv(r)'
  BY <1>4 DEF StoredInv, ScanInv
<1>6. ReturnInv(r)'
  BY <1>1, <1>2, <1>4 DEF RoundInv, ReturnInv
<1>7. Scanned(reply[r], TRUE)' = Scanned(reply[r], TRUE)
  BY <1>1 DEF Scanned
<1>8. Restored(r)'
  <2>1. SUFFICES ASSUME intact'[r], reply[r] = body[r], OneIBAN(prompt[r]),
                        DOMAIN mapping[r] \cap AtomsOf(prompt[r]) = {},
                        \A p \in DOMAIN mapping[r] :
                            \A atom \in AtomsOf(mapping[r][p]) : ~IsPlaceholder(atom),
                        Scanned(reply[r], TRUE) = reply[r]
                 PROVE  answer'[r] = prompt[r]
    BY <1>1, <1>7 DEF Restored
  <2>2. PICK order \in SetToSeqs(DOMAIN vault[r]) :
           answer' = [answer EXCEPT ![r] = Rehydrate(answer[r], vault[r], order)]
    BY <1>2, <1>3, <2>1
  <2>3. intact[r] /\ "TokenVault" \in on
    BY <1>2, <1>3, <2>1
  <2>4. vault[r] = mapping[r] /\ answer[r] = body[r]
    BY <1>1, <1>2, <2>1, <2>3 DEF RoundInv, StoredInv, ScanInv
  <2>5. body[r] \in Seq(Own(r)) /\ mapping[r] \in Mappings(Own(r))
    BY <1>2 DEF RequestInv, BodyInv, VaultInv
  <2>6. PlainValues(mapping[r])
    <3>1. ASSUME NEW p \in DOMAIN mapping[r], NEW i \in 1 .. Len(mapping[r][p])
          PROVE  mapping[r][p][i] \notin PlaceholderAtoms
      <4>1. mapping[r][p] \in Seq(Own(r))
        BY <2>5, MappingIs
      <4>2. mapping[r][p][i] \in AtomsOf(mapping[r][p])
        BY <4>1 DEF AtomsOf, ToSet
      <4>. QED
        BY <2>1, <4>2 DEF IsPlaceholder, PlaceholderAtoms
    <3>. QED
      BY <3>1 DEF PlainValues
  <2>7. Expanded(body[r], mapping[r]) = prompt[r]
    <3>1. Returns([text |-> body[r], mapping |-> mapping[r]], prompt[r])
      BY <1>1, <1>2, <2>1 DEF RoundInv, ReturnInv
    <3>2. Clean(mapping[r], prompt[r])
      BY <2>1, <2>6 DEF Clean
    <3>. QED
      BY <3>1, <3>2 DEF Returns
  <2>8. Rehydrate(body[r], mapping[r], order) = Expanded(body[r], mapping[r])
    BY <2>2, <2>4, <2>5, <2>6, RehydrateExpands
  <2>9. answer'[r] = Rehydrate(answer[r], vault[r], order)
    BY <1>2, <2>2 DEF Steady
  <2>. QED
    BY <2>4, <2>7, <2>8, <2>9
<1>9. ASSUME NEW q \in Requests, q # r PROVE RoundInv(q)'
  <2>1. RoundInv(q)
    BY DEF JInv
  <2>2. answer'[q] = answer[q] /\ intact'[q] = intact[q]
    BY <1>2, <1>3, <1>9 DEF Steady
  <2>3. Untouched(q)
    BY <1>1, <1>2, <1>9, <2>2 DEF Untouched, Steady
  <2>. QED
    BY <1>1, <2>1, <2>2, <2>3, UntouchedReturns
<1>10. RoundInv(r)'
  BY <1>5, <1>6, <1>8 DEF RoundInv
<1>11. IInv' /\ Requests' = Requests /\ DOMAIN intact' = Requests
  BY <1>1, <1>2, <1>3, RehydrateKeeps, Fixed
<1>. QED
  BY <1>9, <1>10, <1>11 DEF JInv

LEMMA StepRound == JInv /\ [Next]_vars => JInv'
<1>. SUFFICES ASSUME JInv, [Next]_vars PROVE JInv'
  OBVIOUS
<1>1. ASSUME NEW r \in Requests, SanitizeRequest(r) PROVE JInv'
  BY <1>1, SanitizeReturns
<1>2. ASSUME NEW r \in Requests, SetVault(r) PROVE JInv'
  BY <1>2, SetVaultReturns
<1>3. ASSUME NEW r \in Requests, ForwardToProvider(r) PROVE JInv'
  BY <1>3, ForwardReturns
<1>4. ASSUME NEW r \in Requests, ProviderFails(r) PROVE JInv'
  BY <1>4, FailReturns
<1>5. ASSUME NEW r \in Requests, RehydrateAnswer(r) PROVE JInv'
  BY <1>5, RehydrateReturns
<1>6. CASE UNCHANGED vars
  <2>1. IInv'
    BY <1>6, StepIInv DEF JInv
  <2>2. UNCHANGED <<on, prompt, intact>> /\ \A q \in Requests : Untouched(q)
    BY <1>6 DEF vars, Untouched
  <2>3. \A q \in Requests : RoundInv(q)'
    BY <2>2, UntouchedReturns DEF JInv
  <2>. QED
    BY <2>1, <2>2, <2>3, Fixed DEF JInv
<1>. QED
  BY <1>1, <1>2, <1>3, <1>4, <1>5, <1>6 DEF Next

\* A prompt that the provider repeats comes back as it was, whatever texts, words
\* and switches there are and in whatever order the map is walked, where it has
\* one IBAN at most, no placeholder that one of its values was given, none in a
\* value, and the scan of the answer leaves it as it is (sanitizer.go:88-92,
\* 205-216, 328-334, handler.go:455-479).
THEOREM RoundTripHolds == Spec => []RoundTrip
<1>1. Spec => []JInv
  BY InitRound, StepRound, PTL DEF Spec
<1>2. JInv => RoundTrip
  BY DEF JInv, RoundInv, Restored, OneIBAN, RoundTrip
<1>. QED
  BY <1>1, <1>2, PTL
=============================================================================
