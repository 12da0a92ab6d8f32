---------------------------- MODULE MCAuditChain ----------------------------
(***************************************************************************)
(* Model checking of AuditChain.                                           *)
(***************************************************************************)
EXTENDS AuditChain, TLC

\* Handlers and organizations are interchangeable, and so are the requests whose
\* response is not objected to.
Symmetry ==
    Permutations(Workers) \cup Permutations(Orgs) \cup Permutations(Requests \ Flagged)
=============================================================================
