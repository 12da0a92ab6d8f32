-------------------------- MODULE MCAuditRetention --------------------------
(***************************************************************************)
(* Model checking of AuditRetention.                                       *)
(***************************************************************************)
EXTENDS AuditRetention, TLC

\* Handlers and organizations are interchangeable, and so are the requests whose
\* response is not objected to.
Symmetry ==
    Permutations(Workers) \cup Permutations(Orgs) \cup Permutations(Requests \ Flagged)
=============================================================================
