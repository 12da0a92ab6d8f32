-------------------------- MODULE MCKnowledgeBase --------------------------
(* Processes are interchangeable, and so are organizations and names. *)
EXTENDS KnowledgeBase, TLC

Symmetry == Permutations(Procs) \cup Permutations(Orgs) \cup Permutations(Names)
=============================================================================
