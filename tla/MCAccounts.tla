----------------------------- MODULE MCAccounts -----------------------------
(* Inputs of Accounts for TLC: two spellings of one address and another; the *)
(* starts of the server find different addresses in their environments.      *)
EXTENDS Accounts, TLC

CONSTANTS s1, s2, Bob, bob, boss

MCEmails    == {Bob, bob, boss}
MCLowerCase == [e \in MCEmails |-> IF e = Bob THEN bob ELSE e]

MCServers         == {s1, s2}
MCSuperAdminEmail == [s \in MCServers |-> IF s = s1 THEN boss ELSE bob]

Symmetry == Permutations(Calls)
=============================================================================
