----------------------------- MODULE MCAccounts -----------------------------
(* Accounts on small sets, for TLC. *)
EXTENDS Accounts, TLC

\* Two of the three secrets begin with the same 12 characters.
MCPrefix == [s \in Secrets |-> IF s = 3 THEN "b" ELSE "a"]

\* Requests, users and profiles are interchangeable (safety only).
Symmetry == Permutations(Reqs) \union Permutations(Users) \union Permutations(Profiles)

=============================================================================
