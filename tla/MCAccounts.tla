------------------------------ MODULE MCAccounts ------------------------------
(***************************************************************************)
(* Accounts for TLC, up to renaming of addresses, subjects, rows, requests.*)
(***************************************************************************)
EXTENDS Accounts, TLC

Symmetry == Permutations(Email) \cup Permutations(Subject)
            \cup Permutations(Identity) \cup Permutations(Request)
===============================================================================
