---------------------------- MODULE MCRefreshChains ----------------------------
(***************************************************************************)
(* RefreshChains for TLC.  All the sets are interchangeable, so states are *)
(* identified up to renaming.                                              *)
(***************************************************************************)
EXTENDS RefreshChains, TLC

Symmetry == Permutations(Token) \cup Permutations(Family)
            \cup Permutations(User) \cup Permutations(Request)
===============================================================================
