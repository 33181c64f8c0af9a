------------------------- MODULE MCEmailVerification -------------------------
(***************************************************************************)
(* EmailVerification for TLC.  The symmetry is for resend_race, which      *)
(* checks no liveness.                                                     *)
(***************************************************************************)
EXTENDS EmailVerification, TLC

Symmetry == Permutations(User) \cup Permutations(Link) \cup Permutations(Request)
===============================================================================
