----------------------------- MODULE MCRateLimits -----------------------------
(***************************************************************************)
(* An instance of the rate limiters for TLC.                               *)
(***************************************************************************)
EXTENDS RateLimitsProps, TLC

Symmetry == Permutations(Call)
===============================================================================
