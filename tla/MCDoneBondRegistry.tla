------------------------- MODULE MCDoneBondRegistry ---------------------------
(***************************************************************************)
(* Instances of DoneBondRegistry for TLC.                                  *)
(***************************************************************************)
EXTENDS DoneBondRegistryProps
LOCAL INSTANCE Functions

\* Counting coins is summing.
ASSUME CoinsAreSum == \A f \in [1..3 -> 0..3] : Total(f) = SumFunction(f)
===============================================================================
