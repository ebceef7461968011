---------------------------- MODULE MCWalletSessions ----------------------------
(***************************************************************************)
(* WalletSessions for TLC.  Its sets of values are all symmetric.           *)
(***************************************************************************)
EXTENDS WalletSessionsProps, TLC

Symmetry == Permutations(Login) \cup Permutations(Visit) \cup Permutations(Challenge)
            \cup Permutations(Wallet)
================================================================================
