---------------------------- MODULE MCEvidenceIntake ----------------------------
(***************************************************************************)
(* EvidenceIntake for TLC.                                                 *)
(***************************************************************************)
EXTENDS EvidenceIntakeProps, TLC

Symmetry == Permutations(Token) \cup Permutations(Bundle) \cup Permutations(Run)
            \cup Permutations(Request) \cup Permutations(ReceiptKey)
================================================================================
