--------------------------- MODULE MCVerificationRun ----------------------------
(* A small instance of VerificationRun for TLC.                             *)
EXTENDS VerificationRunProps

CONSTANTS tracked, added

\* One file is there from the start; the other is new when it is written.
MCabsent == [f \in File |-> IF f = added THEN 0 ELSE MaxVersion + 1]
================================================================================
