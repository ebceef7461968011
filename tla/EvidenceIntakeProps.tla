--------------------------- MODULE EvidenceIntakeProps --------------------------
(***************************************************************************)
(* What the upload of evidence and its attestation promise.                *)
(***************************************************************************)
EXTENDS EvidenceIntake

\* Every variable holds what its column, request or answer can hold.
TypeOK ==
    /\ tokens \in [Token -> {"absent", "active", "revoked"}]
    /\ bundles \in [Bundle -> BundleRow \cup {NoRow}]
    /\ clock \in Clock
    /\ runs \in [Run -> RunRecord]
    /\ uploads \in [Run -> [Attempt -> Upload]]
    /\ intents \in [ReceiptKey -> Intent \cup {NoIntent}]
    /\ requests \in [Request -> RequestRecord]
    /\ acknowledged \subseteq Bundle
    /\ follows \subseteq Bundle \X Bundle

\* persistEvidence checks the token again under a lock: whatever its request
\* had been granted before, nothing is stored under a token that is revoked.
RevocationIsFinal ==
    [][\A b \in Bundle :
          bundles'[b] # bundles[b] =>
              bundles[b] = NoRow /\ tokens[bundles'[b].token] = "active"]_vars

\* However often it timed out, tried again, or raced other runs with the same
\* bundle, a run that reports success has its bundle stored, under its token.
SuccessIsStored ==
    \A r \in Run :
        runs[r].at = "succeeded" =>
            /\ bundles[runs[r].bundle] # NoRow
            /\ bundles[runs[r].bundle].token = runs[r].token

\* The calldata a wallet is given carries the attestation stored with the row,
\* by which the receipt is later confirmed and shown: no request gets another
\* one, though each signs before it knows whether it is a retry.
HandedIsStored ==
    \A q \in Request :
        requests[q].walletRequest # NoBundle =>
            intents[requests[q].key].bundle = requests[q].walletRequest

\* A receipt attests what was newest when it was stored, though that was read
\* before the signature: no sender had been told, by then, that a passing bundle
\* is stored which it had sent after the attested one was acknowledged.
NewestIsAttested ==
    \A k \in ReceiptKey : \A b \in intents[k].known :
        <<intents[k].bundle, b>> \notin follows
================================================================================
