------------------------------- MODULE Erc8004 ------------------------------
(***************************************************************************)
(* The ERC-8004 mapping (src/erc8004/mod.rs): which score and tag a signed  *)
(* decision becomes, and the check a relying party runs on the evidence.    *)
(* A bundle is the JSON text of a signed decision, read back: {} is text    *)
(* that does not parse, {s} is text that parses to s.                       *)
(***************************************************************************)
EXTENDS Attest

PASS == 100
FAIL == 0
Tag == {"matched", "half-open", "mismatch", "unsafe", "unverifiable"}

(* Mutant: an unverifiable action is posted as a failure.                   *)
ScoreAndTag_FailsUnverifiable(binding) ==
    IF binding.reconcile = "unverifiable" THEN <<{FAIL}, "unverifiable">>
    ELSE IF binding.reconcile = "half_open" THEN <<{FAIL}, "half-open">>
    ELSE IF binding.reconcile = "mismatch" THEN <<{FAIL}, "mismatch">>
    ELSE IF IsSettle(binding.decision) THEN <<{PASS}, "matched">>
    ELSE <<{FAIL}, "unsafe">>

(* Mutant: every hold that reconciled into something is a mismatch.         *)
ScoreAndTag_OneFailure(binding) ==
    IF binding.reconcile = "unverifiable" THEN <<{}, "unverifiable">>
    ELSE IF IsSettle(binding.decision) THEN <<{PASS}, "matched">> ELSE <<{FAIL}, "mismatch">>

ScoreAndTag(binding) ==
    IF binding.reconcile = "unverifiable" THEN <<{}, "unverifiable">>
    ELSE IF binding.reconcile = "half_open" THEN <<{FAIL}, "half-open">>
    ELSE IF binding.reconcile = "mismatch" THEN <<{FAIL}, "mismatch">>
    ELSE IF IsSettle(binding.decision) THEN <<{PASS}, "matched">>
    ELSE <<{FAIL}, "unsafe">>

(* `response` is an Option: None abstains.                                  *)
validation_response(signed) ==
    [response |-> ScoreAndTag(signed.binding)[1], tag |-> ScoreAndTag(signed.binding)[2],
     response_hash |-> digest(signed.binding)]

evidence_bundle_json(signed) == {signed}

(* Malformed, then the hash, then the trusted signer; when all is well the  *)
(* response re-derived from the bundle.                                     *)
verify_bundle(bundle, onchain_response_hash, trusted_signer) ==
    LET signed == unwrap(bundle)
        signature_verdict == verify_decision(signed, trusted_signer)
    IN  IF bundle = {} THEN [error |-> "Malformed"]
        ELSE IF digest(signed.binding) # onchain_response_hash THEN [error |-> "HashMismatch"]
        ELSE IF signature_verdict # "Ok" THEN [error |-> signature_verdict]
        ELSE [ok |-> validation_response(signed)]
=============================================================================
