------------------------------- MODULE Attest -------------------------------
(***************************************************************************)
(* Signed decisions (src/attest.rs).  SHA-256 and ed25519 are ideal: a      *)
(* digest is an injective constructor, a signature names its key and the    *)
(* digest it covers, and nobody makes one without the key.                  *)
(***************************************************************************)
EXTENDS Gate

CONSTANTS
    Key,      \* operator keys; a key stands for its hex public key too
    Garbled   \* a hex field of the right length made of two others

ASSUME GarbledAssumption == Garbled \notin Key

LegDigest == [vm : Vm, executed : BOOLEAN, poststate_digest : PoststateDigest]

(* PolicySnapshot has the three fields of GatePolicy.                       *)
PolicySnapshot == GatePolicy

DecisionBinding ==
    [settlement_id : SettlementId, claim_hash : ClaimHash,
     legs : LegDigest \X LegDigest, reconcile : ReconcileVerdict,
     invariant : InvariantVerdict, policy : PolicySnapshot, decision : LiquetDecision]

LegDigestOf(leg) ==
    [vm |-> leg.vm, executed |-> leg.executed, poststate_digest |-> leg.poststate_digest]

(* Mutant: the projection that attest.rs:54 rules out, one leg for both.    *)
new_FirstLegOnly(proof, invariant, policy, decision) ==
    [settlement_id |-> proof.settlement_id, claim_hash |-> proof.claim_hash,
     legs |-> <<LegDigestOf(proof.legs[1])>>, reconcile |-> proof.reconcile,
     invariant |-> invariant, policy |-> policy, decision |-> decision]

(* Mutant: commits to the default policy in place of the one in force.      *)
new_DefaultPolicy(proof, invariant, policy, decision) ==
    [settlement_id |-> proof.settlement_id, claim_hash |-> proof.claim_hash,
     legs |-> <<LegDigestOf(proof.legs[1]), LegDigestOf(proof.legs[2])>>,
     reconcile |-> proof.reconcile, invariant |-> invariant, policy |-> DefaultPolicy,
     decision |-> decision]

(* DecisionBinding::new                                                     *)
new(proof, invariant, policy, decision) ==
    [settlement_id |-> proof.settlement_id, claim_hash |-> proof.claim_hash,
     legs |-> <<LegDigestOf(proof.legs[1]), LegDigestOf(proof.legs[2])>>,
     reconcile |-> proof.reconcile, invariant |-> invariant, policy |-> policy,
     decision |-> decision]

(* Mutant: hashes what was executed, not what was decided under which policy.*)
digest_WithoutDecision(binding) ==
    <<"liquet/decision/v2",
      [binding EXCEPT !.policy = DefaultPolicy, !.decision = Settle({})]>>

digest(binding) == <<"liquet/decision/v2", binding>>
Hash == {"liquet/decision/v2"} \X DecisionBinding

(* The binding a digest commits to: unique, since SHA-256 does not collide. *)
(* No code computes it; properties use it to speak of what was committed.   *)
Committed(hash) == hash[2]

sign(key, hash) == [key |-> key, over |-> hash]

SignedDecision ==
    [binding : DecisionBinding, signer : Key \cup {Garbled},
     signature : [key : Key, over : Hash] \cup {Garbled}]

sign_decision(binding, key) ==
    [binding |-> binding, signer |-> key, signature |-> sign(key, digest(binding))]

(* Mutant: only the embedded key is looked at.                              *)
verify_self_consistent_KeyOnly(signed) ==
    IF signed.signer = Garbled THEN "Malformed" ELSE "Ok"

(* Ok(()) is "Ok".  A garbled signer is not the encoding of a key; a        *)
(* garbled signature has the length of one and fails to verify.             *)
verify_self_consistent(signed) ==
    IF signed.signer = Garbled THEN "Malformed"
    ELSE IF signed.signature # sign(signed.signer, digest(signed.binding)) THEN "BadSignature"
    ELSE "Ok"

verify_decision(signed, trusted_signer) ==
    IF signed.signer # trusted_signer THEN "SignerMismatch"
    ELSE verify_self_consistent(signed)
=============================================================================
