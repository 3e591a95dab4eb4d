------------------------------ MODULE Pipeline ------------------------------
(***************************************************************************)
(* The wired pipeline (src/erc8004/liquet_validator.rs and the adapters):   *)
(* from what the producers re-executed for one claim to a signed decision.  *)
(*                                                                          *)
(* An execution is all that probatio-xvm and Custos report about a claim.   *)
(* Both are external; ProducerContract is what the seam says they owe, and  *)
(* re-execution is deterministic, so a claim has one execution.             *)
(***************************************************************************)
EXTENDS Erc8004, Custos

(* The claim: what the pay leg should move, and the good to be delivered.   *)
Claim ==
    [asset : Asset, amount : Amount,
     good : [spl_mint : Asset, amount : Amount, recipient : Recipient]]

ReconstructedLeg ==
    [vm : Vm, executed : BOOLEAN, reexec_digest : PoststateDigest, asset : Option(Asset),
     amount : Option(Amount), recipient : Option(Recipient), unverifiable : BOOLEAN]

XvmReceipt ==
    [verdict : ReconcileVerdict, claim_hash : ClaimHash, settlement_id : SettlementId]

(* Custos's replay of the delivery: could the prestate be seeded, did the   *)
(* transaction succeed, was a recipient watched, and the recipient's token  *)
(* balance before and after, {} when there is no decodable token account.   *)
Replay ==
    [seeded : BOOLEAN, success : BOOLEAN, watched : BOOLEAN,
     before : Option(Amount), after : Option(Amount)]

Execution ==
    [parses : BOOLEAN, evm_ok : BOOLEAN, svm_ok : BOOLEAN, claim : Claim,
     evm : ReconstructedLeg, svm : ReconstructedLeg, receipt : XvmReceipt,
     replay : Replay, custos : CustosVerdict]

-----------------------------------------------------------------------------
(* What the producers owe (src/seam.rs:79-94 and 137, adapters/probatio.rs).*)

FactsHonorClaim(e) ==
    /\ e.evm.asset = {e.claim.asset} /\ e.evm.amount = {e.claim.amount}
    /\ e.svm.asset = {e.claim.good.spl_mint}
    /\ e.svm.amount = {e.claim.good.amount}
    /\ e.svm.recipient = {e.claim.good.recipient}

Verifiable(e) ==
    /\ ~e.evm.unverifiable /\ ~e.svm.unverifiable
    /\ e.evm.vm = "evm" /\ e.svm.vm = "svm"

ReconcileContract(e) ==
    /\ e.receipt.verdict # "unverifiable" => Verifiable(e)
    /\ e.receipt.verdict = "matched" =>
         e.evm.executed /\ e.svm.executed /\ FactsHonorClaim(e)
    /\ e.receipt.verdict = "half_open" => e.evm.executed # e.svm.executed
    /\ e.receipt.verdict = "mismatch" => e.evm.executed = e.svm.executed

ProducerContract(e) == ReconcileContract(e) /\ CustosContract(e.custos)

-----------------------------------------------------------------------------
(* The adapter of probatio-xvm.  reconcile_verdict renames the variants of  *)
(* an enum one to one: here both sides use the same names.                  *)

proof_from_leg(leg) ==
    [vm |-> leg.vm, executed |-> leg.executed, poststate_digest |-> leg.reexec_digest,
     covered_accounts |-> {}, facts_source |-> "producer_recovered",
     asset |-> leg.asset, amount |-> leg.amount, recipient |-> leg.recipient,
     unverifiable |-> leg.unverifiable]

crossvm_from_receipt(receipt, evm_leg, svm_leg) ==
    [reconcile |-> receipt.verdict,
     legs |-> <<proof_from_leg(evm_leg), proof_from_leg(svm_leg)>>,
     claim_hash |-> receipt.claim_hash, settlement_id |-> receipt.settlement_id]

saturating_sub(a, b) == IF a >= b THEN a - b ELSE 0

(* Mutant: the replay only has to agree on whether anything was delivered.  *)
ReplayDiverged_AnyAmount(replay, leg) ==
    (saturating_sub(unwrap(replay.after), unwrap(replay.before)) > 0) # leg.executed

(* The replay must deliver what the leg recovered, and deliver anything at  *)
(* all exactly when the leg says it executed.                               *)
ReplayDiverged(replay, leg) ==
    LET delivered == saturating_sub(unwrap(replay.after), unwrap(replay.before))
    IN  delivered # unwrap_or(leg.amount, 0) \/ (delivered > 0) # leg.executed

ScreenFails(replay, leg) ==
    \/ ~replay.seeded \/ ~replay.success \/ ~replay.watched
    \/ replay.before = {} \/ replay.after = {}
    \/ ReplayDiverged(replay, leg)

(* invariant_from_svm_leg as an Option: Err is {}.                          *)
invariant_from_svm_leg(e) ==
    IF ScreenFails(e.replay, e.svm) THEN {} ELSE {verdict_from_custos(e.custos)}

CrossVmOf(e) == crossvm_from_receipt(e.receipt, e.evm, e.svm)

(* LiquetValidator::validate, Err(Unresolvable) being {}.  The screen comes *)
(* after the reconcile and its failure wins over any reconcile verdict.     *)
Resolvable(e) == e.parses /\ e.evm_ok /\ e.svm_ok /\ invariant_from_svm_leg(e) # {}

BindingOf(e, policy) ==
    LET cross     == CrossVmOf(e)
        invariant == verdict_from_custos(e.custos)
    IN  new(cross, invariant, policy, decide_crossvm(cross, invariant, policy))

validate(e, key, policy) ==
    IF Resolvable(e) THEN {sign_decision(BindingOf(e, policy), key)} ELSE {}
=============================================================================
