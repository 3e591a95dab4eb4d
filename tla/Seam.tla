-------------------------------- MODULE Seam --------------------------------
(***************************************************************************)
(* The seam contract (src/seam.rs): the only shapes that a producer hands   *)
(* to Liquet.  An Option<T> is a set with at most one element, {} being     *)
(* None.  A Vec whose order and duplicates no check reads is a set; free    *)
(* text (messages, reasons of a producer) is left out.  Only the digest     *)
(* reads the order of findings and reasons: a producer that re-executes the *)
(* same blocks reports them in the same order (D4).                         *)
(***************************************************************************)
EXTENDS Integers

CONSTANTS
    Asset, Recipient, Account,  \* what a leg moves, to whom, and what it touches
    Amount,                     \* u64 quantities
    PoststateDigest,            \* re-execution digests
    Code,                       \* invariant codes of the screen, "F1" ...
    ClaimHash, SettlementId

ASSUME AmountAssumption == Amount \subseteq Nat /\ 0 \in Amount

Option(S) == {{}} \cup {{v} : v \in S}
IsOption(opt, S) == opt \subseteq S /\ \A a, b \in opt : a = b
unwrap(opt) == CHOOSE v \in opt : TRUE
unwrap_or(opt, default) == IF opt = {} THEN default ELSE unwrap(opt)

Vm == {"svm", "evm"}
FactsSource == {"producer_recovered", "caller_asserted"}
ReconcileVerdict == {"matched", "half_open", "mismatch", "unverifiable"}

(* The derived order of the enum: Green < Info < Yellow < Red.              *)
Severity == 0..3
Green  == 0
Info   == 1
Yellow == 2
Red    == 3

(* Slot 1: what one re-executed leg did.  `unverifiable` stands for         *)
(* unverifiable_reason.is_some().                                           *)
ReexecProof ==
    [vm : Vm, executed : BOOLEAN, poststate_digest : PoststateDigest,
     covered_accounts : SUBSET Account, facts_source : FactsSource,
     asset : Option(Asset), amount : Option(Amount),
     recipient : Option(Recipient), unverifiable : BOOLEAN]

SettlementIntent ==
    [vm : Vm, asset : Asset, amount : Amount, recipient : Recipient,
     required_accounts : SUBSET Account]

(* Slot 1, cross-VM form: the EVM pay leg first, then the SVM delivery leg. *)
CrossVmProof ==
    [reconcile : ReconcileVerdict, legs : ReexecProof \X ReexecProof,
     claim_hash : ClaimHash, settlement_id : SettlementId]

Finding == [severity : Severity, code : Code]

(* Slot 2: the verdict of the invariant engine.                             *)
InvariantVerdict == [level : Severity, findings : SUBSET Finding]
=============================================================================
