------------------------------- MODULE MCDemo -------------------------------
(***************************************************************************)
(* An instance of XvmDemo: what probatio and Custos may report.             *)
(***************************************************************************)
EXTENDS XvmDemo

CONSTANT k1

EvmLeg(executed, amount, unverifiable) ==
    [vm |-> "evm", executed |-> executed, reexec_digest |-> "evm", asset |-> {"ETH"},
     amount |-> amount, recipient |-> {}, unverifiable |-> unverifiable]
SvmLeg(executed, amount, recipient, unverifiable) ==
    [vm |-> "svm", executed |-> executed, reexec_digest |-> "svm", asset |-> {"mint"},
     amount |-> amount, recipient |-> {recipient}, unverifiable |-> unverifiable]

EvmLegs == {EvmLeg(TRUE, {25}, FALSE), EvmLeg(FALSE, {}, FALSE), EvmLeg(TRUE, {25}, TRUE)}
SvmLegs == {SvmLeg(a > 0, {a}, r, FALSE) : a \in {0, 25}, r \in {"recipient", "attacker"}}
             \cup {SvmLeg(FALSE, {}, "recipient", TRUE)}

Ran(before, after) ==
    [seeded |-> TRUE, success |-> TRUE, watched |-> TRUE, before |-> before, after |-> after]
Replays == {Ran({0}, {25}), Ran({0}, {24}), Ran({0}, {0}),
            [Ran({0}, {0}) EXCEPT !.success = FALSE]}
Screens == {[level |-> Info, findings |-> {[level |-> Info, code |-> "F1"]}],
            [level |-> Red, findings |-> {[level |-> Red, code |-> "F2"]}]}

Report(e, s, v, r, c) ==
    [parses |-> TRUE, evm_ok |-> TRUE, svm_ok |-> TRUE, claim |-> claim, evm |-> e, svm |-> s,
     receipt |-> [verdict |-> v, claim_hash |-> "claim", settlement_id |-> "settlement-1"],
     replay |-> r, custos |-> c]
Reported ==
    {Report(e, s, v, r, c) : e \in EvmLegs, s \in SvmLegs, v \in ReconcileVerdict,
                             r \in Replays, c \in Screens}
MCExecutions ==
    LET reconciled == {x \in Reported : ReconcileContract(x)}
        sound      == {x \in reconciled : x.receipt.verdict = "matched"}
    IN  reconciled \cup {[x EXCEPT ![flag] = FALSE] : x \in sound, flag \in {"evm_ok", "svm_ok"}}
=============================================================================
