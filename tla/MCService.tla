------------------------------ MODULE MCService -----------------------------
(***************************************************************************)
(* Instances of ValidatorService: what the producers may report, and the    *)
(* operators and claims of each run.                                        *)
(***************************************************************************)
EXTENDS ValidatorService, TLC

CONSTANTS w1, w2, k1, k2

MCAsset     == {"eth", "mint"}
MCRecipient == {"alice", "mallory"}
MCAccount   == {"vault"}
MCAmount    == 0..2
MCDigest    == {"evm", "svm"}
MCCode      == {"F1", "F2"}

TheClaim == [asset |-> "eth", amount |-> 1,
             good |-> [spl_mint |-> "mint", amount |-> 1, recipient |-> "alice"]]

EvmLeg(executed, amount, unverifiable) ==
    [vm |-> "evm", executed |-> executed, reexec_digest |-> "evm", asset |-> {"eth"},
     amount |-> amount, recipient |-> {}, unverifiable |-> unverifiable]
SvmLeg(executed, amount, recipient, unverifiable) ==
    [vm |-> "svm", executed |-> executed, reexec_digest |-> "svm", asset |-> {"mint"},
     amount |-> amount, recipient |-> {recipient}, unverifiable |-> unverifiable]

Ran(before, after) ==
    [seeded |-> TRUE, success |-> TRUE, watched |-> TRUE, before |-> before, after |-> after]

Screens == {[level |-> Green, findings |-> {}],
            [level |-> Info, findings |-> {[level |-> Info, code |-> "F1"]}],
            [level |-> Yellow, findings |-> {[level |-> Yellow, code |-> "F2"]}],
            [level |-> Red, findings |-> {[level |-> Red, code |-> "F2"],
                                          [level |-> Info, code |-> "F1"]}]}

Report(evm, svm, verdict, replay, screen) ==
    [parses |-> TRUE, evm_ok |-> TRUE, svm_ok |-> TRUE, claim |-> TheClaim,
     evm |-> evm, svm |-> svm,
     receipt |-> [verdict |-> verdict, claim_hash |-> "claim", settlement_id |-> "s1"],
     replay |-> replay, custos |-> screen]

(* One execution of each kind: settled, settled with a finding, half-open,  *)
(* substituted, neither leg executed, unverifiable, and a delivery that     *)
(* reverted under Custos's replay.                                          *)
Paid      == EvmLeg(TRUE, {1}, FALSE)
Delivered == SvmLeg(TRUE, {1}, "alice", FALSE)
Withheld  == SvmLeg(FALSE, {0}, "alice", FALSE)
Kinds(screen) ==
    {Report(Paid, Delivered, "matched", Ran({0}, {1}), screen),
     Report(Paid, Withheld, "half_open", Ran({1}, {1}), screen),
     Report(Paid, SvmLeg(TRUE, {2}, "mallory", FALSE), "mismatch", Ran({0}, {2}), screen),
     Report(EvmLeg(FALSE, {}, FALSE), Withheld, "mismatch", Ran({0}, {0}), screen),
     Report(EvmLeg(TRUE, {1}, TRUE), Delivered, "unverifiable", Ran({0}, {1}), screen),
     Report(Paid, Withheld, "half_open", [Ran({0}, {0}) EXCEPT !.success = FALSE], screen)}
Corpus == UNION {Kinds(screen) : screen \in Screens}
CleanCorpus == Kinds([level |-> Green, findings |-> {}])
(* One for each way through handle_request: PASS, FAIL, abstain, error.     *)
FourFates == {x \in CleanCorpus : x.receipt.verdict # "mismatch"}
(* One that is scored and one that is not: all that the evidence root sees. *)
TwoFates == {x \in CleanCorpus : x.receipt.verdict \in {"matched", "unverifiable"}}

(* Every execution over the small domains that the contract allows.         *)
EvmLegs == {EvmLeg(x, a, u) : x \in BOOLEAN, a \in Option({1, 2}), u \in BOOLEAN}
SvmLegs == {SvmLeg(x, a, r, u) : x \in BOOLEAN, a \in Option({0, 1, 2}),
                                 r \in MCRecipient, u \in BOOLEAN}
Replays ==
    {Ran(b, a) : b \in Option({0, 1}), a \in Option({0, 1, 2})}
      \cup {[Ran({0}, {1}) EXCEPT ![flag] = FALSE] : flag \in {"seeded", "success", "watched"}}
Reported ==
    {Report(e, s, v, r, c) : e \in EvmLegs, s \in SvmLegs, v \in ReconcileVerdict,
                             r \in Replays, c \in Screens}
AllExecutions ==
    {x \in Reported : ReconcileContract(x)}
      \cup {[Report(Paid, Delivered, "matched", Ran({0}, {1}), s) EXCEPT ![flag] = FALSE] :
              s \in Screens, flag \in {"parses", "evm_ok", "svm_ok"}}

Strict  == DefaultPolicy
Lenient == [DefaultPolicy EXCEPT !.max_settle_severity = Yellow]
OneOperator  == {[signing_key |-> k1, policy |-> Strict]}
TwoKeys      == OneOperator \cup {[signing_key |-> k2, policy |-> Strict]}
ThreeOperators == TwoKeys \cup {[signing_key |-> k2, policy |-> Lenient]}
TwoPolicies  == OneOperator \cup {[signing_key |-> k1, policy |-> Lenient]}

MCRequest == {"r1", "r2"}
OneRequest == {"r1"}
SameClaim  == [r \in Request |-> "c1"]

Workers == Permutations({w1, w2})
=============================================================================
