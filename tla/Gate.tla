-------------------------------- MODULE Gate --------------------------------
(***************************************************************************)
(* The gate (src/decide.rs): an intent, the two seam slots and a policy in, *)
(* one settle/hold decision out.  A reason or a caveat is a pair            *)
(* <<check, detail>> in place of the sentence that the code formats.        *)
(***************************************************************************)
EXTENDS Seam

GatePolicy ==
    [max_settle_severity : Severity, require_executed : BOOLEAN,
     require_recovered_facts : BOOLEAN]

DefaultPolicy ==
    [max_settle_severity |-> Info, require_executed |-> TRUE,
     require_recovered_facts |-> FALSE]

Settle(caveats) == [decision |-> "settle", caveats |-> caveats]
Hold(reasons)   == [decision |-> "hold", reasons |-> reasons]

Unbound == <<"unbound", "facts">>
Reason ==
       {Unbound} \cup {<<"leg", d>> : d \in {"unverifiable", "not_executed"}}
  \cup {<<"level", "exceeds">>} \cup {<<"finding", c>> : c \in Code}
  \cup {<<"uncovered", a>> : a \in Account}
  \cup {<<d, f>> : d \in {"differs", "missing"}, f \in {"vm", "asset", "amount", "recipient"}}
  \cup {<<"reconcile", v>> : v \in ReconcileVerdict}

LiquetDecision ==
    [decision : {"settle"}, caveats : SUBSET Reason]
        \cup [decision : {"hold"}, reasons : SUBSET Reason]

IsSettle(d) == d.decision = "settle"

(* No reason collected settles, any reason holds.                           *)
Conclude(reasons, caveats) == IF reasons = {} THEN Settle(caveats) ELSE Hold(reasons)

(* The screen, the same in both forms of the gate: every finding above the  *)
(* threshold, or the bare level when no finding explains it.                *)
Offending(verdict, policy) ==
    {f \in verdict.findings : f.severity > policy.max_settle_severity}

ScreenReasons(verdict, policy) ==
    IF verdict.level <= policy.max_settle_severity THEN {}
    ELSE IF Offending(verdict, policy) = {} THEN {<<"level", "exceeds">>}
    ELSE {<<"finding", f.code>> : f \in Offending(verdict, policy)}

(* Mutant: a leg that is unverifiable is not looked at any further.         *)
LegReasons_StopsAtFirst(proof, policy) ==
    IF proof.unverifiable THEN {<<"leg", "unverifiable">>}
    ELSE IF policy.require_executed /\ ~proof.executed THEN {<<"leg", "not_executed">>}
    ELSE {}

LegReasons(proof, policy) ==
       (IF proof.unverifiable THEN {<<"leg", "unverifiable">>} ELSE {})
  \cup (IF policy.require_executed /\ ~proof.executed
        THEN {<<"leg", "not_executed">>} ELSE {})

(* Mutant: some required account in scope is taken for all of them.         *)
CoverageReasons_AnyWillDo(intent, proof) ==
    IF intent.required_accounts \cap proof.covered_accounts # {} THEN {}
    ELSE {<<"uncovered", a>> : a \in intent.required_accounts}

CoverageReasons(intent, proof) ==
    {<<"uncovered", a>> : a \in intent.required_accounts \ proof.covered_accounts}

(* Mutant: a missing fact is skipped, as if there were nothing to compare.  *)
bind_SkipsMissing(field, observed, intended) ==
    IF observed \subseteq {intended} THEN {} ELSE {<<"differs", field>>}

(* A recovered fact binds when it is there and equal; a missing one holds.  *)
bind(field, observed, intended) ==
    IF observed = {} THEN {<<"missing", field>>}
    ELSE IF observed = {intended} THEN {} ELSE {<<"differs", field>>}

BindingReasons(intent, proof) ==
       bind("vm", {proof.vm}, intent.vm)
  \cup bind("asset", proof.asset, intent.asset)
  \cup bind("amount", proof.amount, intent.amount)
  \cup bind("recipient", proof.recipient, intent.recipient)

(* Mutant: facts that nobody recovered settle without a word.               *)
decide_NoCaveat(intent, proof, verdict, policy) ==
    Conclude(LegReasons(proof, policy) \cup ScreenReasons(verdict, policy)
               \cup CoverageReasons(intent, proof)
               \cup (IF proof.facts_source = "producer_recovered"
                     THEN BindingReasons(intent, proof) ELSE {}), {})

decide(intent, proof, verdict, policy) ==
    LET recovered == proof.facts_source = "producer_recovered"
        required  == policy.require_recovered_facts
    IN  Conclude(
          LegReasons(proof, policy) \cup ScreenReasons(verdict, policy)
            \cup CoverageReasons(intent, proof)
            \cup (IF recovered THEN BindingReasons(intent, proof)
                  ELSE IF required THEN {Unbound} ELSE {}),
          IF recovered \/ required THEN {} ELSE {Unbound})

(* The flagship form: only Matched, with the screen within the threshold,   *)
(* settles, and it settles without a caveat.                                *)
ReconcileReasons(proof) ==
    IF proof.reconcile = "matched" THEN {} ELSE {<<"reconcile", proof.reconcile>>}

(* Mutant: the screen is computed and never looked at.                      *)
decide_crossvm_Unscreened(proof, invariant, policy) ==
    Conclude(ReconcileReasons(proof), {})

decide_crossvm(proof, invariant, policy) ==
    Conclude(ReconcileReasons(proof) \cup ScreenReasons(invariant, policy), {})
=============================================================================
