----------------------------- MODULE Gate_proofs ----------------------------
(***************************************************************************)
(* What the gate promises for every account, asset, amount and code.        *)
(***************************************************************************)
EXTENDS Gate, TLAPS

(* The reasons of the two forms of the gate.                                *)
DecideReasons(intent, proof, verdict, policy) ==
    LegReasons(proof, policy) \cup ScreenReasons(verdict, policy)
      \cup CoverageReasons(intent, proof)
      \cup (IF proof.facts_source = "producer_recovered" THEN BindingReasons(intent, proof)
            ELSE IF policy.require_recovered_facts THEN {Unbound} ELSE {})

DecideCaveats(proof, policy) ==
    IF proof.facts_source = "producer_recovered" \/ policy.require_recovered_facts
    THEN {} ELSE {Unbound}

(* A conclusion settles exactly when there was no reason not to.            *)
LEMMA ConcludeSettles ==
  ASSUME NEW reasons, NEW caveats
  PROVE  /\ IsSettle(Conclude(reasons, caveats)) <=> reasons = {}
         /\ reasons = {} => Conclude(reasons, caveats) = Settle(caveats)
         /\ reasons # {} => Conclude(reasons, caveats) = Hold(reasons)
  BY DEF IsSettle, Conclude, Settle, Hold

(* The gate concludes from the reasons and the caveats it collected.        *)
LEMMA DecideConcludes ==
  ASSUME NEW intent, NEW proof, NEW verdict, NEW policy
  PROVE  decide(intent, proof, verdict, policy)
           = Conclude(DecideReasons(intent, proof, verdict, policy),
                      DecideCaveats(proof, policy))
  BY DEF decide, DecideReasons, DecideCaveats

(* The screen passes exactly when the level is within the threshold.        *)
LEMMA ScreenPasses ==
  ASSUME NEW verdict, NEW policy
  PROVE  ScreenReasons(verdict, policy) = {}
           <=> verdict.level <= policy.max_settle_severity
  <1>1. CASE verdict.level <= policy.max_settle_severity
    BY <1>1 DEF ScreenReasons
  <1>2. CASE ~(verdict.level <= policy.max_settle_severity)
    <2>1. CASE Offending(verdict, policy) = {}
      BY <1>2, <2>1 DEF ScreenReasons
    <2>2. CASE Offending(verdict, policy) # {}
      <3>1. PICK f \in Offending(verdict, policy) : TRUE
        BY <2>2
      <3>2. <<"finding", f.code>> \in ScreenReasons(verdict, policy)
        BY <1>2, <2>2, <3>1 DEF ScreenReasons
      <3> QED BY <1>2, <3>2
    <2> QED BY <2>1, <2>2
  <1> QED BY <1>1, <1>2

(* A fact binds exactly when it is there and equal.                         *)
LEMMA BindPasses ==
  ASSUME NEW field, NEW observed, NEW intended
  PROVE  bind(field, observed, intended) = {} <=> observed = {intended}
  BY DEF bind

(* src/decide.rs:161-165.  The flagship gate settles exactly when the legs  *)
(* reconcile as Matched and the screen is within the threshold, and such a  *)
(* settle has no caveat.                                                    *)
THEOREM CrossVmSettlesExactlyWhenSafe ==
  ASSUME NEW proof, NEW invariant, NEW policy
  PROVE  /\ IsSettle(decide_crossvm(proof, invariant, policy))
              <=> /\ proof.reconcile = "matched"
                  /\ invariant.level <= policy.max_settle_severity
         /\ IsSettle(decide_crossvm(proof, invariant, policy))
              => decide_crossvm(proof, invariant, policy) = Settle({})
  <1> DEFINE reasons == ReconcileReasons(proof) \cup ScreenReasons(invariant, policy)
  <1>1. decide_crossvm(proof, invariant, policy) = Conclude(reasons, {})
    BY DEF decide_crossvm
  <1>2. reasons = {} <=> ReconcileReasons(proof) = {} /\ ScreenReasons(invariant, policy) = {}
    OBVIOUS
  <1>3. ReconcileReasons(proof) = {} <=> proof.reconcile = "matched"
    BY DEF ReconcileReasons
  <1> HIDE DEF reasons
  <1> QED BY <1>1, <1>2, <1>3, ScreenPasses, ConcludeSettles

(* src/decide.rs:37-42.  A settle without a caveat is exactly a settlement  *)
(* whose every check was made and passed: the leg verifiable, executed if   *)
(* the policy asks for it, the screen within the threshold, every required  *)
(* account in scope, and every fact recovered by the producer and equal to  *)
(* the intent.                                                              *)
THEOREM CleanSettleIsFullyBoundAlways ==
  ASSUME NEW intent, NEW proof, NEW verdict, NEW policy
  PROVE  decide(intent, proof, verdict, policy) = Settle({}) <=>
           /\ ~proof.unverifiable
           /\ policy.require_executed => proof.executed
           /\ verdict.level <= policy.max_settle_severity
           /\ intent.required_accounts \subseteq proof.covered_accounts
           /\ proof.facts_source = "producer_recovered"
           /\ {proof.vm} = {intent.vm} /\ proof.asset = {intent.asset}
           /\ proof.amount = {intent.amount} /\ proof.recipient = {intent.recipient}
  <1> DEFINE reasons == DecideReasons(intent, proof, verdict, policy)
             caveats == DecideCaveats(proof, policy)
  <1>1. decide(intent, proof, verdict, policy) = Conclude(reasons, caveats)
    BY DecideConcludes
  <1>2. Conclude(reasons, caveats) = Settle({}) <=> reasons = {} /\ caveats = {}
    BY DEF Conclude, Settle, Hold
  <1>3. LegReasons(proof, policy) = {}
          <=> ~proof.unverifiable /\ (policy.require_executed => proof.executed)
    BY DEF LegReasons
  <1>4. CoverageReasons(intent, proof) = {}
          <=> intent.required_accounts \subseteq proof.covered_accounts
    BY DEF CoverageReasons
  <1>5. BindingReasons(intent, proof) = {}
          <=> /\ {proof.vm} = {intent.vm} /\ proof.asset = {intent.asset}
              /\ proof.amount = {intent.amount} /\ proof.recipient = {intent.recipient}
    BY BindPasses DEF BindingReasons
  <1>6. reasons = {} /\ caveats = {} <=>
          /\ LegReasons(proof, policy) = {} /\ ScreenReasons(verdict, policy) = {}
          /\ CoverageReasons(intent, proof) = {}
          /\ proof.facts_source = "producer_recovered"
          /\ BindingReasons(intent, proof) = {}
    BY DEF DecideReasons, DecideCaveats, Unbound
  <1> HIDE DEF reasons, caveats
  <1> QED BY <1>1, <1>2, <1>3, <1>4, <1>5, <1>6, ScreenPasses

(* One policy is stricter than another when every knob is.                  *)
StricterThan(strict, loose) ==
    /\ strict.max_settle_severity <= loose.max_settle_severity
    /\ loose.require_executed => strict.require_executed
    /\ loose.require_recovered_facts => strict.require_recovered_facts

(* src/decide.rs:11-25.  Tightening a policy never releases money: what     *)
(* settles under the stricter policy settles under the looser one, in both  *)
(* forms of the gate.                                                       *)
THEOREM TighteningNeverReleases ==
  ASSUME NEW strict \in GatePolicy, NEW loose \in GatePolicy, StricterThan(strict, loose),
         NEW intent, NEW proof, NEW verdict \in InvariantVerdict, NEW cross
  PROVE  /\ IsSettle(decide(intent, proof, verdict, strict))
              => IsSettle(decide(intent, proof, verdict, loose))
         /\ IsSettle(decide_crossvm(cross, verdict, strict))
              => IsSettle(decide_crossvm(cross, verdict, loose))
  <1>1. verdict.level <= strict.max_settle_severity
          => verdict.level <= loose.max_settle_severity
    <2>1. /\ verdict.level \in Int
          /\ strict.max_settle_severity \in Int /\ loose.max_settle_severity \in Int
      BY DEF InvariantVerdict, GatePolicy, Severity
    <2> QED BY <2>1 DEF StricterThan
  <1>2. LegReasons(proof, strict) = {} => LegReasons(proof, loose) = {}
    BY DEF LegReasons, StricterThan
  <1>3. ScreenReasons(verdict, strict) = {} => ScreenReasons(verdict, loose) = {}
    BY <1>1, ScreenPasses
  <1>4. DecideReasons(intent, proof, verdict, strict) = {}
          => DecideReasons(intent, proof, verdict, loose) = {}
    BY <1>2, <1>3 DEF DecideReasons, StricterThan
  <1>5. IsSettle(decide(intent, proof, verdict, strict))
          => IsSettle(decide(intent, proof, verdict, loose))
    BY <1>4, DecideConcludes, ConcludeSettles
  <1>6. IsSettle(decide_crossvm(cross, verdict, strict))
          => IsSettle(decide_crossvm(cross, verdict, loose))
    BY <1>1, CrossVmSettlesExactlyWhenSafe
  <1> QED BY <1>5, <1>6

(* The typing of a decision.                                                *)
LEMMA ConcludeType ==
  ASSUME NEW reasons \in SUBSET Reason, NEW caveats \in SUBSET Reason
  PROVE  Conclude(reasons, caveats) \in LiquetDecision
  BY DEF Conclude, Settle, Hold, LiquetDecision

LEMMA CrossVmDecisionType ==
  ASSUME NEW proof \in CrossVmProof, NEW invariant \in InvariantVerdict,
         NEW policy \in GatePolicy
  PROVE  decide_crossvm(proof, invariant, policy) \in LiquetDecision
  <1> DEFINE reasons == ReconcileReasons(proof) \cup ScreenReasons(invariant, policy)
  <1>1. ReconcileReasons(proof) \subseteq Reason
    BY DEF ReconcileReasons, Reason, CrossVmProof
  <1>2. ScreenReasons(invariant, policy) \subseteq Reason
    BY DEF ScreenReasons, Offending, Reason, InvariantVerdict, Finding
  <1>3. reasons \in SUBSET Reason
    BY <1>1, <1>2
  <1>4. decide_crossvm(proof, invariant, policy) = Conclude(reasons, {})
    BY DEF decide_crossvm
  <1> HIDE DEF reasons
  <1> QED BY <1>3, <1>4, ConcludeType

LEMMA DecideDecisionType ==
  ASSUME NEW intent, intent.required_accounts \subseteq Account, NEW proof,
         NEW verdict \in InvariantVerdict, NEW policy
  PROVE  decide(intent, proof, verdict, policy) \in LiquetDecision
  <1>1. LegReasons(proof, policy) \subseteq Reason
    BY DEF LegReasons, Reason
  <1>2. ScreenReasons(verdict, policy) \subseteq Reason
    BY DEF ScreenReasons, Offending, Reason, InvariantVerdict, Finding
  <1>3. CoverageReasons(intent, proof) \subseteq Reason
    BY DEF CoverageReasons, Reason
  <1>4. BindingReasons(intent, proof) \subseteq Reason
    <2>1. ASSUME NEW field \in {"vm", "asset", "amount", "recipient"}, NEW observed, NEW intended
          PROVE  bind(field, observed, intended) \subseteq Reason
      BY DEF bind, Reason
    <2> QED BY <2>1 DEF BindingReasons
  <1>5. Unbound \in Reason
    BY DEF Reason
  <1>6. DecideReasons(intent, proof, verdict, policy) \in SUBSET Reason
    BY <1>1, <1>2, <1>3, <1>4, <1>5 DEF DecideReasons
  <1>7. DecideCaveats(proof, policy) \in SUBSET Reason
    BY <1>5 DEF DecideCaveats
  <1> QED BY <1>6, <1>7, DecideConcludes, ConcludeType
=============================================================================
