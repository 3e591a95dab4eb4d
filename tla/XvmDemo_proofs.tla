---------------------------- MODULE XvmDemo_proofs --------------------------
(***************************************************************************)
(* The story of the cross-VM demo, for everything that producers which keep *)
(* to their contracts may report.                                           *)
(***************************************************************************)
EXTENDS XvmDemo, Gate_proofs, SequenceTheorems

LEMMA UnwrapOne ==
  ASSUME NEW v
  PROVE  unwrap({v}) = v
  BY DEF unwrap

(* What one scene settles on.                                               *)
SettlesOnlyIf(wired, name, e) ==
    /\ e.evm.executed /\ e.svm.executed /\ FactsHonorClaim(e)
    /\ name = "benign"
    /\ wired =>
         /\ unwrap(e.replay.after) = unwrap(e.replay.before) + AMOUNT
         /\ \A f \in e.custos.findings : f.level <= Info

(* A replay that passes delivered what the leg recovered.                   *)
LEMMA ReplayDelivers ==
  ASSUME NEW e \in Execution, invariant_from_svm_leg(e) # {},
         e.svm.amount = {AMOUNT}
  PROVE  /\ unwrap(e.replay.after) = unwrap(e.replay.before) + AMOUNT
         /\ e.replay.success
         /\ unwrap(invariant_from_svm_leg(e)).level = e.custos.level
  <1>1. ~ScreenFails(e.replay, e.svm)
    BY DEF invariant_from_svm_leg
  <1>2. /\ e.replay.success /\ e.replay.before # {} /\ e.replay.after # {}
        /\ ~ReplayDiverged(e.replay, e.svm)
    BY <1>1 DEF ScreenFails
  <1>3. /\ e.replay.before \in Option(Amount) /\ e.replay.after \in Option(Amount)
    BY DEF Execution, Replay
  <1>4. PICK before \in Amount : e.replay.before = {before}
    BY <1>2, <1>3 DEF Option
  <1>5. PICK after \in Amount : e.replay.after = {after}
    BY <1>2, <1>3 DEF Option
  <1>6. unwrap(e.replay.before) = before /\ unwrap(e.replay.after) = after
    BY <1>4, <1>5, UnwrapOne
  <1>7. before \in Nat /\ after \in Nat
    BY AmountAssumption
  <1>8. unwrap_or(e.svm.amount, 0) = AMOUNT
    BY UnwrapOne DEF unwrap_or
  <1>9. saturating_sub(after, before) = AMOUNT
    BY <1>2, <1>6, <1>8 DEF ReplayDiverged
  <1>10. after = before + AMOUNT
    BY <1>7, <1>9 DEF saturating_sub, AMOUNT
  <1>11. unwrap(invariant_from_svm_leg(e)) = verdict_from_custos(e.custos)
    BY <1>1, UnwrapOne DEF invariant_from_svm_leg
  <1> QED BY <1>2, <1>6, <1>10, <1>11 DEF verdict_from_custos

LEMMA SceneSettles ==
  ASSUME NEW name \in DOMAIN Delivery, NEW e \in Reports(name), ~Panics(e),
         wire_xvm \in BOOLEAN, name = "backdoored" => wire_xvm,
         IsSettle(decide_crossvm(CrossVmOf(e), invariant(e), DefaultPolicy))
  PROVE  SettlesOnlyIf(wire_xvm, name, e)
  <1>1. /\ e \in Execution /\ ReconcileContract(e) /\ CustosContract(e.custos)
        /\ e.claim = claim /\ Reexecutes(e.svm, Delivery[name]) /\ FlagsBackdoor(name, e)
    BY DemoAssumption DEF Reports, ProducerContract
  <1>2. /\ CrossVmOf(e).reconcile = "matched"
        /\ invariant(e).level <= DefaultPolicy.max_settle_severity
    BY CrossVmSettlesExactlyWhenSafe
  <1>3. e.receipt.verdict = "matched"
    BY <1>2 DEF CrossVmOf, crossvm_from_receipt
  <1>4. e.evm.executed /\ e.svm.executed /\ FactsHonorClaim(e) /\ ~e.svm.unverifiable
    BY <1>1, <1>3 DEF ReconcileContract, Verifiable
  <1>5. /\ e.svm.recipient = {"recipient"} /\ e.svm.amount = {AMOUNT}
    BY <1>1, <1>4 DEF FactsHonorClaim, claim
  <1>6. e.svm.recipient = {Delivery[name].recipient} /\ e.svm.amount = {Delivery[name].amount}
    BY <1>1, <1>4 DEF Reexecutes
  <1>7. name # "misdelivery"
    BY <1>5, <1>6 DEF Delivery, svm_spec
  <1>8. name # "half_open"
    BY <1>5, <1>6 DEF Delivery, svm_spec, AMOUNT
  <1>9. ASSUME wire_xvm
        PROVE  /\ unwrap(e.replay.after) = unwrap(e.replay.before) + AMOUNT
               /\ \A f \in e.custos.findings : f.level <= Info
               /\ name # "backdoored"
    <2>1. invariant_from_svm_leg(e) # {}
      BY <1>9 DEF Panics
    <2>2. /\ unwrap(e.replay.after) = unwrap(e.replay.before) + AMOUNT
          /\ e.replay.success /\ unwrap(invariant_from_svm_leg(e)).level = e.custos.level
      BY <1>1, <1>5, <2>1, ReplayDelivers
    <2>3. e.custos.level <= Info
      BY <1>2, <1>9, <2>2 DEF invariant, DefaultPolicy
    <2>4. e.custos \in CustosVerdict
      BY <1>1 DEF Execution
    <2>5. \A f \in e.custos.findings : f.level <= Info
      BY <1>1, <2>3, <2>4 DEF CustosContract, CustosVerdict, Severity, Info
    <2>6. name # "backdoored"
      <3>1. CASE name = "backdoored"
        <4>1. PICK f \in e.custos.findings : f.level = Red
          BY <1>1, <2>2, <3>1 DEF FlagsBackdoor
        <4> QED BY <2>5, <4>1 DEF Red, Info
      <3> QED BY <3>1
    <2> QED BY <2>2, <2>5, <2>6
  <1>10. name = "benign"
    BY <1>7, <1>8, <1>9 DEF Delivery
  <1> QED BY <1>4, <1>9, <1>10 DEF SettlesOnlyIf

(* What is on the screen, and what every scene so far came to.              *)
StoryInv ==
    /\ wire_xvm \in BOOLEAN
    /\ \A p \in shown : IsSettle(p.decision) => SettlesOnlyIf(wire_xvm, p.name, p.execution)
    /\ OnlyBenignSettles

LEMMA RunKeepsStory ==
  ASSUME StoryInv, NEW name \in DOMAIN Delivery, run(name)
  PROVE  StoryInv'
  <1>1. PICK e \in Reports(name) : IF Panics(e) THEN Abort ELSE Show(name, e)
    BY DEF run
  <1>2. wire_xvm' = wire_xvm /\ scene \in DOMAIN Script /\ name = Script[scene]
    BY DEF run
  <1>3. CASE Panics(e)
    BY <1>1, <1>2, <1>3 DEF Abort, StoryInv, OnlyBenignSettles
  <1>4. CASE ~Panics(e)
    <2> DEFINE decision == decide_crossvm(CrossVmOf(e), invariant(e), DefaultPolicy)
    <2>1. /\ shown' = {[name |-> name, execution |-> e, decision |-> decision]}
          /\ story' = [s \in DOMAIN story \cup {name} |->
                         IF s = name THEN decision ELSE story[s]]
      BY <1>1, <1>4 DEF Show
    <2>2. name = "backdoored" => wire_xvm
      BY <1>2 DEF Script
    <2>3. IsSettle(decision) => SettlesOnlyIf(wire_xvm, name, e)
      BY <1>4, <2>2, SceneSettles DEF StoryInv
    <2> HIDE DEF decision
    <2>4. \A p \in shown' : IsSettle(p.decision) => SettlesOnlyIf(wire_xvm', p.name, p.execution)
      BY <1>2, <2>1, <2>3
    <2>5. OnlyBenignSettles'
      BY <2>1, <2>3 DEF StoryInv, OnlyBenignSettles, SettlesOnlyIf
    <2> QED BY <1>2, <2>4, <2>5 DEF StoryInv
  <1> QED BY <1>3, <1>4

LEMMA StoryHolds == Spec => []StoryInv
  <1>1. Init => StoryInv
    BY DEF Init, StoryInv, OnlyBenignSettles
  <1>2. StoryInv /\ [Next]_vars => StoryInv'
    <2> SUFFICES ASSUME StoryInv, [Next]_vars PROVE StoryInv'
      OBVIOUS
    <2>1. CASE UNCHANGED <<wire_xvm, shown, story>>
      BY <2>1 DEF StoryInv, OnlyBenignSettles
    <2> QED BY <2>1, RunKeepsStory DEF Next, SelfCheck, vars
  <1> QED BY <1>1, <1>2, PTL DEF Spec

(* src/bin/xvm_demo.rs:11-15.  In either build no delivery but the first    *)
(* settles, whatever the legs, the receipts and the screens say.            *)
THEOREM BenignAloneSettles == Spec => []OnlyBenignSettles
  <1>1. StoryInv => OnlyBenignSettles
    BY DEF StoryInv
  <1> QED BY <1>1, StoryHolds, PTL

(* src/bin/xvm_demo.rs:11 and 22-24.  What settles honored the claim.       *)
THEOREM SettledScenesAreHonored == Spec => []SettledIsHonored
  <1>1. StoryInv => SettledIsHonored
    BY DEF StoryInv, SettledIsHonored, SettlesOnlyIf
  <1> QED BY <1>1, StoryHolds, PTL
-----------------------------------------------------------------------------
(* Type correctness.                                                        *)

Scenes(wired) == {"benign", "misdelivery", "half_open"} \cup (IF wired THEN {"backdoored"} ELSE {})

(* The script of either build.                                              *)
LEMMA ScriptIs ==
  ASSUME wire_xvm \in BOOLEAN
  PROVE  /\ DOMAIN Script = IF wire_xvm THEN 1..4 ELSE 1..3
         /\ \A i \in DOMAIN Script : Script[i] = "benign" <=> i = 1
         /\ \A i \in DOMAIN Script : Script[i] \in Scenes(wire_xvm)
  <1> DEFINE Name == {"benign", "misdelivery", "half_open", "backdoored"}
             start == <<"benign", "misdelivery", "half_open">>
             end == IF wire_xvm THEN <<"backdoored">> ELSE <<>>
  <1>1. start \in Seq(Name) /\ Len(start) = 3
    OBVIOUS
  <1>2. end \in Seq(Name) /\ Len(end) = (IF wire_xvm THEN 1 ELSE 0)
    <2>1. <<"backdoored">> \in Seq(Name) /\ Len(<<"backdoored">>) = 1
      OBVIOUS
    <2>2. <<>> \in Seq(Name) /\ Len(<<>>) = 0
      OBVIOUS
    <2>3. CASE wire_xvm
      <3>1. end = <<"backdoored">>
        BY <2>3
      <3> HIDE DEF end
      <3> QED BY <2>1, <2>3, <3>1
    <2>4. CASE ~wire_xvm
      <3>1. end = <<>>
        BY <2>4
      <3> HIDE DEF end
      <3> QED BY <2>2, <2>4, <3>1
    <2> QED BY <2>3, <2>4
  <1>3. start[1] = "benign" /\ start[2] = "misdelivery" /\ start[3] = "half_open"
    OBVIOUS
  <1>4. wire_xvm => end[1] = "backdoored"
    OBVIOUS
  <1>5. Script = start \o end
    BY DEF Script
  <1> HIDE DEF start, end
  <1>6. /\ start \o end \in Seq(Name) /\ Len(start \o end) = Len(start) + Len(end)
        /\ \A i \in 1..Len(start) + Len(end) :
             (start \o end)[i] = IF i <= Len(start) THEN start[i] ELSE end[i - Len(start)]
    BY <1>1, <1>2, ConcatProperties
  <1>7. DOMAIN Script = 1..3 + Len(end)
    BY <1>1, <1>5, <1>6, LenProperties
  <1>8. \A i \in 1..3 + Len(end) : Script[i] = IF i <= 3 THEN start[i] ELSE end[i - 3]
    BY <1>1, <1>5, <1>6
  <1>9. CASE wire_xvm
    <2>1. DOMAIN Script = 1..4
      BY <1>2, <1>7, <1>9
    <2>2. /\ Script[1] = "benign" /\ Script[2] = "misdelivery" /\ Script[3] = "half_open"
          /\ Script[4] = "backdoored"
      BY <1>2, <1>3, <1>4, <1>8, <1>9
    <2>3. \A i \in DOMAIN Script : i = 1 \/ i = 2 \/ i = 3 \/ i = 4
      BY <2>1
    <2> QED BY <1>9, <2>1, <2>2, <2>3 DEF Scenes
  <1>10. CASE ~wire_xvm
    <2>1. DOMAIN Script = 1..3
      BY <1>2, <1>7, <1>10
    <2>2. Script[1] = "benign" /\ Script[2] = "misdelivery" /\ Script[3] = "half_open"
      BY <1>2, <1>3, <1>8, <1>10
    <2>3. \A i \in DOMAIN Script : i = 1 \/ i = 2 \/ i = 3
      BY <2>1
    <2> QED BY <1>10, <2>1, <2>2, <2>3 DEF Scenes
  <1> QED BY <1>9, <1>10

(* What the adapters hand to the gate has the shape of the seam.            *)
LEMMA LegType ==
  ASSUME NEW leg \in ReconstructedLeg
  PROVE  proof_from_leg(leg) \in ReexecProof
  BY DEF proof_from_leg, ReconstructedLeg, ReexecProof, FactsSource

LEMMA CrossVmType ==
  ASSUME NEW e \in Execution
  PROVE  CrossVmOf(e) \in CrossVmProof
  <1>1. /\ e.evm \in ReconstructedLeg /\ e.svm \in ReconstructedLeg
        /\ e.receipt \in XvmReceipt
    BY DEF Execution
  <1>2. proof_from_leg(e.evm) \in ReexecProof /\ proof_from_leg(e.svm) \in ReexecProof
    BY <1>1, LegType
  <1>3. /\ e.receipt.verdict \in ReconcileVerdict /\ e.receipt.claim_hash \in ClaimHash
        /\ e.receipt.settlement_id \in SettlementId
    BY <1>1 DEF XvmReceipt
  <1> QED BY <1>2, <1>3 DEF CrossVmOf, crossvm_from_receipt, CrossVmProof

LEMMA ScreenType ==
  ASSUME NEW e \in Execution, ~Panics(e)
  PROVE  invariant(e) \in InvariantVerdict
  <1>1. e.custos \in CustosVerdict
    BY DEF Execution
  <1>2. e.custos.level \in Severity /\ e.custos.findings \subseteq [level : Severity, code : Code]
    BY <1>1 DEF CustosVerdict
  <1>3. {[severity |-> f.level, code |-> f.code] : f \in e.custos.findings} \subseteq Finding
    BY <1>2 DEF Finding
  <1>4. verdict_from_custos(e.custos) \in InvariantVerdict
    BY <1>2, <1>3 DEF verdict_from_custos, InvariantVerdict
  <1>5. CASE wire_xvm
    <2>1. invariant_from_svm_leg(e) # {}
      BY <1>5 DEF Panics
    <2>2. invariant_from_svm_leg(e) = {verdict_from_custos(e.custos)}
      BY <2>1 DEF invariant_from_svm_leg
    <2>3. unwrap(invariant_from_svm_leg(e)) = verdict_from_custos(e.custos)
      BY <2>2, UnwrapOne
    <2>4. invariant(e) = verdict_from_custos(e.custos)
      BY <1>5, <2>3 DEF invariant
    <2> QED BY <1>4, <2>4
  <1>6. CASE ~wire_xvm
    BY <1>6 DEF invariant, green, InvariantVerdict, Severity, Green
  <1> QED BY <1>5, <1>6

LEMMA DefaultPolicyType == DefaultPolicy \in GatePolicy
  BY DEF DefaultPolicy, GatePolicy, Severity, Info

LEMMA RunKeepsType ==
  ASSUME TypeOK, NEW name \in DOMAIN Delivery, run(name)
  PROVE  TypeOK'
  <1>1. PICK e \in Reports(name) :
          /\ IF Panics(e) THEN Abort ELSE Show(name, e)
          /\ benign' = IF name = "benign" THEN {e} ELSE benign
    BY DEF run
  <1>2. /\ wire_xvm' = wire_xvm /\ wire_xvm \in BOOLEAN
        /\ scene \in DOMAIN Script /\ name = Script[scene]
    BY DEF run, TypeOK
  <1>3. e \in Executions /\ e \in Execution
    BY DemoAssumption DEF Reports
  <1>4. benign' \subseteq Executions
    BY <1>1, <1>3 DEF TypeOK
  <1>5. CASE Panics(e)
    <2>1. exit' = {101} /\ scene' = scene /\ story' = story
      BY <1>1, <1>5 DEF Abort
    <2>2. IsOption({101}, {0, 1, 101})
      BY DEF IsOption
    <2> QED BY <1>2, <1>4, <2>1, <2>2 DEF TypeOK
  <1>6. CASE ~Panics(e)
    <2> DEFINE decision == decide_crossvm(CrossVmOf(e), invariant(e), DefaultPolicy)
    <2>1. /\ story' = [s \in DOMAIN story \cup {name} |->
                         IF s = name THEN decision ELSE story[s]]
          /\ scene' = scene + 1 /\ exit' = exit
      BY <1>1, <1>6 DEF Show
    <2>2. decision \in LiquetDecision
      BY <1>3, <1>6, CrossVmType, ScreenType, DefaultPolicyType, CrossVmDecisionType
    <2> HIDE DEF decision
    <2>3. scene' \in 1..5
      BY <1>2, <2>1, ScriptIs
    <2>4. name \in Scenes(wire_xvm)
      BY <1>2, ScriptIs
    <2>5. /\ DOMAIN story' \subseteq Scenes(wire_xvm)
          /\ \A s \in DOMAIN story' : story'[s] \in LiquetDecision
      BY <2>1, <2>2, <2>4 DEF TypeOK, Scenes
    <2> QED BY <1>2, <1>4, <2>1, <2>3, <2>5 DEF TypeOK, Scenes
  <1> QED BY <1>5, <1>6

(* The demo stays in its types, in either build.                            *)
THEOREM DemoTypeCorrect == Spec => []TypeOK
  <1>1. Init => TypeOK
    BY DEF Init, TypeOK, IsOption
  <1>2. TypeOK /\ [Next]_vars => TypeOK'
    <2> SUFFICES ASSUME TypeOK, [Next]_vars PROVE TypeOK'
      OBVIOUS
    <2>1. CASE UNCHANGED vars
      BY <2>1 DEF vars, TypeOK
    <2>2. CASE SelfCheck
      <3>1. exit' = {0} \/ exit' = {1}
        BY <2>2 DEF SelfCheck
      <3>2. IsOption(exit', {0, 1, 101})
        BY <3>1 DEF IsOption
      <3> QED BY <2>2, <3>2 DEF SelfCheck, TypeOK
    <2> QED BY <2>1, <2>2, RunKeepsType DEF Next
  <1> QED BY <1>1, <1>2, PTL DEF Spec
-----------------------------------------------------------------------------
(* The exit code.                                                           *)

(* Once the first scene is over, what it came to is in the story, and the   *)
(* execution it came from is the one that is kept for the self-check.       *)
FirstIsKept ==
    /\ scene = 1 => DOMAIN story = {}
    /\ scene # 1 => \E e \in Executions :
         /\ benign = {e} /\ "benign" \in DOMAIN story
         /\ story["benign"] = decide_crossvm(CrossVmOf(e), invariant(e), DefaultPolicy)

ExitInv == TypeOK /\ StoryInv /\ FirstIsKept /\ ExitAgreesWithStory

LEMMA RunKeepsFirst ==
  ASSUME TypeOK, FirstIsKept, NEW name \in DOMAIN Delivery, run(name)
  PROVE  FirstIsKept'
  <1>1. PICK e \in Reports(name) :
          /\ IF Panics(e) THEN Abort ELSE Show(name, e)
          /\ benign' = IF name = "benign" THEN {e} ELSE benign
    BY DEF run
  <1>2. /\ wire_xvm' = wire_xvm /\ wire_xvm \in BOOLEAN
        /\ scene \in DOMAIN Script /\ name = Script[scene]
    BY DEF run, TypeOK
  <1>3. name = "benign" <=> scene = 1
    BY <1>2, ScriptIs
  <1>4. e \in Executions
    BY DEF Reports
  <1> DEFINE first(x) == decide_crossvm(CrossVmOf(x), invariant(x), DefaultPolicy)
  <1>5. \A x : first(x)' = first(x)
    BY <1>2 DEF invariant
  <1>6. CASE Panics(e)
    <2>1. scene' = scene /\ story' = story
      BY <1>1, <1>6 DEF Abort
    <2>2. scene # 1 => benign' = benign
      BY <1>1, <1>3
    <2> QED BY <1>5, <2>1, <2>2 DEF FirstIsKept
  <1>7. CASE ~Panics(e)
    <2>1. /\ story' = [s \in DOMAIN story \cup {name} |->
                         IF s = name THEN first(e) ELSE story[s]]
          /\ scene' = scene + 1
      BY <1>1, <1>7 DEF Show
    <2>2. scene' # 1
      BY <2>1 DEF TypeOK
    <2>3. CASE scene = 1
      <3>1. benign' = {e}
        BY <1>1, <1>3, <2>3
      <3>2. "benign" \in DOMAIN story' /\ story'["benign"] = first(e)
        BY <1>3, <2>1, <2>3
      <3>3. story'["benign"] = first(e)'
        BY <1>5, <3>2
      <3> QED BY <1>4, <2>2, <3>1, <3>2, <3>3 DEF FirstIsKept
    <2>4. CASE scene # 1
      <3>1. PICK x \in Executions :
              benign = {x} /\ "benign" \in DOMAIN story /\ story["benign"] = first(x)
        BY <2>4 DEF FirstIsKept
      <3>2. name # "benign" /\ benign' = benign
        BY <1>1, <1>3, <2>4
      <3>3. "benign" \in DOMAIN story' /\ story'["benign"] = first(x)
        BY <2>1, <3>1, <3>2
      <3>4. story'["benign"] = first(x)'
        BY <1>5, <3>3
      <3> QED BY <2>2, <3>1, <3>2, <3>3, <3>4 DEF FirstIsKept
    <2> QED BY <2>3, <2>4
  <1> QED BY <1>6, <1>7

(* A first delivery that reconciles as matched settles, unless the live     *)
(* screen holds it.                                                         *)
LEMMA MatchedSettlesOrScreened ==
  ASSUME NEW e, CrossVmOf(e).reconcile = "matched", wire_xvm \in BOOLEAN,
         NEW decision, decision = decide_crossvm(CrossVmOf(e), invariant(e), DefaultPolicy)
  PROVE  \/ IsSettle(decision)
         \/ wire_xvm /\ \A r \in decision.reasons : r[1] \in {"finding", "level"}
  <1> DEFINE reasons == ReconcileReasons(CrossVmOf(e)) \cup ScreenReasons(invariant(e), DefaultPolicy)
  <1>1. decision = Conclude(reasons, {})
    BY DEF decide_crossvm
  <1>2. reasons = ScreenReasons(invariant(e), DefaultPolicy)
    BY DEF ReconcileReasons
  <1>3. CASE wire_xvm
    <2>1. \A r \in ScreenReasons(invariant(e), DefaultPolicy) : r[1] \in {"finding", "level"}
      BY DEF ScreenReasons
    <2> HIDE DEF reasons
    <2>2. IsSettle(decision) \/ decision.reasons = reasons
      BY <1>1 DEF Conclude, Settle, Hold, IsSettle
    <2> QED BY <1>2, <1>3, <2>1, <2>2
  <1>4. CASE ~wire_xvm
    <2>1. invariant(e).level <= DefaultPolicy.max_settle_severity
      BY <1>4 DEF invariant, green, DefaultPolicy, Green, Info
    <2>2. reasons = {}
      BY <1>2, <2>1, ScreenPasses
    <2> HIDE DEF reasons
    <2> QED BY <1>1, <2>2, ConcludeSettles
  <1> QED BY <1>3, <1>4

LEMMA SelfCheckAgrees ==
  ASSUME ExitInv, SelfCheck
  PROVE  ExitAgreesWithStory'
  <1>1. /\ wire_xvm' = wire_xvm /\ story' = story /\ scene \notin DOMAIN Script
        /\ exit' = {IF CrossVmOf(unwrap(benign)).reconcile = "matched" THEN 0 ELSE 1}
    BY DEF SelfCheck
  <1>2. wire_xvm \in BOOLEAN /\ scene # 1
    BY <1>1, ScriptIs DEF ExitInv, TypeOK
  <1>3. PICK e \in Executions :
          /\ benign = {e} /\ "benign" \in DOMAIN story
          /\ story["benign"] = decide_crossvm(CrossVmOf(e), invariant(e), DefaultPolicy)
    BY <1>2 DEF ExitInv, FirstIsKept
  <1>4. unwrap(benign) = e
    BY <1>3, UnwrapOne
  <1>5. CASE CrossVmOf(e).reconcile = "matched"
    <2>1. exit' = {0}
      BY <1>1, <1>4, <1>5
    <2>2. \/ IsSettle(story["benign"])
          \/ wire_xvm /\ \A r \in story["benign"].reasons : r[1] \in {"finding", "level"}
      BY <1>2, <1>3, <1>5, MatchedSettlesOrScreened
    <2> QED BY <1>1, <2>1, <2>2 DEF ExitAgreesWithStory
  <1>6. CASE CrossVmOf(e).reconcile # "matched"
    <2>1. exit' = {1}
      BY <1>1, <1>4, <1>6
    <2>2. ~IsSettle(story["benign"])
      BY <1>3, <1>6, CrossVmSettlesExactlyWhenSafe
    <2>3. \A s \in DOMAIN story : ~IsSettle(story[s])
      BY <2>2 DEF ExitInv, StoryInv, OnlyBenignSettles
    <2> QED BY <1>1, <2>1, <2>3 DEF ExitAgreesWithStory
  <1> QED BY <1>5, <1>6

(* src/bin/xvm_demo.rs:168.  The exit code agrees with the screen, for all  *)
(* that the producers may report, in either build.                          *)
THEOREM ExitTellsTheStory == Spec => []ExitAgreesWithStory
  <1>1. Init => FirstIsKept /\ ExitAgreesWithStory
    BY DEF Init, FirstIsKept, ExitAgreesWithStory
  <1>2. ExitInv /\ TypeOK' /\ StoryInv' /\ [Next]_vars => FirstIsKept' /\ ExitAgreesWithStory'
    <2> SUFFICES ASSUME ExitInv, [Next]_vars PROVE FirstIsKept' /\ ExitAgreesWithStory'
      OBVIOUS
    <2>1. CASE UNCHANGED vars
      BY <2>1 DEF vars, ExitInv, FirstIsKept, ExitAgreesWithStory, invariant
    <2>2. ASSUME NEW name \in DOMAIN Delivery, run(name) PROVE FirstIsKept' /\ ExitAgreesWithStory'
      <3>1. FirstIsKept'
        BY <2>2, RunKeepsFirst DEF ExitInv
      <3>2. exit' = {} \/ exit' = {101}
        BY <2>2 DEF run, Abort, Show
      <3> QED BY <3>1, <3>2 DEF ExitAgreesWithStory
    <2>3. CASE SelfCheck
      <3>1. /\ scene' = scene /\ story' = story /\ benign' = benign /\ wire_xvm' = wire_xvm
        BY <2>3 DEF SelfCheck
      <3>2. FirstIsKept'
        BY <3>1 DEF ExitInv, FirstIsKept, invariant
      <3> QED BY <2>3, <3>2, SelfCheckAgrees
    <2> QED BY <2>1, <2>2, <2>3 DEF Next
  <1>3. TypeOK /\ StoryInv /\ FirstIsKept /\ ExitAgreesWithStory <=> ExitInv
    BY DEF ExitInv
  <1> QED BY <1>1, <1>2, <1>3, DemoTypeCorrect, StoryHolds, PTL DEF Spec
=============================================================================
