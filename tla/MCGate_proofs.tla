---------------------------- MODULE MCGate_proofs ---------------------------
(***************************************************************************)
(* The gate under decay: nothing a step broke is hidden, and no step but    *)
(* the loss of the recovered facts turns a hold into a settle.              *)
(***************************************************************************)
EXTENDS MCGate, Gate_proofs

Fact == {"asset", "amount", "recipient"}

TypeInv ==
    /\ proof \in [vm : Vm, executed : BOOLEAN, poststate_digest : {"d"},
                  covered_accounts : SUBSET {"vault", "payer"},
                  facts_source : FactsSource, asset : SUBSET {"usdc", "fake"},
                  amount : SUBSET Int, recipient : SUBSET {"alice", "mallory"},
                  unverifiable : BOOLEAN]
    /\ verdict \in [level : Severity, findings : SUBSET Screenable]
    /\ \A f \in verdict.findings : f.severity <= verdict.level
    /\ policy \in GatePolicy

(* A defect is still there, or the facts it was about are not recovered.    *)
Caller == proof.facts_source = "caller_asserted"
Present(d) ==
    \/ d = <<"leg", "not_executed">> /\ ~proof.executed
    \/ d = <<"leg", "unverifiable">> /\ proof.unverifiable
    \/ \E a \in intent.required_accounts :
         d = <<"uncovered", a>> /\ a \notin proof.covered_accounts
    \/ \E f \in Fact : d = <<"missing", f>> /\ proof[f] = {}
    \/ \E f \in Fact : /\ d = <<"differs", f>>
                       /\ Caller \/ (proof[f] # {} /\ proof[f] # {intent[f]})
    \/ d = <<"differs", "vm">> /\ (Caller \/ proof.vm # intent.vm)
    \/ d = Unbound /\ Caller
    \/ \E f \in verdict.findings : d = <<"finding", f.code>>

GInv == TypeInv /\ \A d \in defects : Present(d)

reasons == DecideReasons(intent, proof, verdict, policy)

(* What the decision is made of.                                            *)
LEMMA DecisionParts ==
  /\ IsSettle(decision) <=> reasons = {}
  /\ reasons = {} => decision = Settle(DecideCaveats(proof, policy))
  /\ reasons # {} => decision = Hold(reasons)
  BY DecideConcludes, ConcludeSettles DEF decision, reasons

LEMMA SettleHoldFields ==
  ASSUME NEW S
  PROVE  Settle(S).caveats = S /\ Hold(S).reasons = S
  BY DEF Settle, Hold

-----------------------------------------------------------------------------
(* A step that damages the proof adds its defect and takes none away.       *)
LEMMA DamageKeepsInv ==
  ASSUME GInv, NEW damaged, NEW defect, DamageProof(damaged, defect),
         damaged \in [vm : Vm, executed : BOOLEAN, poststate_digest : {"d"},
                      covered_accounts : SUBSET {"vault", "payer"},
                      facts_source : FactsSource, asset : SUBSET {"usdc", "fake"},
                      amount : SUBSET Int, recipient : SUBSET {"alice", "mallory"},
                      unverifiable : BOOLEAN],
         \A d : Present(d) => Present(d)',
         Present(defect)'
  PROVE  GInv'
  <1>1. /\ proof' = damaged /\ verdict' = verdict /\ policy' = policy
        /\ defects' = defects \cup {defect}
    BY DEF DamageProof
  <1>2. TypeInv'
    BY <1>1 DEF GInv, TypeInv
  <1>3. ASSUME NEW d \in defects' PROVE Present(d)'
    <2>1. CASE d = defect
      BY <2>1
    <2>2. CASE d \in defects
      BY <2>2 DEF GInv
    <2> QED BY <1>1, <2>1, <2>2
  <1> QED BY <1>2, <1>3 DEF GInv

(* Damage that leaves the binding of the facts alone, or breaks one more.   *)
WorseProof(p) ==
    /\ p.executed => proof.executed
    /\ proof.unverifiable => p.unverifiable
    /\ p.covered_accounts \subseteq proof.covered_accounts
    /\ p.facts_source = proof.facts_source
    /\ p.vm # proof.vm => proof.vm = intent.vm
    /\ \A f \in Fact : p[f] # proof[f] => proof[f] = {intent[f]}

Damaged == [vm : Vm, executed : BOOLEAN, poststate_digest : {"d"},
            covered_accounts : SUBSET {"vault", "payer"},
            facts_source : FactsSource, asset : SUBSET {"usdc", "fake"},
            amount : SUBSET Int, recipient : SUBSET {"alice", "mallory"}, unverifiable : BOOLEAN]

(* Worse damage keeps every defect that was there.                          *)
LEMMA WorseKeepsDefects ==
  ASSUME NEW p, WorseProof(p), proof' = p, verdict' = verdict
  PROVE  \A d : Present(d) => Present(d)'
  <1> SUFFICES ASSUME NEW d, Present(d) PROVE Present(d)'
    OBVIOUS
  <1>1. Caller => Caller'
    BY DEF WorseProof, Caller
  <1>2. CASE d = <<"leg", "not_executed">> /\ ~proof.executed
    BY <1>2 DEF WorseProof, Present
  <1>3. CASE d = <<"leg", "unverifiable">> /\ proof.unverifiable
    BY <1>3 DEF WorseProof, Present
  <1>4. CASE \E a \in intent.required_accounts :
               d = <<"uncovered", a>> /\ a \notin proof.covered_accounts
    BY <1>4 DEF WorseProof, Present, intent
  <1>5. CASE \E f \in Fact : d = <<"missing", f>> /\ proof[f] = {}
    <2>1. PICK f \in Fact : d = <<"missing", f>> /\ proof[f] = {}
      BY <1>5
    <2>2. proof'[f] = {}
      BY <2>1 DEF WorseProof
    <2> QED BY <2>1, <2>2 DEF Present
  <1>6. CASE \E f \in Fact : /\ d = <<"differs", f>>
                             /\ Caller \/ (proof[f] # {} /\ proof[f] # {intent[f]})
    <2>1. PICK f \in Fact : /\ d = <<"differs", f>>
                            /\ Caller \/ (proof[f] # {} /\ proof[f] # {intent[f]})
      BY <1>6
    <2>2. Caller' \/ (proof'[f] # {} /\ proof'[f] # {intent[f]})
      BY <1>1, <2>1 DEF WorseProof
    <2> QED BY <2>1, <2>2 DEF Present, intent
  <1>7. CASE d = <<"differs", "vm">> /\ (Caller \/ proof.vm # intent.vm)
    BY <1>1, <1>7 DEF WorseProof, Present, intent
  <1>8. CASE d = Unbound /\ Caller
    BY <1>1, <1>8 DEF Present
  <1>9. CASE \E f \in verdict.findings : d = <<"finding", f.code>>
    BY <1>9 DEF Present
  <1> QED BY <1>2, <1>3, <1>4, <1>5, <1>6, <1>7, <1>8, <1>9 DEF Present

(* The steps of Worsen that damage the proof, and the defect each adds.     *)
LEMMA ProofDamage ==
  ASSUME GInv, FailLeg \/ LoseCoverage \/ LoseFact \/ AlterFact
  PROVE  \E p, defect :
           p \in Damaged /\ DamageProof(p, defect) /\ WorseProof(p) /\ Present(defect)'
  <1>1. /\ proof \in Damaged
        /\ intent.required_accounts = {"vault", "payer"} /\ intent.vm = "svm"
        /\ intent.asset = "usdc" /\ intent.amount = 1 /\ intent.recipient = "alice"
    BY DEF GInv, TypeInv, Damaged, intent
  <1>2. CASE FailLeg
    <2>1. CASE DamageProof([proof EXCEPT !.executed = FALSE], <<"leg", "not_executed">>)
      <3> DEFINE p == [proof EXCEPT !.executed = FALSE]
      <3>1. p \in Damaged /\ WorseProof(p) /\ ~p.executed
        BY <1>1 DEF Damaged, WorseProof, Fact
      <3>2. Present(<<"leg", "not_executed">>)'
        BY <2>1, <3>1 DEF DamageProof, Present
      <3> HIDE DEF p
      <3> QED BY <2>1, <3>1, <3>2 DEF p
    <2>2. CASE DamageProof([proof EXCEPT !.unverifiable = TRUE], <<"leg", "unverifiable">>)
      <3> DEFINE p == [proof EXCEPT !.unverifiable = TRUE]
      <3>1. p \in Damaged /\ WorseProof(p) /\ p.unverifiable
        BY <1>1 DEF Damaged, WorseProof, Fact
      <3>2. Present(<<"leg", "unverifiable">>)'
        BY <2>2, <3>1 DEF DamageProof, Present
      <3> HIDE DEF p
      <3> QED BY <2>2, <3>1, <3>2 DEF p
    <2> QED BY <1>2, <2>1, <2>2 DEF FailLeg
  <1>3. CASE LoseCoverage
    <2>1. PICK a \in proof.covered_accounts :
            DamageProof([proof EXCEPT !.covered_accounts = @ \ {a}], <<"uncovered", a>>)
      BY <1>3 DEF LoseCoverage
    <2> DEFINE p == [proof EXCEPT !.covered_accounts = @ \ {a}]
    <2>2. p \in Damaged /\ WorseProof(p) /\ a \notin p.covered_accounts
      BY <1>1 DEF Damaged, WorseProof, Fact
    <2>3. a \in intent.required_accounts
      BY <1>1 DEF Damaged
    <2>4. Present(<<"uncovered", a>>)'
      BY <2>1, <2>2, <2>3 DEF DamageProof, Present, intent
    <2> HIDE DEF p
    <2> QED BY <2>1, <2>2, <2>4 DEF p
  <1>4. CASE LoseFact
    <2>1. PICK f \in Fact : /\ proof[f] = {intent[f]}
                            /\ DamageProof([proof EXCEPT ![f] = {}], <<"missing", f>>)
      BY <1>4 DEF LoseFact, Fact
    <2> DEFINE p == [proof EXCEPT ![f] = {}]
    <2>2. p \in Damaged /\ WorseProof(p) /\ p[f] = {}
      BY <1>1, <2>1 DEF Damaged, WorseProof, Fact
    <2>3. Present(<<"missing", f>>)'
      BY <2>1, <2>2 DEF DamageProof, Present
    <2> HIDE DEF p
    <2> QED BY <2>1, <2>2, <2>3 DEF p
  <1>5. CASE AlterFact
    <2>1. CASE /\ proof.vm = "svm"
               /\ DamageProof([proof EXCEPT !.vm = "evm"], <<"differs", "vm">>)
      <3> DEFINE p == [proof EXCEPT !.vm = "evm"]
      <3>1. p \in Damaged /\ WorseProof(p) /\ p.vm = "evm"
        BY <1>1, <2>1 DEF Damaged, WorseProof, Fact, Vm
      <3>2. Present(<<"differs", "vm">>)'
        BY <1>1, <2>1, <3>1 DEF DamageProof, Present, intent
      <3> HIDE DEF p
      <3> QED BY <2>1, <3>1, <3>2 DEF p
    <2>2. CASE \E f \in Fact : \E wrong \in WrongFacts[f] :
                 /\ proof[f] = {intent[f]}
                 /\ DamageProof([proof EXCEPT ![f] = {wrong}], <<"differs", f>>)
      <3>0. PICK f \in Fact : \E wrong \in WrongFacts[f] :
              /\ proof[f] = {intent[f]}
              /\ DamageProof([proof EXCEPT ![f] = {wrong}], <<"differs", f>>)
        BY <2>2
      <3>1. PICK wrong \in WrongFacts[f] :
              /\ proof[f] = {intent[f]}
              /\ DamageProof([proof EXCEPT ![f] = {wrong}], <<"differs", f>>)
        BY <3>0
      <3> DEFINE p == [proof EXCEPT ![f] = {wrong}]
      <3>2. wrong # intent[f] /\ (f = "asset" => wrong = "fake")
              /\ (f = "amount" => wrong \in Int) /\ (f = "recipient" => wrong = "mallory")
        <4>1. CASE f = "asset"
          BY <1>1, <3>1, <4>1 DEF WrongFacts
        <4>2. CASE f = "amount"
          BY <1>1, <3>1, <4>2 DEF WrongFacts
        <4>3. CASE f = "recipient"
          BY <1>1, <3>1, <4>3 DEF WrongFacts
        <4> QED BY <4>1, <4>2, <4>3 DEF Fact
      <3>3. p \in Damaged /\ WorseProof(p) /\ p[f] = {wrong}
        BY <1>1, <3>1, <3>2 DEF Damaged, WorseProof, Fact
      <3>4. Present(<<"differs", f>>)'
        BY <3>1, <3>2, <3>3 DEF DamageProof, Present, intent
      <3> HIDE DEF p
      <3> QED BY <3>1, <3>3, <3>4 DEF p
    <2> QED BY <1>5, <2>1, <2>2 DEF AlterFact, Fact
  <1> QED BY <1>2, <1>3, <1>4, <1>5

(* The steps that only change the screen.                                   *)
LEMMA ScreenWorsens ==
  ASSUME GInv, AddFinding \/ RaiseLevel
  PROVE  /\ UNCHANGED <<proof, policy>>
         /\ verdict.findings \subseteq verdict'.findings
         /\ verdict'.findings \subseteq Screenable
         /\ verdict'.level \in Severity /\ verdict.level <= verdict'.level
         /\ verdict' \in [level : Severity, findings : SUBSET Screenable]
         /\ \A f \in verdict'.findings : f.severity <= verdict'.level
         /\ \A d \in defects' : d \in defects \/ \E f \in verdict'.findings : d = <<"finding", f.code>>
  <1>1. /\ verdict \in [level : Severity, findings : SUBSET Screenable]
        /\ \A f \in verdict.findings : f.severity <= verdict.level
    BY DEF GInv, TypeInv
  <1>2. \A f \in Screenable : f.severity \in Severity
    BY DEF Screenable, Severity, Info, Red
  <1>3. CASE AddFinding
    <2>1. PICK f \in Screenable \ verdict.findings :
            /\ verdict' = [level |-> IF f.severity > verdict.level THEN f.severity
                                     ELSE verdict.level,
                           findings |-> verdict.findings \cup {f}]
            /\ defects' = defects \cup {<<"finding", f.code>>}
            /\ UNCHANGED <<proof, policy>>
      BY <1>3 DEF AddFinding
    <2>2. /\ verdict'.findings = verdict.findings \cup {f}
          /\ verdict'.level = IF f.severity > verdict.level THEN f.severity ELSE verdict.level
      BY <2>1
    <2>3. verdict'.level \in Severity /\ verdict.level <= verdict'.level
            /\ f.severity <= verdict'.level
      BY <1>1, <1>2, <2>2 DEF Severity
    <2>4. \A g \in verdict'.findings : g.severity <= verdict'.level
      <3> SUFFICES ASSUME NEW g \in verdict'.findings PROVE g.severity <= verdict'.level
        OBVIOUS
      <3>1. CASE g = f
        BY <2>3, <3>1
      <3>2. CASE g \in verdict.findings
        <4>1. g.severity <= verdict.level /\ g \in Screenable
          BY <1>1, <3>2
        <4>2. g.severity \in Int /\ verdict.level \in Int /\ verdict'.level \in Int
          BY <1>1, <1>2, <2>3, <4>1 DEF Severity
        <4> QED BY <2>3, <4>1, <4>2
      <3> QED BY <2>2, <3>1, <3>2
    <2>5. verdict' \in [level : Severity, findings : SUBSET Screenable]
      BY <1>1, <2>1, <2>2, <2>3
    <2> QED BY <2>1, <2>2, <2>3, <2>4, <2>5
  <1>4. CASE RaiseLevel
    <2>1. /\ verdict.level < Red /\ verdict' = [verdict EXCEPT !.level = @ + 1]
          /\ UNCHANGED <<proof, policy, defects>>
      BY <1>4 DEF RaiseLevel
    <2>2. /\ verdict'.level = verdict.level + 1 /\ verdict'.findings = verdict.findings
          /\ verdict'.level \in Severity
      BY <1>1, <2>1 DEF Severity, Red
    <2>3. \A g \in verdict.findings : g.severity <= verdict.level + 1
      <3> SUFFICES ASSUME NEW g \in verdict.findings PROVE g.severity <= verdict.level + 1
        OBVIOUS
      <3>1. g.severity \in Int /\ verdict.level \in Int
        BY <1>1, <1>2 DEF Severity
      <3> QED BY <1>1, <3>1
    <2>4. verdict' \in [level : Severity, findings : SUBSET Screenable]
      BY <1>1, <2>1, <2>2
    <2>5. verdict.level <= verdict'.level
      BY <1>1, <2>2 DEF Severity
    <2> QED BY <1>1, <2>1, <2>2, <2>3, <2>4, <2>5
  <1> QED BY <1>3, <1>4
(* Losing the recovered facts keeps every defect: the facts are unbound.    *)
LEMMA ForgetKeepsDefects ==
  ASSUME GInv, ForgetFacts
  PROVE  GInv'
  <1> DEFINE p == [proof EXCEPT !.facts_source = "caller_asserted", !.vm = "svm",
                                !.asset = {}, !.amount = {}, !.recipient = {}]
  <1>1. proof \in Damaged /\ DamageProof(p, Unbound)
    BY DEF GInv, TypeInv, Damaged, ForgetFacts
  <1>2. /\ p \in Damaged /\ p.facts_source = "caller_asserted"
        /\ p.executed = proof.executed /\ p.unverifiable = proof.unverifiable
        /\ p.covered_accounts = proof.covered_accounts
        /\ \A f \in Fact : p[f] = {}
    BY <1>1 DEF Damaged, Vm, FactsSource, Fact
  <1> HIDE DEF p
  <1>3. proof' = p /\ verdict' = verdict
    BY <1>1 DEF DamageProof
  <1>4. Caller'
    BY <1>2, <1>3 DEF Caller
  <1>5. Present(Unbound)'
    BY <1>4 DEF Present
  <1>6. ASSUME NEW d, Present(d) PROVE Present(d)'
    <2>1. CASE d = <<"leg", "not_executed">> /\ ~proof.executed
      BY <1>2, <1>3, <2>1 DEF Present
    <2>2. CASE d = <<"leg", "unverifiable">> /\ proof.unverifiable
      BY <1>2, <1>3, <2>2 DEF Present
    <2>3. CASE \E a \in intent.required_accounts :
                 d = <<"uncovered", a>> /\ a \notin proof.covered_accounts
      BY <1>2, <1>3, <2>3 DEF Present, intent
    <2>4. CASE \E f \in Fact : d = <<"missing", f>> /\ proof[f] = {}
      BY <1>2, <1>3, <2>4 DEF Present
    <2>5. CASE \E f \in Fact : d = <<"differs", f>>
      BY <1>4, <2>5 DEF Present
    <2>6. CASE d = <<"differs", "vm">>
      BY <1>4, <2>6 DEF Present
    <2>7. CASE d = Unbound
      BY <1>5, <2>7
    <2>8. CASE \E f \in verdict.findings : d = <<"finding", f.code>>
      BY <1>3, <2>8 DEF Present
    <2> QED BY <1>6, <2>1, <2>2, <2>3, <2>4, <2>5, <2>6, <2>7, <2>8 DEF Present
  <1> QED BY <1>1, <1>2, <1>5, <1>6, DamageKeepsInv DEF Damaged

(* More findings, a higher level, and a stricter policy keep every defect.  *)
LEMMA ScreenKeepsInv ==
  ASSUME GInv, AddFinding \/ RaiseLevel
  PROVE  GInv'
  <1>1. TypeInv'
    BY ScreenWorsens DEF GInv, TypeInv
  <1>2. ASSUME NEW d, Present(d) PROVE Present(d)'
    <2>1. CASE \E f \in verdict.findings : d = <<"finding", f.code>>
      BY <2>1, ScreenWorsens DEF Present
    <2> QED BY <1>2, <2>1, ScreenWorsens DEF Present, Caller, intent
  <1>3. ASSUME NEW d \in defects' PROVE Present(d)'
    <2>1. CASE d \in defects
      BY <1>2, <2>1 DEF GInv
    <2>2. CASE \E f \in verdict'.findings : d = <<"finding", f.code>>
      BY <2>2 DEF Present
    <2> QED BY <2>1, <2>2, ScreenWorsens
  <1> QED BY <1>1, <1>3 DEF GInv

(* What a stricter policy is.                                               *)
LEMMA TighterPolicy ==
  ASSUME GInv, Tighten
  PROVE  /\ UNCHANGED <<proof, verdict, defects>> /\ policy' \in GatePolicy
         /\ policy'.max_settle_severity <= policy.max_settle_severity
         /\ policy.require_executed => policy'.require_executed
         /\ policy.require_recovered_facts => policy'.require_recovered_facts
  <1>1. policy \in GatePolicy
    BY DEF GInv, TypeInv
  <1>2. CASE /\ policy.max_settle_severity > Green
             /\ policy' = [policy EXCEPT !.max_settle_severity = @ - 1]
    BY <1>1, <1>2 DEF GatePolicy, Severity, Green, Tighten
  <1>3. CASE \E knob \in {"require_executed", "require_recovered_facts"} :
               policy' = [policy EXCEPT ![knob] = TRUE]
    <2>1. PICK knob \in {"require_executed", "require_recovered_facts"} :
            policy' = [policy EXCEPT ![knob] = TRUE]
      BY <1>3
    <2>2. policy' \in GatePolicy /\ policy'.max_settle_severity = policy.max_settle_severity
      BY <1>1, <2>1 DEF GatePolicy
    <2>3. policy.max_settle_severity <= policy.max_settle_severity
      BY <1>1 DEF GatePolicy, Severity
    <2>4. /\ policy.require_executed => policy'.require_executed
          /\ policy.require_recovered_facts => policy'.require_recovered_facts
      BY <1>1, <2>1 DEF GatePolicy
    <2> QED BY <2>2, <2>3, <2>4 DEF Tighten
  <1> QED BY <1>2, <1>3 DEF Tighten

LEMMA TightenKeepsInv ==
  ASSUME GInv, Tighten
  PROVE  GInv'
  <1>1. TypeInv'
    BY TighterPolicy DEF GInv, TypeInv
  <1>2. \A d \in defects' : Present(d)'
    BY TighterPolicy DEF GInv, Present, Caller, intent
  <1> QED BY <1>1, <1>2 DEF GInv

(* Every defect that was ever introduced is still there to be seen.         *)
LEMMA DefectsStay == Spec => []GInv
  <1>1. Init => GInv
    BY DEF Init, GInv, TypeInv, Vm, FactsSource, Severity, GatePolicy, Green, Red
  <1>2. GInv /\ [Next]_vars => GInv'
    <2> SUFFICES ASSUME GInv, [Next]_vars PROVE GInv'
      OBVIOUS
    <2>1. CASE UNCHANGED vars
      BY <2>1 DEF vars, GInv, TypeInv, Present, Caller, intent
    <2>2. CASE FailLeg \/ LoseCoverage \/ LoseFact \/ AlterFact
      <3>1. PICK p, defect :
              p \in Damaged /\ DamageProof(p, defect) /\ WorseProof(p) /\ Present(defect)'
        BY <2>2, ProofDamage
      <3>2. \A d : Present(d) => Present(d)'
        BY <3>1, WorseKeepsDefects DEF DamageProof
      <3> QED BY <3>1, <3>2, DamageKeepsInv DEF Damaged
    <2> QED BY <2>1, <2>2, ForgetKeepsDefects, ScreenKeepsInv, TightenKeepsInv
            DEF Next, Worsen
  <1> QED BY <1>1, <1>2, PTL DEF Spec
-----------------------------------------------------------------------------
(* A defect that is present and not waived is among the reasons.            *)
LEMMA PresentIsReason ==
  ASSUME GInv, NEW d, Present(d), ~Waived(d)
  PROVE  d \in reasons \/ (d = Unbound /\ Caller /\ ~policy.require_recovered_facts)
  <1>1. proof.facts_source = "producer_recovered" <=> ~Caller
    BY DEF GInv, TypeInv, FactsSource, Caller
  <1>2. CASE d = <<"leg", "not_executed">> /\ ~proof.executed
    BY <1>2 DEF Waived, reasons, DecideReasons, LegReasons
  <1>3. CASE d = <<"leg", "unverifiable">> /\ proof.unverifiable
    BY <1>3 DEF reasons, DecideReasons, LegReasons
  <1>4. CASE \E a \in intent.required_accounts :
               d = <<"uncovered", a>> /\ a \notin proof.covered_accounts
    BY <1>4 DEF reasons, DecideReasons, CoverageReasons
  <1>5. CASE \E f \in Fact : d = <<"missing", f>> /\ proof[f] = {}
    <2>1. PICK f \in Fact : d = <<"missing", f>> /\ proof[f] = {}
      BY <1>5
    <2>2. ~Caller
      BY <2>1 DEF Waived, Caller
    <2>3. d \in bind(f, proof[f], intent[f])
      BY <2>1 DEF bind
    <2>4. d \in BindingReasons(intent, proof)
      BY <2>1, <2>3 DEF BindingReasons, Fact
    <2> QED BY <1>1, <2>2, <2>4 DEF reasons, DecideReasons
  <1>6. CASE \E f \in Fact : /\ d = <<"differs", f>>
                             /\ Caller \/ (proof[f] # {} /\ proof[f] # {intent[f]})
    <2>1. PICK f \in Fact : /\ d = <<"differs", f>>
                            /\ Caller \/ (proof[f] # {} /\ proof[f] # {intent[f]})
      BY <1>6
    <2>2. ~Caller
      BY <2>1 DEF Waived, Caller
    <2>3. d \in bind(f, proof[f], intent[f])
      BY <2>1, <2>2 DEF bind
    <2>4. d \in BindingReasons(intent, proof)
      BY <2>1, <2>3 DEF BindingReasons, Fact
    <2> QED BY <1>1, <2>2, <2>4 DEF reasons, DecideReasons
  <1>7. CASE d = <<"differs", "vm">> /\ (Caller \/ proof.vm # intent.vm)
    <2>1. ~Caller
      BY <1>7 DEF Waived, Caller
    <2>2. d \in bind("vm", {proof.vm}, intent.vm)
      BY <1>7, <2>1 DEF bind
    <2> QED BY <1>1, <2>1, <2>2 DEF reasons, DecideReasons, BindingReasons
  <1>8. CASE d = Unbound /\ Caller
    BY <1>1, <1>8 DEF reasons, DecideReasons
  <1>9. CASE \E f \in verdict.findings : d = <<"finding", f.code>>
    <2>1. PICK f \in verdict.findings : d = <<"finding", f.code>>
      BY <1>9
    <2>2. PICK g \in Screenable : g.code = f.code /\ ~(g.severity <= policy.max_settle_severity)
      BY <2>1 DEF Waived
    <2>3. /\ f \in Screenable /\ f.severity <= verdict.level
          /\ verdict.level \in Int /\ policy.max_settle_severity \in Int
      BY <2>1 DEF GInv, TypeInv, GatePolicy, Severity
    <2>4. f = g /\ f.severity \in Int
      BY <2>2, <2>3 DEF Screenable, Info, Red
    <2>5. f \in Offending(verdict, policy) /\ ~(verdict.level <= policy.max_settle_severity)
      BY <2>1, <2>2, <2>3, <2>4 DEF Offending
    <2>6. d \in ScreenReasons(verdict, policy)
      BY <2>1, <2>5 DEF ScreenReasons
    <2> QED BY <2>6 DEF reasons, DecideReasons
  <1> QED BY <1>2, <1>3, <1>4, <1>5, <1>6, <1>7, <1>8, <1>9 DEF Present

(* src/decide.rs:37-40.  A decision tells everything it knows, at every     *)
(* stage of the decay: no defect is hidden by another one.                  *)
THEOREM EveryDefectReported == Spec => []EveryDefectIsReported
  <1>1. ASSUME GInv PROVE EveryDefectIsReported
    <2>1. ASSUME NEW d \in defects, ~Waived(d)
          PROVE  \/ /\ ~IsSettle(decision)
                    /\ \/ d \in decision.reasons
                       \/ d = Unbound /\ ~policy.require_recovered_facts
                 \/ IsSettle(decision) /\ d = Unbound /\ d \in decision.caveats
      <3>1. d \in reasons \/ (d = Unbound /\ Caller /\ ~policy.require_recovered_facts)
        BY <1>1, <2>1, PresentIsReason DEF GInv
      <3>2. CASE reasons # {}
        BY <3>1, <3>2, DecisionParts, SettleHoldFields
      <3>3. CASE reasons = {}
        <4>1. d = Unbound /\ DecideCaveats(proof, policy) = {Unbound}
          BY <3>1, <3>3 DEF DecideCaveats, Caller
        <4> QED BY <3>3, <4>1, DecisionParts, SettleHoldFields
      <3> QED BY <3>2, <3>3
    <2>2. ASSUME verdict.level > policy.max_settle_severity PROVE ~IsSettle(decision)
      <3>1. ~(verdict.level <= policy.max_settle_severity)
        BY <1>1, <2>2 DEF GInv, TypeInv, GatePolicy, Severity
      <3>2. reasons # {}
        BY <3>1, ScreenPasses DEF reasons, DecideReasons
      <3> QED BY <3>2, DecisionParts
    <2> QED BY <2>1, <2>2 DEF EveryDefectIsReported
  <1> QED BY <1>1, DefectsStay, PTL

(* src/decide.rs:40-42.  A clean settle was checked in every respect.       *)
THEOREM CleanSettlesAreFullyBound == Spec => []CleanSettleIsFullyBound
  <1>1. ASSUME GInv PROVE CleanSettleIsFullyBound
    <2> SUFFICES ASSUME IsSettle(decision), decision.caveats = {}
                 PROVE  /\ proof.facts_source = "producer_recovered"
                        /\ proof.vm = intent.vm /\ proof.asset = {intent.asset}
                        /\ proof.amount = {intent.amount} /\ proof.recipient = {intent.recipient}
                        /\ intent.required_accounts \subseteq proof.covered_accounts
                        /\ ~proof.unverifiable /\ (policy.require_executed => proof.executed)
      BY DEF CleanSettleIsFullyBound
    <2>1. decision = Settle({})
      BY DecisionParts, SettleHoldFields
    <2> QED BY <2>1, CleanSettleIsFullyBoundAlways DEF decision
  <1> QED BY <1>1, DefectsStay, PTL
-----------------------------------------------------------------------------
(* The reasons of the next state, and how they relate to those of this one. *)
LEMMA DecisionPartsNext ==
  /\ IsSettle(decision)' <=> reasons' = {}
  /\ reasons' = {} => decision' = Settle(DecideCaveats(proof', policy'))
  /\ reasons' # {} => decision' = Hold(reasons')
  BY DecideConcludes, ConcludeSettles DEF decision, reasons

LevelExceeds == {<<"level", "exceeds">>}
NoReasonLost ==
    /\ reasons \ LevelExceeds \subseteq reasons'
    /\ reasons # {} => reasons' # {}

(* Worse damage keeps every reason.                                         *)
LEMMA WorseKeepsReasons ==
  ASSUME NEW p, WorseProof(p), proof' = p, UNCHANGED <<verdict, policy>>
  PROVE  NoReasonLost
  <1>1. LegReasons(proof, policy) \subseteq LegReasons(p, policy)
    BY DEF WorseProof, LegReasons
  <1>2. CoverageReasons(intent, proof) \subseteq CoverageReasons(intent, p)
    BY DEF WorseProof, CoverageReasons
  <1>3. BindingReasons(intent, proof) \subseteq BindingReasons(intent, p)
    <2>1. ASSUME NEW f \in Fact PROVE bind(f, proof[f], intent[f]) \subseteq bind(f, p[f], intent[f])
      BY BindPasses DEF WorseProof
    <2>2. bind("vm", {proof.vm}, intent.vm) \subseteq bind("vm", {p.vm}, intent.vm)
      BY BindPasses DEF WorseProof
    <2>3. bind("asset", proof.asset, intent.asset) \subseteq bind("asset", p.asset, intent.asset)
      BY <2>1 DEF Fact
    <2>4. bind("amount", proof.amount, intent.amount)
            \subseteq bind("amount", p.amount, intent.amount)
      BY <2>1 DEF Fact
    <2>5. bind("recipient", proof.recipient, intent.recipient)
            \subseteq bind("recipient", p.recipient, intent.recipient)
      BY <2>1 DEF Fact
    <2> QED BY <2>2, <2>3, <2>4, <2>5 DEF BindingReasons
  <1>4. p.facts_source = proof.facts_source
    BY DEF WorseProof
  <1>5. DecideReasons(intent, proof, verdict, policy) \subseteq DecideReasons(intent, p, verdict, policy)
    BY <1>1, <1>2, <1>3, <1>4 DEF DecideReasons
  <1>6. reasons' = DecideReasons(intent, p, verdict, policy)
    BY DEF reasons, intent
  <1> QED BY <1>5, <1>6 DEF NoReasonLost, reasons

(* A worse screen, or a lower threshold, keeps every reason of the screen   *)
(* but the bare level, which findings may come to explain.                  *)
LEMMA WorseScreen ==
  ASSUME NEW v, NEW w, NEW old, NEW new,
         v.level \in Int, w.level \in Int, v.level <= w.level,
         old.max_settle_severity \in Int, new.max_settle_severity \in Int,
         new.max_settle_severity <= old.max_settle_severity,
         v.findings \subseteq w.findings, \A f \in v.findings : f.severity \in Int
  PROVE  /\ ScreenReasons(v, old) \ LevelExceeds \subseteq ScreenReasons(w, new)
         /\ ScreenReasons(v, old) # {} => ScreenReasons(w, new) # {}
  <1>1. CASE v.level <= old.max_settle_severity
    BY <1>1, ScreenPasses
  <1>2. CASE ~(v.level <= old.max_settle_severity)
    <2>1. ~(w.level <= new.max_settle_severity)
      BY <1>2
    <2>2. Offending(v, old) \subseteq Offending(w, new)
      BY DEF Offending
    <2>3. CASE Offending(v, old) = {}
      BY <1>2, <2>1, <2>3, ScreenPasses DEF ScreenReasons, LevelExceeds
    <2>4. CASE Offending(v, old) # {}
      <3>1. /\ ScreenReasons(v, old) = {<<"finding", f.code>> : f \in Offending(v, old)}
            /\ ScreenReasons(w, new) = {<<"finding", f.code>> : f \in Offending(w, new)}
        BY <1>2, <2>1, <2>2, <2>4 DEF ScreenReasons
      <3> QED BY <2>1, <2>2, <3>1, ScreenPasses
    <2> QED BY <2>3, <2>4
  <1> QED BY <1>1, <1>2

LEMMA ScreenKeepsReasons ==
  ASSUME GInv, AddFinding \/ RaiseLevel \/ Tighten
  PROVE  NoReasonLost
  <1>1. /\ proof' = proof
        /\ verdict.level \in Int /\ verdict'.level \in Int /\ verdict.level <= verdict'.level
        /\ verdict.findings \subseteq verdict'.findings
        /\ policy.max_settle_severity \in Int /\ policy'.max_settle_severity \in Int
        /\ policy'.max_settle_severity <= policy.max_settle_severity
        /\ policy.require_executed => policy'.require_executed
        /\ policy.require_recovered_facts => policy'.require_recovered_facts
    <2>1. /\ verdict.level \in Int /\ policy.max_settle_severity \in Int
          /\ verdict.level <= verdict.level
          /\ policy.max_settle_severity <= policy.max_settle_severity
      BY DEF GInv, TypeInv, GatePolicy, Severity
    <2>2. CASE AddFinding \/ RaiseLevel
      BY <2>1, <2>2, ScreenWorsens DEF Severity
    <2>3. CASE Tighten
      BY <2>1, <2>3, TighterPolicy DEF GatePolicy, Severity
    <2> QED BY <2>2, <2>3
  <1>2. \A f \in verdict.findings : f.severity \in Int
    BY DEF GInv, TypeInv, Screenable, Info, Red
  <1>3. /\ ScreenReasons(verdict, policy) \ LevelExceeds \subseteq ScreenReasons(verdict', policy')
        /\ ScreenReasons(verdict, policy) # {} => ScreenReasons(verdict', policy') # {}
    BY <1>1, <1>2, WorseScreen
  <1>4. LegReasons(proof, policy) \subseteq LegReasons(proof, policy')
    BY <1>1 DEF LegReasons
  <1>5. reasons' = DecideReasons(intent, proof, verdict', policy')
    BY <1>1 DEF reasons, intent
  <1> QED BY <1>1, <1>3, <1>4, <1>5 DEF NoReasonLost, reasons, DecideReasons

LEMMA AdverseStep ==
  ASSUME GInv, Worsen \/ Tighten
  PROVE  NoReasonLost
  <1>1. CASE FailLeg \/ LoseCoverage \/ LoseFact \/ AlterFact
    <2>1. PICK p, defect :
            p \in Damaged /\ DamageProof(p, defect) /\ WorseProof(p) /\ Present(defect)'
      BY <1>1, ProofDamage
    <2> QED BY <2>1, WorseKeepsReasons DEF DamageProof
  <1> QED BY <1>1, ScreenKeepsReasons DEF Worsen

(* src/decide.rs:78-94.  A hold only gains reasons while things get worse.  *)
THEOREM ReasonsOnlyAccumulate == Spec => ReasonsAccumulate
  <1>1. ASSUME GInv, [Next]_vars, Worsen \/ Tighten, ~IsSettle(decision)
        PROVE  /\ ~IsSettle(decision')
               /\ decision.reasons \ {<<"level", "exceeds">>} \subseteq decision'.reasons
    <2>1. NoReasonLost
      BY <1>1, AdverseStep
    <2>2. reasons # {} /\ decision = Hold(reasons)
      BY <1>1, DecisionParts
    <2>3. reasons' # {} /\ decision' = Hold(reasons')
      BY <2>1, <2>2, DecisionPartsNext DEF NoReasonLost
    <2> QED BY <2>1, <2>2, <2>3, DecisionPartsNext, SettleHoldFields DEF NoReasonLost, LevelExceeds
  <1> QED BY <1>1, DefectsStay, PTL DEF Spec, ReasonsAccumulate

(* What a producer stopped recovering stays unrecovered.                    *)
LEMMA FactsStayForgotten ==
  ASSUME GInv, [Next]_vars, proof.facts_source = "caller_asserted"
  PROVE  proof'.facts_source = "caller_asserted"
  BY DEF GInv, TypeInv, Next, Worsen, FailLeg, LoseCoverage, LoseFact, AlterFact, AddFinding,
         RaiseLevel, ForgetFacts, Tighten, DamageProof, vars

(* src/decide.rs:19-23.  Losing the facts is the only way from a hold to a  *)
(* settle; what settles without them has the caveat, and none sheds it.     *)
THEOREM NothingReleasedInSilence == Spec => NoSilentRelease
  <1>1. ASSUME GInv, [Next]_vars, IsSettle(decision')
        PROVE  /\ ~IsSettle(decision) => ForgetFacts
               /\ IsSettle(decision) => decision.caveats \subseteq decision'.caveats
               /\ ForgetFacts => /\ ~policy'.require_recovered_facts
                                 /\ decision'.caveats = {Unbound}
    <2>1. /\ reasons' = {} /\ decision' = Settle(DecideCaveats(proof', policy'))
          /\ reasons' = DecideReasons(intent, proof', verdict', policy')
      BY <1>1, DecisionPartsNext DEF reasons, intent
    <2>2. ASSUME ~IsSettle(decision) PROVE ForgetFacts
      <3>1. reasons # {}
        BY <2>2, DecisionParts
      <3>2. ~(Worsen \/ Tighten)
        BY <2>1, <3>1, AdverseStep, <1>1 DEF NoReasonLost
      <3>3. ~UNCHANGED vars
        <4>1. UNCHANGED vars => reasons' = reasons
          BY DEF vars, reasons, intent
        <4> QED BY <2>1, <3>1, <4>1
      <3> QED BY <1>1, <3>2, <3>3 DEF Next
    <2>3. ASSUME proof'.facts_source = "caller_asserted"
          PROVE  ~policy'.require_recovered_facts /\ decision'.caveats = {Unbound}
      <3>1. ~policy'.require_recovered_facts
        BY <2>1, <2>3 DEF DecideReasons
      <3>2. DecideCaveats(proof', policy') = {Unbound}
        BY <2>3, <3>1 DEF DecideCaveats
      <3> QED BY <2>1, <3>1, <3>2, SettleHoldFields
    <2>4. ForgetFacts => proof'.facts_source = "caller_asserted"
      BY <1>1 DEF ForgetFacts, DamageProof, GInv, TypeInv
    <2>5. ASSUME IsSettle(decision) PROVE decision.caveats \subseteq decision'.caveats
      <3>1. decision.caveats = DecideCaveats(proof, policy)
        BY <2>5, DecisionParts, SettleHoldFields
      <3>2. CASE proof.facts_source = "caller_asserted"
        <4>1. proof'.facts_source = "caller_asserted"
          BY <1>1, <3>2, FactsStayForgotten
        <4>2. DecideCaveats(proof, policy) \subseteq {Unbound}
          BY DEF DecideCaveats
        <4> QED BY <2>3, <3>1, <4>1, <4>2
      <3>3. CASE proof.facts_source = "producer_recovered"
        <4>1. DecideCaveats(proof, policy) = {}
          BY <3>3 DEF DecideCaveats
        <4> QED BY <3>1, <4>1
      <3> QED BY <1>1, <3>2, <3>3 DEF GInv, TypeInv, FactsSource
    <2> QED BY <2>2, <2>3, <2>4, <2>5
  <1> QED BY <1>1, DefectsStay, PTL DEF Spec, NoSilentRelease
=============================================================================
