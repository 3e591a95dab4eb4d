------------------------------- MODULE MCGate -------------------------------
(***************************************************************************)
(* The gate under every combination of defects.  One settlement leg starts  *)
(* sound; each step makes one input of `decide` worse, or one knob of the   *)
(* policy stricter, and `defects` remembers what was made worse.  The       *)
(* environment of the gate, not part of the program.                        *)
(***************************************************************************)
EXTENDS Gate

VARIABLES
    proof, verdict, policy,  \* the inputs of the gate
    defects                  \* history: what each adverse step broke

vars == <<proof, verdict, policy, defects>>

MCAsset     == {"usdc", "fake"}
MCRecipient == {"alice", "mallory"}
MCAccount   == {"vault", "payer"}
MCAmount    == 0..2
MCDigest    == {"d"}
MCCode      == {"F1", "F2"}
MCClaim     == {"claim"}
MCId        == {"id"}

intent ==
    [vm |-> "svm", asset |-> "usdc", amount |-> 1, recipient |-> "alice",
     required_accounts |-> {"vault", "payer"}]

Screenable == {[severity |-> Info, code |-> "F1"], [severity |-> Red, code |-> "F2"]}

Init ==
    /\ proof = [vm |-> "svm", executed |-> TRUE, poststate_digest |-> "d",
                covered_accounts |-> {"vault", "payer"},
                facts_source |-> "producer_recovered", asset |-> {"usdc"},
                amount |-> {1}, recipient |-> {"alice"}, unverifiable |-> FALSE]
    /\ verdict = [level |-> Green, findings |-> {}]
    /\ policy = [max_settle_severity |-> Red, require_executed |-> FALSE,
                 require_recovered_facts |-> FALSE]
    /\ defects = {}

decision == decide(intent, proof, verdict, policy)

(* What the proof can lose.                                                 *)
DamageProof(damaged, defect) ==
    /\ proof' = damaged
    /\ defects' = defects \cup {defect}
    /\ UNCHANGED <<verdict, policy>>

FailLeg ==
    \/ /\ proof.executed
       /\ DamageProof([proof EXCEPT !.executed = FALSE], <<"leg", "not_executed">>)
    \/ /\ ~proof.unverifiable
       /\ DamageProof([proof EXCEPT !.unverifiable = TRUE], <<"leg", "unverifiable">>)

LoseCoverage ==
    \E a \in proof.covered_accounts :
      DamageProof([proof EXCEPT !.covered_accounts = @ \ {a}], <<"uncovered", a>>)

LoseFact ==
    \E f \in {"asset", "amount", "recipient"} :
      /\ proof[f] = {intent[f]}
      /\ DamageProof([proof EXCEPT ![f] = {}], <<"missing", f>>)

WrongFacts ==
    [asset |-> {"fake"}, amount |-> {2}, recipient |-> {"mallory"}]

AlterFact ==
    /\ proof.facts_source = "producer_recovered"
    /\ \/ /\ proof.vm = "svm"
          /\ DamageProof([proof EXCEPT !.vm = "evm"], <<"differs", "vm">>)
       \/ \E f \in {"asset", "amount", "recipient"} : \E wrong \in WrongFacts[f] :
            /\ proof[f] = {intent[f]}
            /\ DamageProof([proof EXCEPT ![f] = {wrong}], <<"differs", f>>)

(* The producer stops recovering facts: Custos in the place of probatio.    *)
ForgetFacts ==
    /\ proof.facts_source = "producer_recovered"
    /\ DamageProof([proof EXCEPT !.facts_source = "caller_asserted", !.vm = "svm",
                                 !.asset = {}, !.amount = {}, !.recipient = {}],
                   Unbound)

(* The screen finds something; its level keeps up with the worst finding.   *)
AddFinding ==
    \E f \in Screenable \ verdict.findings :
      /\ verdict' = [level |-> IF f.severity > verdict.level THEN f.severity ELSE verdict.level,
                     findings |-> verdict.findings \cup {f}]
      /\ defects' = defects \cup {<<"finding", f.code>>}
      /\ UNCHANGED <<proof, policy>>

(* The level rises with no finding to explain it: the type allows it.       *)
RaiseLevel ==
    /\ verdict.level < Red
    /\ verdict' = [verdict EXCEPT !.level = @ + 1]
    /\ UNCHANGED <<proof, policy, defects>>

Worsen == FailLeg \/ LoseCoverage \/ LoseFact \/ AlterFact \/ AddFinding \/ RaiseLevel

Tighten ==
    /\ \/ /\ policy.max_settle_severity > Green
          /\ policy' = [policy EXCEPT !.max_settle_severity = @ - 1]
       \/ \E knob \in {"require_executed", "require_recovered_facts"} :
            /\ ~policy[knob]
            /\ policy' = [policy EXCEPT ![knob] = TRUE]
    /\ UNCHANGED <<proof, verdict, defects>>

Next == Worsen \/ ForgetFacts \/ Tighten
Spec == Init /\ [][Next]_vars

(* Which defects this policy waives: a leg that need not execute, a finding *)
(* within the threshold, facts that nobody recovered any more.              *)
Waived(d) ==
    \/ d = <<"leg", "not_executed">> /\ ~policy.require_executed
    \/ /\ d[1] = "finding"
       /\ \A f \in Screenable : f.code = d[2] => f.severity <= policy.max_settle_severity
    \/ d[1] \in {"missing", "differs"} /\ proof.facts_source = "caller_asserted"

(* src/decide.rs:37-40.  A decision tells everything it knows: each defect  *)
(* that the policy does not waive is among the reasons of a Hold (a check   *)
(* that failed early never hides a later one), or, when the facts are       *)
(* merely unbound and nothing else is wrong, among the caveats of a Settle; *)
(* and a level that no finding explains still holds.                        *)
EveryDefectIsReported ==
    /\ \A d \in defects :
         \/ Waived(d)
         \/ /\ ~IsSettle(decision)
            /\ \/ d \in decision.reasons
               \/ d = Unbound /\ ~policy.require_recovered_facts
         \/ IsSettle(decision) /\ d = Unbound /\ d \in decision.caveats
    /\ verdict.level > policy.max_settle_severity => ~IsSettle(decision)

(* src/decide.rs:40-42.  A clean settle, one without caveats, is a promise  *)
(* about what was checked: the facts come from the producer and equal the   *)
(* intent, every required account was in scope, the leg was verifiable, and *)
(* executed if the policy asks for it.                                      *)
CleanSettleIsFullyBound ==
    IsSettle(decision) /\ decision.caveats = {} =>
      /\ proof.facts_source = "producer_recovered"
      /\ proof.vm = intent.vm /\ proof.asset = {intent.asset}
      /\ proof.amount = {intent.amount} /\ proof.recipient = {intent.recipient}
      /\ intent.required_accounts \subseteq proof.covered_accounts
      /\ ~proof.unverifiable /\ (policy.require_executed => proof.executed)

(* src/decide.rs:19-23.  Nothing that gets worse, in the settlement or      *)
(* through a stricter policy, releases money in silence.  A Hold becomes a  *)
(* Settle only because the producer no longer recovers the facts it held    *)
(* on; what still settles, or only then does, when facts are no longer      *)
(* recovered does so under a policy that allows it, with the caveat that    *)
(* says so; and no later step takes a caveat back.                          *)
NoSilentRelease ==
    [][ IsSettle(decision') =>
          /\ ~IsSettle(decision) => ForgetFacts
          /\ IsSettle(decision) => decision.caveats \subseteq decision'.caveats
          /\ ForgetFacts => /\ ~policy'.require_recovered_facts
                            /\ decision'.caveats = {Unbound} ]_vars

(* src/decide.rs:78-94.  A Hold only gains reasons while the settlement     *)
(* gets worse; a bare "level exceeds" may give way to the findings that     *)
(* explain it.                                                              *)
ReasonsAccumulate ==
    [][ (Worsen \/ Tighten) /\ ~IsSettle(decision) =>
          /\ ~IsSettle(decision')
          /\ decision.reasons \ {<<"level", "exceeds">>} \subseteq decision'.reasons ]_vars
=============================================================================
