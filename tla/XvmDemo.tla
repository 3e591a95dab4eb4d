------------------------------- MODULE XvmDemo ------------------------------
(***************************************************************************)
(* The cross-VM demo (src/bin/xvm_demo.rs): one claim, four deliveries of   *)
(* it, each reconciled, screened and gated, and a self-check at the end.    *)
(* It is built with the live screen (wire-xvm) or with a green placeholder  *)
(* in slot 2 (wire-probatio alone); the last delivery needs the first.      *)
(***************************************************************************)
EXTENDS Pipeline, Sequences

CONSTANT Executions  \* what the producers may report

ASSUME DemoAssumption ==
    \A e \in Executions : e \in Execution /\ ProducerContract(e)

VARIABLES
    wire_xvm,  \* the feature the program was built with
    scene,     \* which delivery comes next
    benign,    \* what re-executing the first one yields, or {}: it is fixed
    shown,     \* the last scene on the screen and what led to it, or {}
    story,     \* the decision of every scene so far
    exit       \* {} while it runs, or its exit code

vars == <<wire_xvm, scene, benign, shown, story, exit>>

AMOUNT == 25
claim ==
    [asset |-> "ETH", amount |-> AMOUNT,
     good |-> [spl_mint |-> "mint", amount |-> AMOUNT, recipient |-> "recipient"]]

svm_spec(recipient, amount) == [recipient |-> recipient, amount |-> amount]
Delivery ==
    [benign      |-> svm_spec("recipient", AMOUNT),
     misdelivery |-> svm_spec("attacker", AMOUNT),
     half_open   |-> svm_spec("recipient", 0),
     backdoored  |-> svm_spec("recipient", AMOUNT)]

(* Mutant: the backdoored delivery is shown in either build.                *)
Script_Always == <<"benign", "misdelivery", "half_open", "backdoored">>
Script ==
    <<"benign", "misdelivery", "half_open">>
      \o (IF wire_xvm THEN <<"backdoored">> ELSE <<>>)

(* What probatio reports of its own delivery, unless it cannot verify it.   *)
Reexecutes(leg, spec) ==
    ~leg.unverifiable =>
      /\ leg.recipient = {spec.recipient} /\ leg.amount = {spec.amount}
      /\ leg.executed = (spec.amount > 0)

(* Custos flags an unlimited approve that goes through; nothing is assumed  *)
(* of the other deliveries.                                                 *)
FlagsBackdoor(name, e) ==
    name = "backdoored" /\ e.replay.success =>
      \E f \in e.custos.findings : f.code = "F2" /\ f.level = Red

Reports(name) ==
    {e \in Executions : /\ e.claim = claim
                        /\ Reexecutes(e.svm, Delivery[name]) /\ FlagsBackdoor(name, e)}

-----------------------------------------------------------------------------
Init ==
    /\ wire_xvm \in BOOLEAN
    /\ scene = 1 /\ benign = {} /\ shown = {} /\ exit = {}
    /\ story = [s \in {} |-> {}]

(* An expect fails: a leg that does not reconstruct, a screen that fails.   *)
Panics(e) == ~e.svm_ok \/ ~e.evm_ok \/ (wire_xvm /\ invariant_from_svm_leg(e) = {})
Abort == exit' = {101} /\ UNCHANGED <<scene, shown, story>>

(* InvariantVerdict::green.                                                 *)
green == [level |-> Green, findings |-> {}]
invariant(e) == IF wire_xvm THEN unwrap(invariant_from_svm_leg(e)) ELSE green

Show(name, e) ==
    LET decision == decide_crossvm(CrossVmOf(e), invariant(e), DefaultPolicy)
    IN  /\ shown' = {[name |-> name, execution |-> e, decision |-> decision]}
        /\ story' = [s \in DOMAIN story \cup {name} |-> IF s = name THEN decision ELSE story[s]]
        /\ scene' = scene + 1
        /\ UNCHANGED exit

run(name) ==
    /\ exit = {} /\ scene \in DOMAIN Script /\ name = Script[scene]
    /\ \E e \in Reports(name) :
         /\ IF Panics(e) THEN Abort ELSE Show(name, e)
         /\ benign' = IF name = "benign" THEN {e} ELSE benign
    /\ UNCHANGED wire_xvm

(* Mutant: any verdict passes but that the legs could not be verified.      *)
SelfCheck_AnyVerdict ==
    /\ exit = {} /\ scene \notin DOMAIN Script
    /\ exit' = {IF CrossVmOf(unwrap(benign)).reconcile # "unverifiable" THEN 0 ELSE 1}
    /\ UNCHANGED <<wire_xvm, scene, benign, shown, story>>

(* The first delivery is re-executed and reconciled once more; the screen   *)
(* and the gate are not.                                                    *)
SelfCheck ==
    /\ exit = {} /\ scene \notin DOMAIN Script
    /\ exit' = {IF CrossVmOf(unwrap(benign)).reconcile = "matched" THEN 0 ELSE 1}
    /\ UNCHANGED <<wire_xvm, scene, benign, shown, story>>

Next == (\E name \in DOMAIN Delivery : run(name)) \/ SelfCheck
Spec == Init /\ [][Next]_vars
-----------------------------------------------------------------------------
TypeOK ==
    /\ wire_xvm \in BOOLEAN /\ scene \in 1..5
    /\ benign \subseteq Executions
    /\ DOMAIN story \subseteq {"benign", "misdelivery", "half_open"}
                                \cup (IF wire_xvm THEN {"backdoored"} ELSE {})
    /\ \A s \in DOMAIN story : story[s] \in LiquetDecision
    /\ IsOption(exit, {0, 1, 101})

(* src/bin/xvm_demo.rs:11-15 and 17-19.  Of all the deliveries only the     *)
(* first may settle, in either build: wrong recipient, half-open and, seen  *)
(* by the screen alone, backdoored are held.                                *)
OnlyBenignSettles ==
    \A s \in DOMAIN story : IsSettle(story[s]) => s = "benign"

(* src/bin/xvm_demo.rs:11 and 22-24.  What settles honored the claim on     *)
(* both chains; with the live screen the very transaction that was          *)
(* reconciled was also replayed, delivered exactly the claimed amount and   *)
(* has no finding above the threshold.                                      *)
SettledIsHonored ==
    \A p \in shown : IsSettle(p.decision) =>
      LET e == p.execution
      IN  /\ e.evm.executed /\ e.svm.executed /\ FactsHonorClaim(e)
          /\ wire_xvm =>
               /\ unwrap(e.replay.after) = unwrap(e.replay.before) + AMOUNT
               /\ \A f \in e.custos.findings : f.level <= Info

(* src/bin/xvm_demo.rs:168.  The exit code agrees with the screen: a run    *)
(* that exits 1 showed no settlement at all, and one that exits 0 showed a  *)
(* first delivery that settled, or that the live screen alone held.         *)
ExitAgreesWithStory ==
    /\ exit = {1} => \A s \in DOMAIN story : ~IsSettle(story[s])
    /\ exit = {0} =>
         \/ IsSettle(story["benign"])
         \/ wire_xvm /\ \A r \in story["benign"].reasons : r[1] \in {"finding", "level"}
=============================================================================
