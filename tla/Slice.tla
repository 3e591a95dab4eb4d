-------------------------------- MODULE Slice -------------------------------
(***************************************************************************)
(* The Phase-1 slice (src/bin/slice.rs): a plain transfer, then an approve  *)
(* in its place, each captured by Custos, adapted and decided.  Custos      *)
(* fills both slots, so no fact is recovered and every settle has a caveat. *)
(*                                                                          *)
(* The program may be run again, by another party and with other keys;      *)
(* `seen` remembers one capture to compare a later one with.                *)
(***************************************************************************)
EXTENDS Poststate

CONSTANTS
    Snapshots,  \* what an account may hold after a transaction
    Verdicts    \* what Custos may say

ASSUME SnapshotsAssumption == Snapshots \subseteq Snapshot
ASSUME VerdictsAssumption  == Verdicts \subseteq CustosVerdict

VARIABLES
    step,   \* what the process does next
    keys,   \* the keys of the environment it is in
    shown,  \* the line it printed there, with all that led to it, or {}
    seen    \* history: a poststate captured before, and its digest, or {}

vars == <<step, keys, shown, seen>>

(* Keypair::new() for each account that is watched: any distinct keys.      *)
Role == {"user", "user_ata", "merchant_ata"}
FreshKeys == {k \in [Role -> Account] : \A r, s \in Role : k[r] = k[s] => r = s}
KeysOf(roles) == {keys[r] : r \in roles}

(* The accounts that each scenario watches, and those its intent requires.  *)
Watched ==
    [benign |-> Role, drainer |-> {"user_ata", "user"}]
Required ==
    [benign |-> {"user_ata", "merchant_ata"}, drainer |-> {"user_ata"}]

(* custos_engine::sim::capture and evaluate.  An unlimited approve that     *)
(* goes through is flagged (F2); of the plain transfer nothing is assumed.  *)
DefaultBank(name, outcome, verdict) ==
    /\ CustosContract(verdict)
    /\ name = "drainer" /\ outcome.success =>
         \E f \in verdict.findings : f.code = "F2" /\ f.level = Red

(* The mint, the amount and the recipient are fixed by the program; a proof *)
(* that recovers no fact is compared with none of them.                     *)
intent(name) ==
    [vm |-> "svm", asset |-> "USDC", amount |-> 1, recipient |-> "merchant",
     required_accounts |-> KeysOf(Required[name])]

-----------------------------------------------------------------------------
Init ==
    /\ step = <<"fresh_env", "benign">> /\ keys \in FreshKeys
    /\ shown = {} /\ seen = {}

(* What was shown may be the capture that a later one is compared with.     *)
Remember == seen' \in {seen, {[post |-> p.outcome.post, digest |-> p.digest] : p \in shown}}

(* Mutant: one keypair is generated and serves every account.               *)
fresh_env_OneKeypair(name) ==
    /\ step = <<"fresh_env", name>>
    /\ step' = <<"capture", name>>
    /\ \E a \in Account : keys' = [r \in Role |-> a]
    /\ Remember /\ shown' = {}

fresh_env(name) ==
    /\ step = <<"fresh_env", name>>
    /\ step' = <<"capture", name>>
    /\ keys' \in FreshKeys
    /\ Remember /\ shown' = {}

(* An expect fails in fresh_env, or in main, before the first capture, on   *)
(* the account of the merchant.                                             *)
Panic ==
    /\ step[1] = "fresh_env" \/ step = <<"capture", "benign">>
    /\ step' = <<"over">>
    /\ UNCHANGED <<keys, shown, seen>>

(* evaluate, proof_from_outcome, decide under the default policy, println!. *)
print_decision(name, outcome, verdict, iterated) ==
    LET proof == proof_from_outcome(outcome, iterated)
    IN  shown' = {[name |-> name, outcome |-> outcome, verdict |-> verdict,
                   digest |-> proof.poststate_digest,
                   decision |-> decide(intent(name), proof, verdict_from_custos(verdict),
                                       DefaultPolicy)]}

Scenario(name, next) ==
    LET watched == KeysOf(Watched[name])
    IN  /\ step = <<"capture", name>>
        /\ \E outcome \in Outcome(watched, Snapshots), verdict \in Verdicts,
              iterated \in SetToSeqs(watched) :
             /\ DefaultBank(name, outcome, verdict)
             /\ print_decision(name, outcome, verdict, iterated)
        /\ step' = next
        /\ UNCHANGED <<keys, seen>>

(* main: the transfer, then the approve, each in an environment of its own. *)
Benign  == fresh_env("benign") \/ Scenario("benign", <<"fresh_env", "drainer">>)
Drainer == fresh_env("drainer") \/ Scenario("drainer", <<"over">>)

(* Somebody runs the program again, on an empty screen.                     *)
Rerun ==
    /\ step = <<"over">>
    /\ step' = <<"fresh_env", "benign">>
    /\ Remember /\ shown' = {}
    /\ UNCHANGED keys

Next == Benign \/ Drainer \/ Panic \/ Rerun
Spec == Init /\ [][Next]_vars
-----------------------------------------------------------------------------
TypeOK ==
    /\ step \in ({"fresh_env", "capture"} \X {"benign", "drainer"}) \cup {<<"over">>}
    /\ keys \in FreshKeys
    /\ \A p \in shown :
         /\ p.name \in {"benign", "drainer"}
         /\ p.outcome \in Outcome(DOMAIN p.outcome.post, Snapshots) /\ p.verdict \in CustosVerdict
         /\ p.decision \in LiquetDecision

(* src/adapters/custos.rs:60-69, STAGE_ERC8004_VALIDATOR.md:145-147.  The   *)
(* digest is what another party reproduces: two captures, by whoever and in *)
(* whatever order their maps are walked, have the same digest exactly when  *)
(* the watched accounts are the same and hold the same.                     *)
DigestIdentifiesPoststate ==
    \A p \in shown, q \in seen : p.digest = q.digest <=> p.outcome.post = q.post

(* SEAM.md:79-82.  A settle says no more than what was checked: executed,   *)
(* nothing found above the threshold, and the caveat that nobody bound the  *)
(* money to the intent, alone and always.                                   *)
PhaseOneSettleIsHonest ==
    \A p \in shown : IsSettle(p.decision) =>
      /\ p.decision.caveats = {Unbound}
      /\ p.outcome.success
      /\ \A f \in p.verdict.findings : f.level <= Info

(* src/bin/slice.rs:9-10.  The settlement gets settled, the drainer gets    *)
(* held: the transfer settles when it executed and nothing was found above  *)
(* the threshold, also when an account it watched is gone, and the approve  *)
(* is held whatever its outcome.                                            *)
ThePitch ==
    \A p \in shown :
      IF p.name = "drainer" THEN ~IsSettle(p.decision)
      ELSE IsSettle(p.decision) <=> p.outcome.success /\ p.verdict.level <= Info
=============================================================================
