----------------------------- MODULE Slice_proofs ---------------------------
(***************************************************************************)
(* The Phase-1 slice for every set of accounts, snapshots and verdicts: its *)
(* lines are honest, its digests can be reproduced, its pitch holds.        *)
(***************************************************************************)
EXTENDS Slice, Gate_proofs, Poststate_proofs

(* What a settle of the single-leg gate means when Custos fills both slots. *)
LEMMA CustosSettle ==
  ASSUME NEW outcome, NEW verdict \in CustosVerdict, NEW iterated, NEW wanted,
         CustosContract(verdict),
         IsSettle(decide(wanted, proof_from_outcome(outcome, iterated),
                         verdict_from_custos(verdict), DefaultPolicy))
  PROVE  /\ decide(wanted, proof_from_outcome(outcome, iterated),
                   verdict_from_custos(verdict), DefaultPolicy) = Settle({Unbound})
         /\ outcome.success = TRUE
         /\ \A f \in verdict.findings : f.level <= Info
  <1> DEFINE proof   == proof_from_outcome(outcome, iterated)
             screen  == verdict_from_custos(verdict)
             reasons == DecideReasons(wanted, proof, screen, DefaultPolicy)
  <1>1. /\ proof.facts_source = "caller_asserted" /\ proof.executed = outcome.success
        /\ screen.level = verdict.level
    BY DEF proof_from_outcome, verdict_from_custos
  <1>2. /\ DefaultPolicy.max_settle_severity = Info
        /\ DefaultPolicy.require_executed = TRUE
        /\ DefaultPolicy.require_recovered_facts = FALSE
    BY DEF DefaultPolicy
  <1> HIDE DEF proof, screen
  <1>3. DecideCaveats(proof, DefaultPolicy) = {Unbound}
    BY <1>1, <1>2 DEF DecideCaveats
  <1>4. decide(wanted, proof, screen, DefaultPolicy) = Conclude(reasons, {Unbound})
    BY <1>3, DecideConcludes
  <1>5. reasons = {}
    BY <1>4, ConcludeSettles DEF proof, screen
  <1>6. decide(wanted, proof, screen, DefaultPolicy) = Settle({Unbound})
    BY <1>4, <1>5, ConcludeSettles
  <1>7. LegReasons(proof, DefaultPolicy) = {} /\ ScreenReasons(screen, DefaultPolicy) = {}
    BY <1>5 DEF DecideReasons
  <1>8. proof.executed
    <2>1. CASE ~proof.executed
      <3>1. <<"leg", "not_executed">> \in LegReasons(proof, DefaultPolicy)
        BY <1>2, <2>1 DEF LegReasons
      <3> QED BY <1>7, <3>1
    <2> QED BY <2>1
  <1>9. verdict.level <= Info
    BY <1>1, <1>2, <1>7, ScreenPasses
  <1>10. ASSUME NEW f \in verdict.findings PROVE f.level <= Info
    <2>1. f.level <= verdict.level
      BY DEF CustosContract
    <2> QED BY <1>9, <2>1 DEF CustosVerdict, Severity, Info
  <1> QED BY <1>1, <1>6, <1>8, <1>10 DEF proof, screen

(* What a capture prints, whichever scenario it belongs to.                 *)
LEMMA ScenarioShows ==
  ASSUME NEW name, NEW next, Scenario(name, next)
  PROVE  \E outcome \in [success : BOOLEAN, post : [KeysOf(Watched[name]) -> Option(Snapshots)]],
            verdict \in Verdicts, iterated \in SetToSeqs(KeysOf(Watched[name])) :
           /\ DefaultBank(name, outcome, verdict)
           /\ print_decision(name, outcome, verdict, iterated)
  BY DEF Scenario, Outcome

(* What a line says of the run behind it.                                   *)
LineIsHonest(p) ==
    IsSettle(p.decision) =>
      /\ p.decision.caveats = {Unbound}
      /\ p.outcome.success
      /\ \A f \in p.verdict.findings : f.level <= Info
DrainerHeld(p) == p.name = "drainer" => ~IsSettle(p.decision)
LinesInv == \A p \in shown : LineIsHonest(p) /\ DrainerHeld(p)

LEMMA ScenarioLine ==
  ASSUME NEW name, NEW next, Scenario(name, next)
  PROVE  LinesInv'
  <1>1. PICK outcome \in [success : BOOLEAN,
                          post : [KeysOf(Watched[name]) -> Option(Snapshots)]],
             verdict \in Verdicts, iterated \in SetToSeqs(KeysOf(Watched[name])) :
          /\ DefaultBank(name, outcome, verdict)
          /\ print_decision(name, outcome, verdict, iterated)
    BY ScenarioShows
  <1> DEFINE decision == decide(intent(name), proof_from_outcome(outcome, iterated),
                                verdict_from_custos(verdict), DefaultPolicy)
             digest == proof_from_outcome(outcome, iterated).poststate_digest
  <1>2. verdict \in CustosVerdict /\ CustosContract(verdict)
    BY <1>1, VerdictsAssumption DEF DefaultBank
  <1>3. IsSettle(decision) =>
          /\ decision = Settle({Unbound}) /\ outcome.success = TRUE
          /\ \A f \in verdict.findings : f.level <= Info
    BY <1>2, CustosSettle
  <1>4. shown' = {[name |-> name, outcome |-> outcome, verdict |-> verdict,
                   digest |-> digest, decision |-> decision]}
    BY <1>1 DEF print_decision
  <1> HIDE DEF decision, digest
  <1>5. SUFFICES ASSUME NEW p \in shown', IsSettle(p.decision)
                 PROVE  /\ p.decision.caveats = {Unbound} /\ p.outcome.success
                        /\ \A f \in p.verdict.findings : f.level <= Info
                        /\ p.name # "drainer"
    BY DEF LinesInv, LineIsHonest, DrainerHeld
  <1>6. /\ p.name = name /\ p.outcome = outcome /\ p.verdict = verdict
        /\ p.decision = decision
    BY <1>4
  <1>7. /\ decision = Settle({Unbound}) /\ outcome.success = TRUE
        /\ \A f \in verdict.findings : f.level <= Info
    BY <1>3, <1>5, <1>6
  <1>8. name # "drainer"
    <2>1. CASE name = "drainer"
      <3>1. PICK f \in verdict.findings : f.level = Red
        BY <1>1, <1>7, <2>1 DEF DefaultBank
      <3> QED BY <1>7, <3>1 DEF Red, Info
    <2> QED BY <2>1
  <1> QED BY <1>6, <1>7, <1>8 DEF Settle

(* Every line that is on the screen is one a capture printed.               *)
LEMMA LinesStay == Spec => []LinesInv
  <1>1. Init => LinesInv
    BY DEF Init, LinesInv
  <1>2. LinesInv /\ [Next]_vars => LinesInv'
    <2> SUFFICES ASSUME LinesInv, [Next]_vars PROVE LinesInv'
      OBVIOUS
    <2>1. CASE UNCHANGED shown
      BY <2>1 DEF LinesInv
    <2>2. ASSUME NEW name, fresh_env(name) PROVE LinesInv'
      BY <2>2 DEF fresh_env, LinesInv
    <2>3. CASE Rerun
      BY <2>3 DEF Rerun, LinesInv
    <2> QED BY <2>1, <2>2, <2>3, ScenarioLine DEF Next, Benign, Drainer, Panic, vars
  <1> QED BY <1>1, <1>2, PTL DEF Spec

(* SEAM.md:79-82.  With Custos alone no settle says more than was checked,  *)
(* over any accounts, snapshots and verdicts Custos can give.               *)
THEOREM PhaseOneIsHonest == Spec => []PhaseOneSettleIsHonest
  <1>1. LinesInv => PhaseOneSettleIsHonest
    BY DEF LinesInv, LineIsHonest, PhaseOneSettleIsHonest
  <1> QED BY <1>1, LinesStay, PTL

(* src/bin/slice.rs:10.  The drainer is held whether its approve goes       *)
(* through (the screen) or reverts (the leg), with every key and verdict.   *)
THEOREM DrainerNeverSettles ==
  Spec => [](\A p \in shown : p.name = "drainer" => ~IsSettle(p.decision))
  <1>1. LinesInv => \A p \in shown : p.name = "drainer" => ~IsSettle(p.decision)
    BY DEF LinesInv, DrainerHeld
  <1> QED BY <1>1, LinesStay, PTL
-----------------------------------------------------------------------------
(* Accounts.  The watched accounts are finitely many, of the environment.   *)

LEMMA KeysAreAccounts ==
  ASSUME keys \in FreshKeys, NEW roles \in SUBSET Role
  PROVE  KeysOf(roles) \in SUBSET Account
  BY DEF FreshKeys, KeysOf

LEMMA KeysAreFinite ==
  ASSUME NEW roles \in SUBSET Role
  PROVE  IsFiniteSet(KeysOf(roles))
  <1> DEFINE all == ({keys["user"]} \cup {keys["user_ata"]}) \cup {keys["merchant_ata"]}
  <1>1. IsFiniteSet({keys["user"]})
    BY FS_Singleton
  <1>2. IsFiniteSet(all)
    <2>1. IsFiniteSet({keys["user"]} \cup {keys["user_ata"]})
      BY <1>1, FS_AddElement
    <2> QED BY <2>1, FS_AddElement
  <1>3. KeysOf(roles) \in SUBSET all
    BY DEF KeysOf, Role
  <1> HIDE DEF all
  <1> QED BY <1>2, <1>3, FS_Subset

LEMMA ScenarioWatches ==
  ASSUME NEW name \in {"benign", "drainer"}
  PROVE  Watched[name] \in SUBSET Role /\ Required[name] \subseteq Watched[name]
  BY DEF Watched, Required, Role

(* A capture: some finite set of accounts, what each of them holds, and the *)
(* digest of it, taken over some walk of the map.                           *)
IsCapture(post, digest) ==
    /\ DOMAIN post \in SUBSET Account /\ IsFiniteSet(DOMAIN post)
    /\ post \in [DOMAIN post -> Option(Snapshot)]
    /\ \E walk \in SetToSeqs(DOMAIN post) : digest = poststate_digest(post, canonical(walk))

(* What is on the screen and what is remembered are captures.               *)
CapturesInv ==
    /\ keys \in FreshKeys
    /\ \A p \in shown : IsCapture(p.outcome.post, p.digest)
    /\ \A q \in seen : IsCapture(q.post, q.digest)

LEMMA RememberKeepsCaptures ==
  ASSUME CapturesInv, Remember
  PROVE  \A q \in seen' : IsCapture(q.post, q.digest)
  BY DEF CapturesInv, Remember

LEMMA ScenarioCaptures ==
  ASSUME CapturesInv, NEW name \in {"benign", "drainer"}, NEW next, Scenario(name, next)
  PROVE  CapturesInv'
  <1> DEFINE W == KeysOf(Watched[name])
  <1>1. PICK outcome \in [success : BOOLEAN, post : [W -> Option(Snapshots)]],
             verdict \in Verdicts, walk \in SetToSeqs(W) :
          print_decision(name, outcome, verdict, walk)
    BY ScenarioShows
  <1>2. W \in SUBSET Account /\ IsFiniteSet(W)
    BY ScenarioWatches, KeysAreAccounts, KeysAreFinite DEF CapturesInv
  <1> DEFINE digest == proof_from_outcome(outcome, walk).poststate_digest
  <1>3. digest = poststate_digest(outcome.post, canonical(walk))
    BY DEF proof_from_outcome
  <1>4. outcome.post \in [W -> Option(Snapshots)]
    OBVIOUS
  <1>5. Option(Snapshots) \subseteq Option(Snapshot)
    BY SnapshotsAssumption DEF Option
  <1> HIDE DEF W
  <1>6. DOMAIN outcome.post = W /\ outcome.post \in [W -> Option(Snapshot)]
    BY <1>4, <1>5
  <1>7. IsCapture(outcome.post, digest)
    BY <1>2, <1>3, <1>6 DEF IsCapture
  <1>8. \A p \in shown' : p.outcome = outcome /\ p.digest = digest
    BY <1>1 DEF print_decision
  <1>9. keys' = keys /\ seen' = seen
    BY DEF Scenario
  <1> HIDE DEF digest
  <1> QED BY <1>7, <1>8, <1>9 DEF CapturesInv

LEMMA CapturesHold == Spec => []CapturesInv
  <1>1. Init => CapturesInv
    BY DEF Init, CapturesInv
  <1>2. CapturesInv /\ [Next]_vars => CapturesInv'
    <2> SUFFICES ASSUME CapturesInv, [Next]_vars PROVE CapturesInv'
      OBVIOUS
    <2>1. CASE UNCHANGED <<keys, shown, seen>>
      BY <2>1 DEF CapturesInv
    <2>2. ASSUME NEW name, fresh_env(name) PROVE CapturesInv'
      BY <2>2, RememberKeepsCaptures DEF fresh_env, CapturesInv
    <2>3. CASE Rerun
      BY <2>3, RememberKeepsCaptures DEF Rerun, CapturesInv
    <2> QED BY <2>1, <2>2, <2>3, ScenarioCaptures DEF Next, Benign, Drainer, Panic, vars
  <1> QED BY <1>1, <1>2, PTL DEF Spec

(* src/adapters/custos.rs:60-69, STAGE_ERC8004_VALIDATOR.md:145-147.  Two   *)
(* captures of any two runs, whoever ran them and whatever keys they drew,  *)
(* have the same digest exactly when the accounts and what they hold are.   *)
THEOREM DigestIsReproducible == Spec => []DigestIdentifiesPoststate
  <1>1. CapturesInv => DigestIdentifiesPoststate
    <2> SUFFICES ASSUME CapturesInv, NEW p \in shown, NEW q \in seen
                 PROVE  p.digest = q.digest <=> p.outcome.post = q.post
      BY DEF DigestIdentifiesPoststate
    <2>1. IsCapture(p.outcome.post, p.digest) /\ IsCapture(q.post, q.digest)
      BY DEF CapturesInv
    <2>2. ASSUME NEW post, NEW digest, IsCapture(post, digest), NEW held, NEW other,
                 IsCapture(held, other)
          PROVE  digest = other <=> post = held
      <3>1. PICK walk \in SetToSeqs(DOMAIN post) : digest = poststate_digest(post, canonical(walk))
        BY <2>2 DEF IsCapture
      <3>2. PICK stroll \in SetToSeqs(DOMAIN held) :
              other = poststate_digest(held, canonical(stroll))
        BY <2>2 DEF IsCapture
      <3> QED BY <2>2, <3>1, <3>2, DigestIsThePoststate DEF IsCapture
    <2> QED BY <2>1, <2>2
  <1> QED BY <1>1, CapturesHold, PTL
-----------------------------------------------------------------------------
(* What the two scenarios come to.                                          *)

(* A capture that executed, with nothing above the threshold and every      *)
(* required account in scope, settles.                                      *)
LEMMA CustosPasses ==
  ASSUME NEW outcome, NEW verdict, NEW iterated, NEW wanted,
         wanted.required_accounts \subseteq Range(canonical(iterated)),
         outcome.success, verdict.level <= Info
  PROVE  IsSettle(decide(wanted, proof_from_outcome(outcome, iterated),
                         verdict_from_custos(verdict), DefaultPolicy))
  <1> DEFINE proof  == proof_from_outcome(outcome, iterated)
             screen == verdict_from_custos(verdict)
  <1>1. /\ proof.facts_source = "caller_asserted" /\ proof.executed = outcome.success
        /\ proof.unverifiable = FALSE /\ proof.covered_accounts = Range(canonical(iterated))
        /\ screen.level = verdict.level
    BY DEF proof_from_outcome, verdict_from_custos
  <1>2. DefaultPolicy.max_settle_severity = Info /\ ~DefaultPolicy.require_recovered_facts
    BY DEF DefaultPolicy
  <1> HIDE DEF proof, screen
  <1>3. LegReasons(proof, DefaultPolicy) = {}
    BY <1>1 DEF LegReasons
  <1>4. ScreenReasons(screen, DefaultPolicy) = {}
    BY <1>1, <1>2, ScreenPasses
  <1>5. CoverageReasons(wanted, proof) = {}
    BY <1>1 DEF CoverageReasons
  <1>6. DecideReasons(wanted, proof, screen, DefaultPolicy) = {}
    BY <1>1, <1>2, <1>3, <1>4, <1>5 DEF DecideReasons
  <1> QED BY <1>6, DecideConcludes, ConcludeSettles DEF proof, screen

(* All that a scenario watches is in the proof.                             *)
LEMMA ScenarioCovers ==
  ASSUME keys \in FreshKeys, NEW name \in {"benign", "drainer"},
         NEW walk \in SetToSeqs(KeysOf(Watched[name]))
  PROVE  intent(name).required_accounts \subseteq Range(canonical(walk))
  <1> DEFINE W == KeysOf(Watched[name])
  <1>1. W \in SUBSET Nat /\ IsFiniteSet(W)
    BY ScenarioWatches, KeysAreAccounts, KeysAreFinite, AccountAssumption
  <1>2. Range(canonical(walk)) = W
    <2> HIDE DEF W
    <2> QED BY <1>1, SortForgetsTheWalk DEF W
  <1>3. intent(name).required_accounts = KeysOf(Required[name])
    BY DEF intent
  <1>4. KeysOf(Required[name]) \subseteq W
    BY ScenarioWatches DEF KeysOf
  <1> QED BY <1>2, <1>3, <1>4

LEMMA ScenarioPitch ==
  ASSUME CapturesInv, LinesInv', NEW name \in {"benign", "drainer"}, NEW next, Scenario(name, next)
  PROVE  ThePitch'
  <1>1. PICK outcome \in [success : BOOLEAN,
                          post : [KeysOf(Watched[name]) -> Option(Snapshots)]],
             verdict \in Verdicts, walk \in SetToSeqs(KeysOf(Watched[name])) :
          /\ DefaultBank(name, outcome, verdict)
          /\ print_decision(name, outcome, verdict, walk)
    BY ScenarioShows
  <1> DEFINE decision == decide(intent(name), proof_from_outcome(outcome, walk),
                                verdict_from_custos(verdict), DefaultPolicy)
  <1>2. verdict \in CustosVerdict /\ CustosContract(verdict)
    BY <1>1, VerdictsAssumption DEF DefaultBank
  <1>3. outcome.success /\ verdict.level <= Info => IsSettle(decision)
    BY ScenarioCovers, CustosPasses DEF CapturesInv
  <1>4. ASSUME IsSettle(decision) PROVE outcome.success /\ verdict.level <= Info
    <2>1. outcome.success = TRUE /\ \A f \in verdict.findings : f.level <= Info
      BY <1>2, <1>4, CustosSettle
    <2>2. verdict.level <= Info
      <3>1. CASE verdict.level = Green
        BY <3>1 DEF Green, Info
      <3>2. CASE verdict.level # Green
        BY <1>2, <2>1, <3>2 DEF CustosContract
      <3> QED BY <3>1, <3>2
    <2> QED BY <2>1, <2>2
  <1>5. \A p \in shown' : p.name = name /\ p.outcome = outcome /\ p.verdict = verdict
                          /\ p.decision = decision
    BY <1>1 DEF print_decision
  <1> HIDE DEF decision
  <1>6. \A p \in shown' : p.name = "drainer" => ~IsSettle(p.decision)
    BY DEF LinesInv, DrainerHeld
  <1> QED BY <1>3, <1>4, <1>5, <1>6 DEF ThePitch

(* src/bin/slice.rs:9-10.  The settlement gets settled exactly when it      *)
(* executed and nothing was found, whatever the keys, the accounts and the  *)
(* order of the map, and the drainer gets held.                             *)
THEOREM ThePitchHolds == Spec => []ThePitch
  <1>1. Init => ThePitch
    BY DEF Init, ThePitch
  <1>2. ThePitch /\ CapturesInv /\ LinesInv' /\ [Next]_vars => ThePitch'
    <2> SUFFICES ASSUME ThePitch, CapturesInv, LinesInv', [Next]_vars PROVE ThePitch'
      OBVIOUS
    <2>1. CASE UNCHANGED shown
      BY <2>1 DEF ThePitch
    <2>2. ASSUME NEW name, fresh_env(name) PROVE ThePitch'
      BY <2>2 DEF fresh_env, ThePitch
    <2>3. CASE Rerun
      BY <2>3 DEF Rerun, ThePitch
    <2> QED BY <2>1, <2>2, <2>3, ScenarioPitch DEF Next, Benign, Drainer, Panic, vars
  <1> QED BY <1>1, <1>2, CapturesHold, LinesStay, PTL DEF Spec

-----------------------------------------------------------------------------
(* Type correctness.                                                        *)

LEMMA CustosScreenType ==
  ASSUME NEW v \in CustosVerdict
  PROVE  verdict_from_custos(v) \in InvariantVerdict
  <1>1. v.level \in Severity /\ v.findings \subseteq [level : Severity, code : Code]
    BY DEF CustosVerdict
  <1>2. {[severity |-> f.level, code |-> f.code] : f \in v.findings} \subseteq Finding
    BY <1>1 DEF Finding
  <1> QED BY <1>1, <1>2 DEF verdict_from_custos, InvariantVerdict

(* A line on the screen, in its type.                                       *)
IsLine(p) ==
    /\ p.name \in {"benign", "drainer"}
    /\ p.outcome \in Outcome(DOMAIN p.outcome.post, Snapshots) /\ p.verdict \in CustosVerdict
    /\ p.decision \in LiquetDecision

LEMMA ScenarioType ==
  ASSUME keys \in FreshKeys, NEW name \in {"benign", "drainer"}, NEW next, Scenario(name, next)
  PROVE  \A p \in shown' : IsLine(p)
  <1> DEFINE W == KeysOf(Watched[name])
  <1>1. PICK outcome \in [success : BOOLEAN, post : [W -> Option(Snapshots)]],
             verdict \in Verdicts, walk \in SetToSeqs(W) :
          print_decision(name, outcome, verdict, walk)
    BY ScenarioShows
  <1> DEFINE decision == decide(intent(name), proof_from_outcome(outcome, walk),
                                verdict_from_custos(verdict), DefaultPolicy)
  <1>2. verdict \in CustosVerdict
    BY VerdictsAssumption
  <1>3. intent(name).required_accounts \subseteq Account
    <2>1. intent(name).required_accounts = KeysOf(Required[name])
      BY DEF intent
    <2>2. Required[name] \in SUBSET Role
      BY ScenarioWatches
    <2> QED BY <2>1, <2>2, KeysAreAccounts
  <1>4. decision \in LiquetDecision
    BY <1>2, <1>3, CustosScreenType, DecideDecisionType
  <1>5. outcome \in Outcome(DOMAIN outcome.post, Snapshots)
    <2> HIDE DEF W
    <2>1. DOMAIN outcome.post = W
      OBVIOUS
    <2> QED BY <2>1 DEF Outcome
  <1>6. \A p \in shown' : p.name = name /\ p.outcome = outcome /\ p.verdict = verdict
                          /\ p.decision = decision
    BY <1>1 DEF print_decision
  <1> HIDE DEF decision, W
  <1> QED BY <1>2, <1>4, <1>5, <1>6 DEF IsLine

(* The slice stays in its types.                                            *)
THEOREM SliceTypeCorrect == Spec => []TypeOK
  <1> DEFINE Step == ({"fresh_env", "capture"} \X {"benign", "drainer"}) \cup {<<"over">>}
             Typed == step \in Step /\ keys \in FreshKeys /\ \A p \in shown : IsLine(p)
  <1>1. TypeOK <=> Typed
    BY DEF TypeOK, IsLine
  <1>2. Init => Typed
    BY DEF Init
  <1>3. Typed /\ [Next]_vars => Typed'
    <2> SUFFICES ASSUME Typed, [Next]_vars PROVE Typed'
      OBVIOUS
    <2>1. CASE UNCHANGED vars
      BY <2>1 DEF vars
    <2>2. ASSUME NEW name \in {"benign", "drainer"}, fresh_env(name) PROVE Typed'
      BY <2>2 DEF fresh_env
    <2>3. ASSUME NEW name \in {"benign", "drainer"}, NEW next \in Step, Scenario(name, next)
          PROVE  Typed'
      <3>1. step' = next /\ keys' = keys
        BY <2>3 DEF Scenario
      <3> QED BY <2>3, <3>1, ScenarioType
    <2>4. CASE Panic
      BY <2>4 DEF Panic
    <2>5. CASE Rerun
      BY <2>5 DEF Rerun
    <2>6. <<"fresh_env", "drainer">> \in Step /\ <<"over">> \in Step
      OBVIOUS
    <2> HIDE DEF Step, Typed
    <2> QED BY <2>1, <2>2, <2>3, <2>4, <2>5, <2>6 DEF Next, Benign, Drainer
  <1> HIDE DEF Typed
  <1> QED BY <1>1, <1>2, <1>3, PTL DEF Spec
=============================================================================
