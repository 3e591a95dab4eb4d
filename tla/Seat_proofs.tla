----------------------------- MODULE Seat_proofs ----------------------------
(***************************************************************************)
(* ValidatorService implements ValidationSeat: under the refinement mapping *)
(* of the instance Seat, the initial states map to initial states and every *)
(* step to a step of the seat or to a stutter.                              *)
(***************************************************************************)
EXTENDS ValidatorService_proofs

(* The fate of a claim that was checked is its reconcile verdict.           *)
LEMMA CheckedFate ==
  ASSUME NEW e \in Execution, Checked(e)
  PROVE  FateOf(e).verdict = e.receipt.verdict /\ FateOf(e).verdict \in Seat!Scored
  <1>1. FateOf(e).verdict = e.receipt.verdict
    BY DEF FateOf, Checked
  <1>2. e.receipt.verdict \in ReconcileVerdict \ {"unverifiable"}
    BY DEF Checked, Execution, XvmReceipt
  <1> QED BY <1>1, <1>2 DEF ReconcileVerdict, Seat!Scored

(* What has landed is a true row of the table, and responses that share     *)
(* their evidence tell one story.                                           *)
StoriesAreRows ==
    \A l \in landed :
      /\ l.request_hash \in Request
      /\ Seat!Row(FateOf(ExecutionOf(l)), Story(l).threshold, l.response, l.tag)
OneStory ==
    \A l, m \in landed : l.response_uri = m.response_uri =>
      /\ Story(l).threshold = Story(m).threshold
      /\ l.response = m.response /\ l.tag = m.tag

(* Both follow from the invariant.                                          *)
LEMMA StoriesHold == IInv => StoriesAreRows /\ OneStory
  <1> SUFFICES ASSUME IInv PROVE StoriesAreRows /\ OneStory
    OBVIOUS
  <1>1. ASSUME NEW l \in landed
        PROVE  /\ l.request_hash \in Request
               /\ Seat!Row(FateOf(ExecutionOf(l)), Story(l).threshold, l.response, l.tag)
    <2> DEFINE e   == ExecutionOf(l)
               max == BindingBehind(l).policy.max_settle_severity
               safe == e.custos.level <= max
    <2>1. /\ e \in Execution /\ Checked(e) /\ BindingBehind(l).policy \in GatePolicy
          /\ l.response \in {PASS, FAIL}
          /\ l.response = PASS <=> e.receipt.verdict = "matched" /\ safe
          /\ l.tag = "matched" <=> e.receipt.verdict = "matched" /\ safe
          /\ l.tag = "unsafe" <=> e.receipt.verdict = "matched" /\ ~safe
          /\ l.tag = "half-open" <=> e.receipt.verdict = "half_open"
          /\ l.tag = "mismatch" <=> e.receipt.verdict = "mismatch"
      BY LandedMeaning
    <2>2. /\ FateOf(e).verdict = e.receipt.verdict /\ FateOf(e).level = e.custos.level
          /\ e.receipt.verdict \in {"matched", "half_open", "mismatch"}
      BY <2>1, CheckedFate DEF FateOf, Seat!Scored
    <2>3. ~safe <=> e.custos.level > max
      BY <2>1 DEF Execution, CustosVerdict, GatePolicy, Severity
    <2>4. Story(l).threshold = max
      BY DEF Story
    <2>5. l.request_hash \in Request
      BY DEF IInv, TypeOK, OnChainResponse
    <2> HIDE DEF e, max
    <2>6. Seat!Row(FateOf(e), max, l.response, l.tag)
      BY <2>1, <2>2, <2>3 DEF Seat!Row, PASS, FAIL
    <2> QED BY <2>4, <2>5, <2>6 DEF e
  <1>2. ASSUME NEW l \in landed, NEW m \in landed, l.response_uri = m.response_uri
        PROVE  /\ Story(l).threshold = Story(m).threshold
               /\ l.response = m.response /\ l.tag = m.tag
    <2> DEFINE b == BindingBehind(l)
               c == BindingBehind(m)
    <2>1. /\ l.response_uri = uri_for(digest(b)) /\ m.response_uri = uri_for(digest(c))
          /\ {l.response} = ScoreAndTag(b)[1] /\ l.tag = ScoreAndTag(b)[2]
          /\ {m.response} = ScoreAndTag(c)[1] /\ m.tag = ScoreAndTag(c)[2]
      BY LandedMeaning
    <2> HIDE DEF b, c
    <2>2. digest(b) = digest(c)
      <3>1. embedded_hash(l.response_uri) = digest(b) /\ embedded_hash(m.response_uri) = digest(c)
        BY <2>1 DEF uri_for, embedded_hash
      <3> QED BY <1>2, <3>1
    <2>3. b = c
      BY <2>2, CommittedDigest
    <2> QED BY <2>1, <2>3 DEF b, c, Story
  <1> QED BY <1>1, <1>2 DEF StoriesAreRows, OneStory

-----------------------------------------------------------------------------
(* A step of which the registry and the names in the root show nothing.     *)
LEMMA StutterStep ==
  ASSUME UNCHANGED <<execution, landed, abstained>>, DOMAIN files' = DOMAIN files
  PROVE  UNCHANGED Seat!vars
  BY DEF Seat!vars, Story, BindingBehind

(* A worker that stores under its URI pins it.                              *)
LEMMA PinStep ==
  ASSUME IInv, NEW w \in Worker, task[w].step \in Deciding,
         NEW bundle, Store(UriOf(w), bundle),
         UNCHANGED <<execution, landed, abstained>>
  PROVE  Seat!Next
  <1> DEFINE r == task[w].request
             u == UriOf(w)
             e == execution[ClaimOf[r]]
  <1>1. r \in Request /\ e \in Execution /\ DecidedFor(e, task[w].signed)
    BY TaskHolds
  <1>2. FateOf(e).verdict \in Seat!Scored
    BY <1>1, CheckedFate DEF DecidedFor
  <1> HIDE DEF u, e
  <1>3. DOMAIN files' = DOMAIN files \cup {u}
    BY StoreEffect DEF u
  <1>4. Seat!Pin(u)
    BY <1>1, <1>2, <1>3 DEF Seat!Pin, e, Story, BindingBehind
  <1>5. \E x \in DOMAIN files' : Seat!Pin(x)
    BY <1>3, <1>4
  <1> QED BY <1>5 DEF Seat!Next

(* The response that a worker submits is one that the seat allows.          *)
LEMMA SubmitStep ==
  ASSUME IInv, StoriesAreRows', OneStory', AbstainedInv', NEW w \in Worker, Submit(w)
  PROVE  Seat!Next
  <1> DEFINE vr == validation_response(task[w].signed)
             l  == [request_hash |-> task[w].request, response |-> unwrap(vr.response),
                    response_uri |-> UriOf(w), response_hash |-> vr.response_hash,
                    tag |-> vr.tag]
             x  == Story(l)
             e  == execution[ClaimOf[task[w].request]]
  <1>1. /\ UNCHANGED <<execution, files, abstained>> /\ landed' = landed \cup {l}
        /\ task[w].step = "submit" /\ task[w].step \in Deciding
    BY DEF Submit, Deciding
  <1>2. /\ task[w].request \in Request /\ e \in Execution
        /\ DecidedFor(e, task[w].signed) /\ UriOf(w) \in DOMAIN files
    BY <1>1, TaskHolds DEF IInv, TaskInv
  <1>3. /\ x.request = task[w].request /\ x.score = l.response /\ x.tag = l.tag
        /\ x.evidence = UriOf(w) /\ l.request_hash = task[w].request
        /\ l.response_uri = UriOf(w)
    BY DEF Story
  <1> HIDE DEF l, vr
  <1>4. task[w].request \notin abstained
    BY <1>1, <1>2 DEF AbstainedInv, DecidedFor, Checked
  <1>5. Seat!Row(FateOf(e), x.threshold, x.score, x.tag)
    BY <1>1, <1>3 DEF StoriesAreRows, ExecutionOf, Story, BindingBehind
  <1>6. \A m \in landed : Story(m).evidence = x.evidence =>
          /\ Story(m).threshold = x.threshold /\ Story(m).score = x.score
          /\ Story(m).tag = x.tag
    BY <1>1, <1>3 DEF OneStory, Story, BindingBehind
  <1>7. {Story(m) : m \in landed}' = {Story(m) : m \in landed} \cup {x}
    BY <1>1 DEF Story, BindingBehind
  <1> HIDE DEF x, e
  <1>8. Seat!Respond(x)
    BY <1>1, <1>2, <1>3, <1>4, <1>5, <1>6, <1>7 DEF Seat!Respond, e
  <1>9. \E y \in {Story(m) : m \in landed}' : Seat!Respond(y)
    BY <1>7, <1>8
  <1> QED BY <1>9 DEF Seat!Next

(* An abstention is one of the seat.                                        *)
LEMMA AbstainStep ==
  ASSUME IInv, NEW w \in Worker, Abstain(w)
  PROVE  Seat!Next
  <1> DEFINE r == task[w].request
             e == execution[ClaimOf[r]]
  <1>1. /\ UNCHANGED <<execution, files, landed>> /\ abstained' = abstained \cup {r}
        /\ task[w].step = "validate"
    BY DEF Abstain
  <1>2. PICK signed \in Resolved(w) : validation_response(signed).response = {}
    BY DEF Abstain
  <1>3. r \in Request /\ e.receipt.verdict = "unverifiable"
    BY <1>1, <1>2, ResolvedIsDecided
  <1>4. Resolvable(e)
    BY <1>2 DEF Resolved, validate
  <1>5. FateOf(e).verdict = "unverifiable"
    BY <1>3, <1>4 DEF FateOf
  <1>6. \A l \in landed : l.request_hash # r
    BY <1>3 DEF IInv, LandedInv, ResponseFor, Checked, ExecutionOf
  <1>7. \A x \in {Story(l) : l \in landed} : x.request # r
    BY <1>6 DEF Story
  <1> HIDE DEF e
  <1>8. Seat!Abstain(r)
    BY <1>1, <1>3, <1>5, <1>7 DEF Seat!Abstain, e, Story, BindingBehind
  <1> QED BY <1>3, <1>8 DEF Seat!Next

(* Losing power loses names at most.                                        *)
LEMMA LoseStep ==
  ASSUME PowerLoss
  PROVE  Seat!Next
  <1>1. DOMAIN files' \subseteq DOMAIN files /\ UNCHANGED <<execution, landed, abstained>>
    BY DEF PowerLoss
  <1>2. Seat!Lose
    BY <1>1 DEF Seat!Lose, Story, BindingBehind
  <1> QED BY <1>2 DEF Seat!Next

(* Every step of the service is one of the seat, or none.                   *)
LEMMA StepMaps ==
  ASSUME IInv, StoriesAreRows', OneStory', AbstainedInv', [Next]_vars
  PROVE  [Seat!Next]_(Seat!vars)
  <1>1. CASE UNCHANGED vars
    BY <1>1, StutterStep DEF vars
  <1>2. ASSUME NEW w \in Worker, Step(w)
        PROVE  [Seat!Next]_(Seat!vars)
    <2>1. CASE Unresolvable(w) \/ Score(w)
      BY <2>1, StutterStep DEF Unresolvable, Score
    <2>2. CASE Abstain(w)
      BY <2>2, AbstainStep
    <2>3. CASE OpenEvidence(w)
      BY <2>3, PinStep DEF OpenEvidence, Deciding
    <2>4. CASE WriteEvidence(w)
      BY <2>4, PinStep DEF WriteEvidence, Deciding
    <2>5. CASE Submit(w)
      BY <2>5, SubmitStep
    <2> QED BY <1>2, <2>1, <2>2, <2>3, <2>4, <2>5 DEF Step
  <1>3. ASSUME NEW w \in Worker, Fault(w)
        PROVE  [Seat!Next]_(Seat!vars)
    <2>1. CASE OpenFails(w) \/ Reconfigure(w)
      BY <2>1, StutterStep DEF OpenFails, Reconfigure
    <2>2. CASE WriteFails(w)
      BY <2>2, PinStep DEF WriteFails, Deciding
    <2>3. CASE Crash(w) /\ task[w].step = "write"
      BY <2>3, PinStep DEF Crash, Deciding
    <2>4. CASE Crash(w) /\ task[w].step # "write"
      BY <2>4, StutterStep DEF Crash
    <2> QED BY <1>3, <2>1, <2>2, <2>3, <2>4 DEF Fault
  <1>4. ASSUME NEW w \in Worker, NEW r \in Request, Receive(w, r)
        PROVE  [Seat!Next]_(Seat!vars)
    BY <1>4, StutterStep DEF Receive
  <1>5. ASSUME NEW u \in DOMAIN files, WriteBack(u)
        PROVE  [Seat!Next]_(Seat!vars)
    BY <1>5, StutterStep DEF WriteBack
  <1> QED BY <1>1, <1>2, <1>3, <1>4, <1>5, LoseStep DEF Next

(* An empty registry and an empty root are where the seat starts.           *)
LEMMA InitMaps == Init => Seat!Init
  BY DEF Init, Seat!Init

(* src/erc8004/validator.rs:77-79.  Whatever the workers, the faults and    *)
(* the operators, the registry sees the validator of ValidationSeat.        *)
THEOREM ServiceImplementsSeat == Spec => ImplementsSeat
  <1>1. IInv /\ IInv' /\ [Next]_vars => [Seat!Next]_(Seat!vars)
    <2>1. IInv' => StoriesAreRows' /\ OneStory'
      BY StoriesHold, PTL
    <2> QED BY <2>1, StepMaps DEF IInv
  <1> QED BY <1>1, InitMaps, Invariant, PTL DEF Spec, ImplementsSeat, Seat!Spec
=============================================================================
