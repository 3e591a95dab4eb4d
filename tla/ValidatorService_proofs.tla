----------------------- MODULE ValidatorService_proofs ----------------------
(***************************************************************************)
(* Invariants of the validation seat, for any workers, requests, claims,    *)
(* operators, executions and faults.                                        *)
(***************************************************************************)
EXTENDS ValidatorService, Gate_proofs

-----------------------------------------------------------------------------
(* Options.                                                                 *)
LEMMA Unwrapping ==
  ASSUME NEW v
  PROVE  unwrap({v}) = v
  BY DEF unwrap

(* An option that is not None unwraps to one of its values.                 *)
LEMMA UnwrapIn ==
  ASSUME NEW S, NEW opt, IsOption(opt, S), opt # {}
  PROVE  unwrap(opt) \in S /\ opt = {unwrap(opt)}
  <1>1. PICK v : v \in opt
    OBVIOUS
  <1>2. opt = {v} /\ v \in S
    BY <1>1 DEF IsOption
  <1> QED BY <1>2, Unwrapping

-----------------------------------------------------------------------------
(* The pipeline keeps to the types of the seam.                             *)
LEMMA ProofFromLegType ==
  ASSUME NEW leg \in ReconstructedLeg
  PROVE  proof_from_leg(leg) \in ReexecProof
  BY DEF ReconstructedLeg, proof_from_leg, ReexecProof, FactsSource

(* Slot 1 of an execution.                                                  *)
LEMMA CrossVmType ==
  ASSUME NEW e \in Execution
  PROVE  CrossVmOf(e) \in CrossVmProof
  <1>1. e.evm \in ReconstructedLeg /\ e.svm \in ReconstructedLeg /\ e.receipt \in XvmReceipt
    BY DEF Execution
  <1>2. proof_from_leg(e.evm) \in ReexecProof /\ proof_from_leg(e.svm) \in ReexecProof
    BY <1>1, ProofFromLegType
  <1>3. <<proof_from_leg(e.evm), proof_from_leg(e.svm)>> \in ReexecProof \X ReexecProof
    BY <1>2
  <1> QED BY <1>1, <1>3 DEF CrossVmOf, crossvm_from_receipt, CrossVmProof, XvmReceipt

(* Slot 2 of an execution.                                                  *)
LEMMA VerdictType ==
  ASSUME NEW v \in CustosVerdict
  PROVE  verdict_from_custos(v) \in InvariantVerdict
  BY DEF CustosVerdict, verdict_from_custos, InvariantVerdict, Finding

(* What is signed for an execution is a binding.                            *)
LEMMA BindingType ==
  ASSUME NEW e \in Execution, NEW policy \in GatePolicy
  PROVE  BindingOf(e, policy) \in DecisionBinding
  <1> DEFINE cross     == CrossVmOf(e)
             invariant == verdict_from_custos(e.custos)
             decision  == decide_crossvm(cross, invariant, policy)
  <1>1. cross \in CrossVmProof
    BY CrossVmType
  <1>2. invariant \in InvariantVerdict
    BY VerdictType DEF Execution
  <1>3. decision \in LiquetDecision
    BY <1>1, <1>2, CrossVmDecisionType
  <1>4. cross.legs[1] \in ReexecProof /\ cross.legs[2] \in ReexecProof
    BY <1>1 DEF CrossVmProof
  <1>5. LegDigestOf(cross.legs[1]) \in LegDigest /\ LegDigestOf(cross.legs[2]) \in LegDigest
    BY <1>4 DEF ReexecProof, LegDigestOf, LegDigest
  <1>6. BindingOf(e, policy) = new(cross, invariant, policy, decision)
    BY DEF BindingOf
  <1> HIDE DEF cross, invariant, decision
  <1>7. new(cross, invariant, policy, decision) \in DecisionBinding
    BY <1>1, <1>2, <1>3, <1>5 DEF new, DecisionBinding, CrossVmProof, PolicySnapshot
  <1> QED BY <1>6, <1>7

(* What the fields of the binding of an execution are.                      *)
LEMMA BindingFields ==
  ASSUME NEW e, NEW policy
  PROVE  LET b == BindingOf(e, policy) IN
           /\ b.reconcile = e.receipt.verdict
           /\ b.policy = policy
           /\ b.claim_hash = e.receipt.claim_hash
           /\ b.settlement_id = e.receipt.settlement_id
           /\ b.invariant = verdict_from_custos(e.custos)
           /\ b.decision = decide_crossvm([reconcile |-> b.reconcile], b.invariant, b.policy)
  BY DEF BindingOf, new, CrossVmOf, crossvm_from_receipt, decide_crossvm, ReconcileReasons

(* A signed binding is a bundle.                                            *)
LEMMA SignedType ==
  ASSUME NEW b \in DecisionBinding, NEW key \in Key
  PROVE  sign_decision(b, key) \in SignedDecision
  BY DEF sign_decision, SignedDecision, sign, digest, Hash

(* What a signed binding is made of.                                        *)
LEMMA SignedFields ==
  ASSUME NEW b, NEW key
  PROVE  /\ sign_decision(b, key).binding = b
         /\ sign_decision(b, key).signer = key
         /\ sign_decision(b, key).signature = sign(key, digest(b))
  BY DEF sign_decision

(* The response depends on the binding alone.                               *)
LEMMA ResponseOfSigned ==
  ASSUME NEW s, NEW t, s.binding = t.binding
  PROVE  validation_response(s) = validation_response(t)
  BY DEF validation_response

(* A digest commits to the binding it was made from.                        *)
LEMMA CommittedDigest ==
  ASSUME NEW b
  PROVE  Committed(digest(b)) = b
  BY DEF Committed, digest

(* Scores and tags.  A score is posted exactly for a verdict other than     *)
(* unverifiable, and PASS only for a settled match.                         *)
LEMMA Scores ==
  ASSUME NEW b, b.reconcile \in ReconcileVerdict
  PROVE  LET vr == ScoreAndTag(b) IN
           /\ vr[1] = {} <=> b.reconcile = "unverifiable"
           /\ vr[1] # {} => unwrap(vr[1]) \in {PASS, FAIL} /\ vr[1] = {unwrap(vr[1])}
           /\ vr[2] \in Tag
           /\ vr[1] # {} /\ unwrap(vr[1]) = PASS
                <=> b.reconcile = "matched" /\ IsSettle(b.decision)
           /\ vr[2] = "unverifiable" <=> b.reconcile = "unverifiable"
           /\ vr[2] = "half-open" <=> b.reconcile = "half_open"
           /\ vr[2] = "mismatch" <=> b.reconcile = "mismatch"
           /\ vr[2] = "matched" <=> b.reconcile = "matched" /\ IsSettle(b.decision)
           /\ vr[2] = "unsafe" <=> b.reconcile = "matched" /\ ~IsSettle(b.decision)
  <1>0. PASS # FAIL
    BY DEF PASS, FAIL
  <1>1. unwrap({PASS}) = PASS /\ unwrap({FAIL}) = FAIL
    BY Unwrapping
  <1>2. CASE b.reconcile = "unverifiable"
    BY <1>2 DEF ScoreAndTag, Tag
  <1>3. CASE b.reconcile = "half_open"
    BY <1>0, <1>1, <1>3 DEF ScoreAndTag, Tag
  <1>4. CASE b.reconcile = "mismatch"
    BY <1>0, <1>1, <1>4 DEF ScoreAndTag, Tag
  <1>5. CASE b.reconcile = "matched"
    BY <1>0, <1>1, <1>5 DEF ScoreAndTag, Tag
  <1> QED BY <1>2, <1>3, <1>4, <1>5 DEF ReconcileVerdict

-----------------------------------------------------------------------------
(* The inductive invariant.  TypeOK and the properties do not follow from   *)
(* themselves: a response is grounded because the task that submitted it    *)
(* held a decision of the pipeline for the request's own claim, so the      *)
(* invariant carries that fact through the task, the file and the registry. *)

Checked(e) == Resolvable(e) /\ e.receipt.verdict # "unverifiable"

DecidedFor(e, signed) ==
    /\ Checked(e)
    /\ \E op \in Operator : signed = sign_decision(BindingOf(e, op.policy), op.signing_key)

PinnedFor(e, uri) ==
    /\ Checked(e)
    /\ \E op \in Operator : embedded_hash(uri) = digest(BindingOf(e, op.policy))

ResponseFor(e, l) ==
    /\ Checked(e)
    /\ \E op \in Operator : LET b == BindingOf(e, op.policy) IN
         /\ l.response_hash = digest(b) /\ l.response_uri = uri_for(digest(b))
         /\ {l.response} = ScoreAndTag(b)[1] /\ l.tag = ScoreAndTag(b)[2]

Deciding == {"open", "write", "submit"}

TaskInv ==
    \A w \in Worker : task[w].step \in Deciding =>
      /\ DecidedFor(execution[ClaimOf[task[w].request]], task[w].signed)
      /\ task[w].step # "open" => UriOf(w) \in DOMAIN files

FilesInv == \A u \in DOMAIN files : \E c \in ClaimId : PinnedFor(execution[c], u)
DiskInv == \A u \in DOMAIN disk : \A s \in disk[u] : embedded_hash(u) = digest(s.binding)
LandedInv == \A l \in landed : ResponseFor(ExecutionOf(l), l)
AbstainedInv ==
    \A r \in abstained : execution[ClaimOf[r]].receipt.verdict = "unverifiable"

IInv ==
    /\ TypeOK
    /\ execution \in [ClaimId -> Executions]
    /\ TaskInv /\ FilesInv /\ ContentAddressed /\ DiskInv /\ LandedInv /\ AbstainedInv

-----------------------------------------------------------------------------
(* What the parts of a task are.                                            *)
LEMMA TaskParts ==
  ASSUME NEW t \in Task
  PROVE  /\ t.step \in {"idle", "validate"} \cup Deciding
         /\ t.step \notin {"idle"} => t.request \in Request
         /\ t.step \in Deciding => t.signed \in SignedDecision
  BY DEF Task, Idle, Deciding

(* A task that goes on keeps its request and its bundle.                    *)
LEMMA TaskAdvance ==
  ASSUME NEW t \in Task, t.step \in Deciding, NEW step \in Deciding
  PROVE  LET n == [t EXCEPT !.step = step] IN
           n \in Task /\ n.step = step /\ n.request = t.request /\ n.signed = t.signed
  BY DEF Task, Idle, Deciding

(* What a decided bundle is.                                                *)
LEMMA DecidedBundle ==
  ASSUME NEW e \in Execution, NEW signed, DecidedFor(e, signed)
  PROVE  /\ signed \in SignedDecision
         /\ signed.binding \in DecisionBinding
         /\ content_hash(signed) = digest(signed.binding)
         /\ digest(signed.binding) \in Hash
         /\ \E op \in Operator : signed.binding = BindingOf(e, op.policy)
         /\ signed.binding.reconcile \in ReconcileVerdict \ {"unverifiable"}
  <1>1. PICK op \in Operator : signed = sign_decision(BindingOf(e, op.policy), op.signing_key)
    BY DEF DecidedFor
  <1>2. op.policy \in GatePolicy /\ op.signing_key \in Key
    BY ServiceAssumption
  <1>3. BindingOf(e, op.policy) \in DecisionBinding
    BY <1>2, BindingType
  <1>4. signed.binding = BindingOf(e, op.policy)
    BY <1>1, SignedFields
  <1>5. signed \in SignedDecision
    BY <1>1, <1>2, <1>3, SignedType
  <1>6. signed.binding.reconcile = e.receipt.verdict
    BY <1>4 DEF BindingOf, new, CrossVmOf, crossvm_from_receipt
  <1>7. e.receipt.verdict # "unverifiable"
    BY DEF DecidedFor, Checked
  <1>8. signed.binding.reconcile \in ReconcileVerdict
    BY <1>3, <1>4 DEF DecisionBinding
  <1>9. digest(signed.binding) \in Hash
    BY <1>3, <1>4 DEF digest, Hash
  <1> QED BY <1>3, <1>4, <1>5, <1>6, <1>7, <1>8, <1>9 DEF content_hash

(* Storing at a URI changes that file and no other.                         *)
LEMMA StoreEffect ==
  ASSUME NEW uri, NEW bundle, Store(uri, bundle)
  PROVE  /\ DOMAIN files' = DOMAIN files \cup {uri}
         /\ files'[uri] = bundle
         /\ \A u \in DOMAIN files : u # uri => files'[u] = files[u]
  BY DEF Store

(* A write that stops half-way leaves nothing that parses, or a bundle of   *)
(* the binding that was being written.                                      *)
LEMMA TornBundles ==
  ASSUME NEW was, IsOption(was, SignedDecision), NEW signed \in SignedDecision,
         \A s \in was : digest(s.binding) = digest(signed.binding),
         NEW torn \in Torn(was, signed)
  PROVE  /\ IsOption(torn, SignedDecision)
         /\ \A s \in torn : s.binding = signed.binding
  <1>1. CASE was = {}
    BY <1>1 DEF Torn, IsOption
  <1>2. CASE was # {}
    <2> DEFINE old == unwrap(was)
    <2>1. old \in SignedDecision /\ old \in was
      BY <1>2, UnwrapIn
    <2>2. old.binding = signed.binding
      BY <2>1, CommittedDigest
    <2> HIDE DEF old
    <2>3. PICK s \in Splice(old, signed) : torn = {s}
      BY <1>2, <2>2 DEF Torn, old
    <2>4. s \in SignedDecision /\ s.binding = signed.binding
      BY <2>1, <2>2, <2>3 DEF Splice, SignedDecision
    <2> QED BY <2>3, <2>4 DEF IsOption
  <1> QED BY <1>1, <1>2

(* Pinning: a worker that stores, under the URI of its decision, a bundle   *)
(* of that decision's binding keeps the evidence root in order.             *)
LEMMA PinningKeepsOrder ==
  ASSUME IInv, UNCHANGED execution, NEW w \in Worker, task[w].step \in Deciding,
         NEW bundle, IsOption(bundle, SignedDecision),
         \A s \in bundle : s.binding = task[w].signed.binding,
         Store(UriOf(w), bundle)
  PROVE  /\ DOMAIN files' \subseteq Uri
         /\ \A u \in DOMAIN files' : IsOption(files'[u], SignedDecision)
         /\ FilesInv' /\ ContentAddressed'
         /\ UriOf(w) \in DOMAIN files' /\ DOMAIN files \subseteq DOMAIN files'
  <1> DEFINE uri == UriOf(w)
             c   == ClaimOf[task[w].request]
  <1>1. task[w] \in Task
    BY DEF IInv, TypeOK
  <1>2. task[w].request \in Request /\ c \in ClaimId
    BY <1>1, TaskParts, ServiceAssumption DEF Deciding
  <1>3. execution[c] \in Execution
    BY <1>2 DEF IInv, TypeOK
  <1>4. DecidedFor(execution[c], task[w].signed)
    BY DEF IInv, TaskInv
  <1>5. /\ uri = uri_for(digest(task[w].signed.binding))
        /\ digest(task[w].signed.binding) \in Hash
        /\ \E op \in Operator : task[w].signed.binding = BindingOf(execution[c], op.policy)
    BY <1>3, <1>4, DecidedBundle DEF UriOf
  <1>6. uri \in Uri /\ embedded_hash(uri) = digest(task[w].signed.binding)
    BY <1>5 DEF uri_for, Uri, embedded_hash
  <1>7. PinnedFor(execution[c], uri)
    BY <1>4, <1>5, <1>6 DEF PinnedFor, DecidedFor
  <1> HIDE DEF uri, c
  <1>8. /\ DOMAIN files' = DOMAIN files \cup {uri}
        /\ files'[uri] = bundle
        /\ \A u \in DOMAIN files : u # uri => files'[u] = files[u]
    BY StoreEffect DEF uri
  <1>9. DOMAIN files' \subseteq Uri
    BY <1>6, <1>8 DEF IInv, TypeOK
  <1>10. \A u \in DOMAIN files' : IsOption(files'[u], SignedDecision)
    BY <1>8 DEF IInv, TypeOK
  <1>11. FilesInv'
    <2>1. \A u \in DOMAIN files' : \E d \in ClaimId : PinnedFor(execution[d], u)
      BY <1>2, <1>7, <1>8 DEF IInv, FilesInv
    <2> QED BY <2>1 DEF FilesInv
  <1>12. ContentAddressed'
    <2>1. \A u \in DOMAIN files' : \A s \in files'[u] : embedded_hash(u) = digest(s.binding)
      BY <1>6, <1>8 DEF IInv, ContentAddressed
    <2> QED BY <2>1 DEF ContentAddressed
  <1>13. UriOf(w) \in DOMAIN files' /\ DOMAIN files \subseteq DOMAIN files'
    BY <1>8 DEF uri
  <1> QED BY <1>9, <1>10, <1>11, <1>12, <1>13

-----------------------------------------------------------------------------
(* One worker moves on, the others stay where they are.                     *)
LEMMA TaskStep ==
  ASSUME IInv, UNCHANGED execution, NEW w \in Worker, NEW t \in Task,
         task' = [task EXCEPT ![w] = t], DOMAIN files \subseteq DOMAIN files',
         t.step \in Deciding => DecidedFor(execution[ClaimOf[t.request]], t.signed),
         t.step \in {"write", "submit"} => uri_for(content_hash(t.signed)) \in DOMAIN files'
  PROVE  task' \in [Worker -> Task] /\ TaskInv'
  <1>1. task \in [Worker -> Task]
    BY DEF IInv, TypeOK
  <1>2. \A v \in Worker : task'[v] = IF v = w THEN t ELSE task[v]
    BY <1>1
  <1>3. ASSUME NEW v \in Worker, task'[v].step \in Deciding
        PROVE  /\ DecidedFor(execution'[ClaimOf[task'[v].request]], task'[v].signed)
               /\ task'[v].step # "open"
                    => uri_for(content_hash(task'[v].signed)) \in DOMAIN files'
    <2>1. CASE v = w
      BY <1>2, <1>3, <2>1 DEF Deciding
    <2>2. CASE v # w
      BY <1>2, <1>3, <2>2 DEF IInv, TaskInv, UriOf
    <2> QED BY <2>1, <2>2
  <1>4. TaskInv'
    BY <1>3 DEF TaskInv, UriOf
  <1> QED BY <1>1, <1>4

(* A worker that finishes holds nothing any more.                           *)
LEMMA IdleStep ==
  ASSUME IInv, UNCHANGED execution, NEW w \in Worker, Finish(w),
         DOMAIN files \subseteq DOMAIN files'
  PROVE  task' \in [Worker -> Task] /\ TaskInv'
  <1>1. Idle \in Task /\ Idle.step \notin Deciding /\ Idle.step \notin {"write", "submit"}
    BY DEF Idle, Task, Deciding
  <1> QED BY <1>1, TaskStep DEF Finish

(* What the pipeline returned is decided, when it is not to be abstained on.*)
LEMMA ResolvedIsDecided ==
  ASSUME IInv, NEW w \in Worker, task[w].step = "validate",
         NEW signed \in Resolved(w)
  PROVE  LET e == execution[ClaimOf[task[w].request]] IN
           /\ e \in Execution /\ task[w].request \in Request
           /\ validation_response(signed).response = {} <=> e.receipt.verdict = "unverifiable"
           /\ validation_response(signed).response # {} => DecidedFor(e, signed)
  <1> DEFINE e  == execution[ClaimOf[task[w].request]]
             op == validator[w]
             b  == BindingOf(e, op.policy)
  <1>1. task[w].request \in Request
    BY TaskParts DEF IInv, TypeOK
  <1>2. e \in Execution
    BY <1>1, ServiceAssumption DEF IInv, TypeOK
  <1>3. op \in Operator /\ op.policy \in GatePolicy /\ op.signing_key \in Key
    BY ServiceAssumption DEF IInv, TypeOK
  <1>4. Resolvable(e) /\ signed = sign_decision(b, op.signing_key)
    BY DEF Resolved, validate
  <1>5. b \in DecisionBinding /\ signed.binding = b
    BY <1>2, <1>3, <1>4, BindingType, SignedFields
  <1>6. b.reconcile = e.receipt.verdict
    BY DEF BindingOf, new, CrossVmOf, crossvm_from_receipt
  <1>7. b.reconcile \in ReconcileVerdict
    BY <1>5 DEF DecisionBinding
  <1>8. validation_response(signed).response = ScoreAndTag(b)[1]
    BY <1>5 DEF validation_response
  <1>9. ScoreAndTag(b)[1] = {} <=> b.reconcile = "unverifiable"
    BY <1>7, Scores
  <1>10. validation_response(signed).response # {} => DecidedFor(e, signed)
    BY <1>3, <1>4, <1>6, <1>8, <1>9 DEF DecidedFor, Checked
  <1> QED BY <1>1, <1>2, <1>6, <1>8, <1>9, <1>10

-----------------------------------------------------------------------------
(* The invariant holds at the start and survives every action.              *)
LEMMA InitInv == Init => IInv
  <1> SUFFICES ASSUME Init PROVE IInv
    OBVIOUS
  <1>1. execution \in [ClaimId -> Executions] /\ execution \in [ClaimId -> Execution]
    BY ExecutionsAssumption DEF Init
  <1>2. task \in [Worker -> Task] /\ \A w \in Worker : task[w] = Idle
    BY DEF Init, Task
  <1>3. TaskInv
    BY <1>2 DEF TaskInv, Idle, Deciding
  <1>4. DOMAIN files = {}
    BY DEF Init
  <1>5. FilesInv /\ ContentAddressed /\ disk = files /\ DiskInv
    BY <1>4 DEF Init, FilesInv, ContentAddressed, DiskInv
  <1>6. LandedInv /\ AbstainedInv
    BY DEF Init, LandedInv, AbstainedInv
  <1>7. TypeOK
    BY <1>1, <1>2, <1>4, <1>5 DEF Init, TypeOK
  <1> QED BY <1>1, <1>3, <1>5, <1>6, <1>7 DEF IInv

(* Taking up a request, for the first time or again.                        *)
LEMMA ReceiveInv ==
  ASSUME IInv, NEW w \in Worker, NEW r \in Request, Receive(w, r)
  PROVE  IInv'
  <1> DEFINE t == [step |-> "validate", request |-> r]
  <1>1. t \in Task /\ t.step \notin Deciding /\ t.step \notin {"write", "submit"}
    BY DEF Task, Deciding
  <1>2. task' = [task EXCEPT ![w] = t]
    BY DEF Receive
  <1>3. /\ UNCHANGED <<execution, validator, files, disk, landed, abstained, failed>>
    BY DEF Receive
  <1> HIDE DEF t
  <1>4. task' \in [Worker -> Task] /\ TaskInv'
    BY <1>1, <1>2, <1>3, TaskStep
  <1>5. TypeOK'
    BY <1>3, <1>4 DEF IInv, TypeOK
  <1> QED
    BY <1>3, <1>4, <1>5 DEF IInv, FilesInv, ContentAddressed, DiskInv, LandedInv, AbstainedInv,
           ExecutionOf

(* A claim that cannot be resolved touches nothing but the record of        *)
(* failures.                                                                *)
LEMMA UnresolvableInv ==
  ASSUME IInv, NEW w \in Worker, Unresolvable(w)
  PROVE  IInv'
  <1>1. UNCHANGED <<execution, validator, files, disk, landed, abstained>>
    BY DEF Unresolvable
  <1>2. task' \in [Worker -> Task] /\ TaskInv'
    BY <1>1, IdleStep DEF Unresolvable
  <1>3. failed' \subseteq Request
    BY TaskParts DEF IInv, TypeOK, Unresolvable
  <1>4. TypeOK'
    BY <1>1, <1>2, <1>3 DEF IInv, TypeOK
  <1> QED
    BY <1>1, <1>2, <1>4 DEF IInv, FilesInv, ContentAddressed, DiskInv, LandedInv, AbstainedInv,
           ExecutionOf

(* An abstention: no response of that request has landed, for its claim     *)
(* reconciles as unverifiable whoever decides.                              *)
LEMMA AbstainInv ==
  ASSUME IInv, NEW w \in Worker, Abstain(w)
  PROVE  IInv'
  <1>1. UNCHANGED <<execution, validator, files, disk, landed, failed>>
    BY DEF Abstain
  <1>2. task' \in [Worker -> Task] /\ TaskInv'
    BY <1>1, IdleStep DEF Abstain
  <1>3. PICK signed \in Resolved(w) : validation_response(signed).response = {}
    BY DEF Abstain
  <1>4. /\ task[w].request \in Request
        /\ execution[ClaimOf[task[w].request]].receipt.verdict = "unverifiable"
    BY <1>3, ResolvedIsDecided DEF Abstain
  <1>5. abstained' = abstained \cup {task[w].request}
    BY DEF Abstain
  <1>6. AbstainedInv'
    BY <1>1, <1>4, <1>5 DEF IInv, AbstainedInv
  <1>7. TypeOK'
    BY <1>1, <1>2, <1>4, <1>5 DEF IInv, TypeOK
  <1> QED
    BY <1>1, <1>2, <1>6, <1>7 DEF IInv, FilesInv, ContentAddressed, DiskInv, LandedInv, ExecutionOf

(* A decision with a score: the worker now holds the binding of the claim.  *)
LEMMA ScoreInv ==
  ASSUME IInv, NEW w \in Worker, Score(w)
  PROVE  IInv'
  <1>1. UNCHANGED <<execution, validator, files, disk, landed, abstained, failed>>
    BY DEF Score
  <1>2. PICK signed \in Resolved(w) :
          /\ validation_response(signed).response # {}
          /\ task' = [task EXCEPT ![w] = [step |-> "open", request |-> task[w].request,
                                          signed |-> signed]]
    BY DEF Score
  <1> DEFINE t == [step |-> "open", request |-> task[w].request, signed |-> signed]
             e == execution[ClaimOf[task[w].request]]
  <1>3. e \in Execution /\ task[w].request \in Request /\ DecidedFor(e, signed)
    BY <1>2, ResolvedIsDecided DEF Score
  <1>4. t \in Task /\ t.step \in Deciding /\ t.step \notin {"write", "submit"}
        /\ t.request = task[w].request /\ t.signed = signed
    BY <1>3, DecidedBundle DEF Task, Deciding
  <1>5. task' = [task EXCEPT ![w] = t]
    BY <1>2
  <1>6. DecidedFor(execution[ClaimOf[t.request]], t.signed)
    BY <1>3, <1>4
  <1> HIDE DEF t, e
  <1>7. task' \in [Worker -> Task] /\ TaskInv'
    BY <1>1, <1>4, <1>5, <1>6, TaskStep
  <1>8. TypeOK'
    BY <1>1, <1>7 DEF IInv, TypeOK
  <1> QED
    BY <1>1, <1>7, <1>8 DEF IInv, FilesInv, ContentAddressed, DiskInv, LandedInv, AbstainedInv,
           ExecutionOf

(* What a task in handle_request after the screen holds.                    *)
LEMMA TaskHolds ==
  ASSUME IInv, NEW w \in Worker, task[w].step \in Deciding
  PROVE  LET e == execution[ClaimOf[task[w].request]] IN
           /\ task[w] \in Task /\ task[w].request \in Request
           /\ task[w].signed \in SignedDecision
           /\ e \in Execution /\ DecidedFor(e, task[w].signed)
  <1>1. task[w] \in Task
    BY DEF IInv, TypeOK
  <1>2. task[w].request \in Request /\ task[w].signed \in SignedDecision
    BY <1>1, TaskParts DEF Deciding
  <1>3. execution[ClaimOf[task[w].request]] \in Execution
    BY <1>2, ServiceAssumption DEF IInv, TypeOK
  <1> QED BY <1>1, <1>2, <1>3 DEF IInv, TaskInv

(* A worker that stores a bundle of its binding and goes on, or stops.      *)
LEMMA StoringInv ==
  ASSUME IInv, NEW w \in Worker, task[w].step \in Deciding,
         NEW bundle, IsOption(bundle, SignedDecision),
         \A s \in bundle : s.binding = task[w].signed.binding,
         Store(UriOf(w), bundle),
         Finish(w) \/ \E step \in {"write", "submit"} : Advance(w, step),
         UNCHANGED <<execution, validator, disk, landed, abstained>>, failed' \subseteq Request
  PROVE  IInv'
  <1>1. /\ DOMAIN files' \subseteq Uri
        /\ \A u \in DOMAIN files' : IsOption(files'[u], SignedDecision)
        /\ FilesInv' /\ ContentAddressed'
        /\ UriOf(w) \in DOMAIN files' /\ DOMAIN files \subseteq DOMAIN files'
    BY PinningKeepsOrder
  <1>2. task' \in [Worker -> Task] /\ TaskInv'
    <2>1. CASE Finish(w)
      BY <1>1, <2>1, IdleStep
    <2>2. ASSUME NEW step \in {"write", "submit"}, Advance(w, step)
          PROVE  task' \in [Worker -> Task] /\ TaskInv'
      <3> DEFINE t == [task[w] EXCEPT !.step = step]
      <3>1. /\ t \in Task /\ t.step \in Deciding
            /\ t.request = task[w].request /\ t.signed = task[w].signed
        <4>1. step \in Deciding
          BY DEF Deciding
        <4>2. task[w] \in Task
          BY TaskHolds
        <4>3. t \in Task /\ t.step = step /\ t.request = task[w].request
                /\ t.signed = task[w].signed
          BY <4>1, <4>2, TaskAdvance
        <4> QED BY <4>1, <4>3
      <3>2. task' = [task EXCEPT ![w] = t]
        BY <2>2 DEF Advance
      <3>3. DecidedFor(execution[ClaimOf[t.request]], t.signed)
        BY <3>1, TaskHolds
      <3>4. uri_for(content_hash(t.signed)) \in DOMAIN files'
        BY <1>1, <3>1 DEF UriOf
      <3> HIDE DEF t
      <3> QED BY <1>1, <3>1, <3>2, <3>3, <3>4, TaskStep
    <2> QED BY <2>1, <2>2
  <1>3. TypeOK'
    BY <1>1, <1>2 DEF IInv, TypeOK
  <1> QED BY <1>1, <1>2, <1>3 DEF IInv, DiskInv, LandedInv, AbstainedInv, ExecutionOf

(* Truncating a file leaves text that does not parse, never a wrong bundle. *)
LEMMA OpenEvidenceInv ==
  ASSUME IInv, NEW w \in Worker, OpenEvidence(w)
  PROVE  IInv'
  <1>1. IsOption({}, SignedDecision) /\ task[w].step \in Deciding /\ failed' \subseteq Request
    BY DEF IsOption, OpenEvidence, Deciding, IInv, TypeOK
  <1> QED BY <1>1, StoringInv DEF OpenEvidence

(* The full write puts the bundle under the hash of its binding.            *)
LEMMA WriteEvidenceInv ==
  ASSUME IInv, NEW w \in Worker, WriteEvidence(w)
  PROVE  IInv'
  <1>1. task[w].step \in Deciding /\ failed' \subseteq Request
    BY DEF WriteEvidence, Deciding, IInv, TypeOK
  <1>2. task[w].signed \in SignedDecision
    BY <1>1, TaskHolds
  <1>3. IsOption({task[w].signed}, SignedDecision)
    BY <1>2 DEF IsOption
  <1>4. Store(UriOf(w), {task[w].signed}) /\ Advance(w, "submit")
    BY DEF WriteEvidence, evidence_bundle_json
  <1> QED BY <1>1, <1>3, <1>4, StoringInv DEF WriteEvidence

(* The torn file a stopped write leaves.                                    *)
LEMMA TornAtUri ==
  ASSUME IInv, NEW w \in Worker, task[w].step = "write",
         NEW torn \in Torn(files[UriOf(w)], task[w].signed)
  PROVE  /\ IsOption(torn, SignedDecision)
         /\ \A s \in torn : s.binding = task[w].signed.binding
  <1> DEFINE uri == UriOf(w)
  <1>1. task[w].step \in Deciding
    BY DEF Deciding
  <1>2. uri \in DOMAIN files
    BY <1>1 DEF IInv, TaskInv
  <1>3. IsOption(files[uri], SignedDecision) /\ task[w].signed \in SignedDecision
    BY <1>1, <1>2, TaskHolds DEF IInv, TypeOK
  <1>4. embedded_hash(uri) = digest(task[w].signed.binding)
    BY DEF UriOf, uri_for, embedded_hash, content_hash
  <1>5. \A s \in files[uri] : digest(s.binding) = digest(task[w].signed.binding)
    BY <1>2, <1>4 DEF IInv, ContentAddressed
  <1> QED BY <1>3, <1>5, TornBundles

(* The response that lands is the one its binding implies.                  *)
LEMMA SubmitInv ==
  ASSUME IInv, NEW w \in Worker, Submit(w)
  PROVE  IInv'
  <1> DEFINE signed == task[w].signed
             b  == signed.binding
             vr == validation_response(signed)
             l  == [request_hash |-> task[w].request, response |-> unwrap(vr.response),
                    response_uri |-> UriOf(w), response_hash |-> vr.response_hash,
                    tag |-> vr.tag]
             e  == execution[ClaimOf[task[w].request]]
  <1>1. /\ UNCHANGED <<execution, validator, files, disk, abstained, failed>>
        /\ landed' = landed \cup {l} /\ Finish(w) /\ task[w].step \in Deciding
    BY DEF Submit, Deciding
  <1>2. task' \in [Worker -> Task] /\ TaskInv'
    BY <1>1, IdleStep
  <1>3. task[w].request \in Request /\ e \in Execution /\ DecidedFor(e, signed)
    BY <1>1, TaskHolds
  <1>4. /\ b.reconcile \in ReconcileVerdict \ {"unverifiable"} /\ digest(b) \in Hash
        /\ content_hash(signed) = digest(b)
    BY <1>3, DecidedBundle
  <1>5. /\ vr.response = ScoreAndTag(b)[1] /\ vr.tag = ScoreAndTag(b)[2]
        /\ vr.response_hash = digest(b)
    BY DEF validation_response
  <1>6. /\ unwrap(vr.response) \in {PASS, FAIL} /\ vr.response = {unwrap(vr.response)}
        /\ vr.tag \in Tag
    BY <1>4, <1>5, Scores
  <1>7. UriOf(w) = uri_for(digest(b)) /\ UriOf(w) \in Uri
    BY <1>4 DEF UriOf, uri_for, Uri
  <1>8. l \in OnChainResponse
    BY <1>3, <1>4, <1>5, <1>6, <1>7 DEF OnChainResponse
  <1>9. PICK op \in Operator : b = BindingOf(e, op.policy)
    BY <1>3, DecidedBundle
  <1>10. /\ l.request_hash = task[w].request /\ l.response_hash = digest(b)
         /\ l.response_uri = uri_for(digest(b)) /\ {l.response} = ScoreAndTag(b)[1]
         /\ l.tag = ScoreAndTag(b)[2]
    BY <1>5, <1>6, <1>7
  <1>11. Checked(e)
    BY <1>3 DEF DecidedFor
  <1> HIDE DEF l, vr, b, signed
  <1>12. ResponseFor(e, l) /\ ExecutionOf(l) = e
    BY <1>9, <1>10, <1>11 DEF ResponseFor, ExecutionOf
  <1>13. LandedInv'
    BY <1>1, <1>12 DEF IInv, LandedInv, ExecutionOf
  <1>14. TypeOK'
    BY <1>1, <1>2, <1>8 DEF IInv, TypeOK
  <1> QED BY <1>1, <1>2, <1>13, <1>14 DEF IInv, FilesInv, ContentAddressed, DiskInv, AbstainedInv

(* An open that fails ends the task and leaves the files alone.             *)
LEMMA OpenFailsInv ==
  ASSUME IInv, NEW w \in Worker, OpenFails(w)
  PROVE  IInv'
  <1>1. UNCHANGED <<execution, validator, files, disk, landed, abstained>>
    BY DEF OpenFails
  <1>2. task' \in [Worker -> Task] /\ TaskInv'
    BY <1>1, IdleStep DEF OpenFails
  <1>3. failed' \subseteq Request
    BY TaskParts DEF IInv, TypeOK, OpenFails
  <1>4. TypeOK'
    BY <1>1, <1>2, <1>3 DEF IInv, TypeOK
  <1> QED
    BY <1>1, <1>2, <1>4 DEF IInv, FilesInv, ContentAddressed, DiskInv, LandedInv, AbstainedInv,
           ExecutionOf

(* A write that stops half-way leaves a torn file of the same binding.      *)
LEMMA WriteFailsInv ==
  ASSUME IInv, NEW w \in Worker, WriteFails(w)
  PROVE  IInv'
  <1>1. PICK torn \in Torn(files[UriOf(w)], task[w].signed) : Store(UriOf(w), torn)
    BY DEF WriteFails
  <1>2. task[w].step = "write" /\ task[w].step \in Deciding
    BY DEF WriteFails, Deciding
  <1>3. IsOption(torn, SignedDecision) /\ \A s \in torn : s.binding = task[w].signed.binding
    BY <1>1, <1>2, TornAtUri
  <1>4. task[w].request \in Request
    BY <1>2, TaskHolds
  <1>5. failed' \subseteq Request
    BY <1>4 DEF IInv, TypeOK, WriteFails
  <1> QED BY <1>1, <1>2, <1>3, <1>5, StoringInv DEF WriteFails

(* A crash ends the task, in the middle of the write as a failed write does.*)
LEMMA CrashInv ==
  ASSUME IInv, NEW w \in Worker, Crash(w)
  PROVE  IInv'
  <1>1. UNCHANGED <<execution, validator, disk, landed, abstained, failed>> /\ Finish(w)
    BY DEF Crash
  <1>2. failed' \subseteq Request
    BY <1>1 DEF IInv, TypeOK
  <1>3. CASE task[w].step = "write"
    <2>1. PICK torn \in Torn(files[UriOf(w)], task[w].signed) : Store(UriOf(w), torn)
      BY <1>3 DEF Crash
    <2>2. IsOption(torn, SignedDecision) /\ \A s \in torn : s.binding = task[w].signed.binding
      BY <1>3, <2>1, TornAtUri
    <2>3. task[w].step \in Deciding
      BY <1>3 DEF Deciding
    <2> QED BY <1>1, <1>2, <2>1, <2>2, <2>3, StoringInv
  <1>4. CASE task[w].step # "write"
    <2>1. UNCHANGED files
      BY <1>4 DEF Crash
    <2>2. task' \in [Worker -> Task] /\ TaskInv'
      BY <1>1, <2>1, IdleStep
    <2>3. TypeOK'
      BY <1>1, <2>1, <2>2 DEF IInv, TypeOK
    <2> QED
      BY <1>1, <2>1, <2>2, <2>3
         DEF IInv, FilesInv, ContentAddressed, DiskInv, LandedInv, AbstainedInv,
           ExecutionOf
  <1> QED BY <1>3, <1>4

(* Another operator changes no file and no response.                        *)
LEMMA ReconfigureInv ==
  ASSUME IInv, NEW w \in Worker, Reconfigure(w)
  PROVE  IInv'
  <1>1. UNCHANGED <<execution, task, files, disk, landed, abstained, failed>>
    BY DEF Reconfigure
  <1>2. validator' \in [Worker -> Operator]
    BY DEF Reconfigure, IInv, TypeOK
  <1>3. TypeOK'
    BY <1>1, <1>2 DEF IInv, TypeOK
  <1>4. TaskInv'
    BY <1>1 DEF IInv, TaskInv, UriOf
  <1> QED
    BY <1>1, <1>3, <1>4
       DEF IInv, FilesInv, ContentAddressed, DiskInv, LandedInv, AbstainedInv,
           ExecutionOf

(* What reaches the disk is what the file holds.                            *)
LEMMA WriteBackInv ==
  ASSUME IInv, NEW u \in DOMAIN files, WriteBack(u)
  PROVE  IInv'
  <1>1. UNCHANGED <<execution, validator, task, files, landed, abstained, failed>>
    BY DEF WriteBack
  <1>2. /\ DOMAIN disk' = DOMAIN disk \cup {u}
        /\ \A x \in DOMAIN disk' : disk'[x] = IF x = u THEN files[u] ELSE disk[x]
    BY DEF WriteBack
  <1>3. /\ DOMAIN disk' \subseteq DOMAIN files'
        /\ \A x \in DOMAIN disk' : IsOption(disk'[x], SignedDecision)
    BY <1>1, <1>2 DEF IInv, TypeOK
  <1>4. DiskInv'
    <2>1. \A x \in DOMAIN disk' : \A s \in disk'[x] : embedded_hash(x) = digest(s.binding)
      BY <1>2 DEF IInv, DiskInv, ContentAddressed
    <2> QED BY <2>1 DEF DiskInv
  <1>5. TypeOK'
    BY <1>1, <1>3 DEF IInv, TypeOK
  <1>6. TaskInv'
    BY <1>1 DEF IInv, TaskInv, UriOf
  <1> QED
    BY <1>1, <1>4, <1>5, <1>6
       DEF IInv, FilesInv, ContentAddressed, LandedInv, AbstainedInv, ExecutionOf

(* What a file may hold after a loss of power parses, if it parses, to a    *)
(* bundle of the binding in its name.                                       *)
LEMMA SurvivorsAreAddressed ==
  ASSUME IInv, NEW u \in DOMAIN files, NEW found \in SurvivesAs(u)
  PROVE  /\ IsOption(found, SignedDecision)
         /\ \A s \in found : embedded_hash(u) = digest(s.binding)
  <1> DEFINE old == OnDisk(u)
  <1>1. /\ IsOption(old, SignedDecision)
        /\ \A s \in old : embedded_hash(u) = digest(s.binding)
    BY DEF OnDisk, IInv, TypeOK, DiskInv, IsOption
  <1>2. /\ IsOption(files[u], SignedDecision)
        /\ \A s \in files[u] : embedded_hash(u) = digest(s.binding)
    BY DEF IInv, TypeOK, ContentAddressed
  <1> HIDE DEF old
  <1>3. CASE found \in {files[u], old, {}}
    BY <1>1, <1>2, <1>3 DEF IsOption
  <1>4. ASSUME NEW now \in files[u], found \in Torn(old, now)
        PROVE  /\ IsOption(found, SignedDecision)
               /\ \A s \in found : embedded_hash(u) = digest(s.binding)
    <2>1. now \in SignedDecision /\ embedded_hash(u) = digest(now.binding)
      BY <1>2, <1>4 DEF IsOption
    <2>2. \A s \in old : digest(s.binding) = digest(now.binding)
      BY <1>1, <2>1
    <2>3. IsOption(found, SignedDecision) /\ \A s \in found : s.binding = now.binding
      BY <1>1, <1>4, <2>1, <2>2, TornBundles
    <2> QED BY <2>1, <2>3
  <1>5. \/ found \in {files[u], old, {}}
        \/ \E now \in files[u] : found \in Torn(old, now)
    BY DEF SurvivesAs, old
  <1> QED BY <1>3, <1>4, <1>5

(* A loss of power takes files and workers away, and changes no other name. *)
LEMMA PowerLossInv ==
  ASSUME IInv, PowerLoss
  PROVE  IInv'
  <1>1. UNCHANGED <<execution, validator, landed, abstained, failed>> /\ disk' = files'
    BY DEF PowerLoss
  <1>2. task' = [w \in Worker |-> Idle]
    BY DEF PowerLoss
  <1>3. task' \in [Worker -> Task] /\ \A w \in Worker : task'[w].step \notin Deciding
    BY <1>2 DEF Task, Idle, Deciding
  <1>4. TaskInv'
    BY <1>3 DEF TaskInv
  <1>5. /\ DOMAIN files' \subseteq DOMAIN files
        /\ \A u \in DOMAIN files' : files'[u] \in SurvivesAs(u)
    BY DEF PowerLoss
  <1>6. \A u \in DOMAIN files' :
          /\ IsOption(files'[u], SignedDecision)
          /\ \A s \in files'[u] : embedded_hash(u) = digest(s.binding)
    BY <1>5, SurvivorsAreAddressed
  <1>7. ContentAddressed' /\ DiskInv'
    BY <1>1, <1>6 DEF ContentAddressed, DiskInv
  <1>8. TypeOK'
    BY <1>1, <1>3, <1>5, <1>6 DEF IInv, TypeOK
  <1> QED
    BY <1>1, <1>4, <1>5, <1>7, <1>8 DEF IInv, FilesInv, LandedInv, AbstainedInv, ExecutionOf

(* Every step of every worker, and of the machine, keeps the invariant.     *)
LEMMA NextInv == IInv /\ [Next]_vars => IInv'
  <1> SUFFICES ASSUME IInv, [Next]_vars PROVE IInv'
    OBVIOUS
  <1>1. CASE UNCHANGED vars
    <2>1. TaskInv'
      BY <1>1 DEF vars, IInv, TaskInv, UriOf
    <2>2. TypeOK'
      BY <1>1 DEF vars, IInv, TypeOK
    <2> QED
      BY <1>1, <2>1, <2>2
         DEF vars, IInv, FilesInv, ContentAddressed, DiskInv, LandedInv, AbstainedInv,
           ExecutionOf
  <1>2. CASE Next
    <2>1. ASSUME NEW w \in Worker, Step(w) PROVE IInv'
      BY <2>1, UnresolvableInv, AbstainInv, ScoreInv, OpenEvidenceInv, WriteEvidenceInv,
         SubmitInv DEF Step
    <2>2. ASSUME NEW w \in Worker, Fault(w) PROVE IInv'
      BY <2>2, OpenFailsInv, WriteFailsInv, CrashInv, ReconfigureInv DEF Fault
    <2>3. ASSUME NEW w \in Worker, NEW r \in Request, Receive(w, r) PROVE IInv'
      BY <2>3, ReceiveInv
    <2>4. ASSUME NEW u \in DOMAIN files, WriteBack(u) PROVE IInv'
      BY <2>4, WriteBackInv
    <2> QED BY <1>2, <2>1, <2>2, <2>3, <2>4, PowerLossInv DEF Next
  <1> QED BY <1>1, <1>2

(* The inductive invariant is an invariant.                                 *)
THEOREM Invariant == Spec => []IInv
  <1> QED BY InitInv, NextInv, PTL DEF Spec

(* Every variable keeps to its type, whatever faults happen.                *)
THEOREM TypeCorrect == Spec => []TypeOK
  <1>1. IInv => TypeOK
    BY DEF IInv
  <1> QED BY <1>1, Invariant, PTL

(* src/erc8004/store.rs:4-8.  No crash, failed write, second worker or      *)
(* change of operator puts a bundle under a name that is not its hash.      *)
THEOREM FilesAreContentAddressed == Spec => []ContentAddressed
  <1>1. IInv => ContentAddressed
    BY DEF IInv
  <1> QED BY <1>1, Invariant, PTL

-----------------------------------------------------------------------------
(* What the invariant says of one landed response.                          *)
LEMMA LandedFacts ==
  ASSUME IInv, NEW l \in landed
  PROVE  LET e == ExecutionOf(l) IN
           /\ e \in Execution /\ ProducerContract(e) /\ Checked(e)
           /\ l \in OnChainResponse
           /\ \E op \in Operator : LET b == BindingOf(e, op.policy) IN
                /\ op.policy \in GatePolicy
                /\ l.response_hash = digest(b) /\ l.response_uri = uri_for(digest(b))
                /\ {l.response} = ScoreAndTag(b)[1] /\ l.tag = ScoreAndTag(b)[2]
                /\ BindingBehind(l) = b
  <1> DEFINE e == ExecutionOf(l)
  <1>1. l \in OnChainResponse /\ l.request_hash \in Request
    BY DEF IInv, TypeOK, OnChainResponse
  <1>2. e \in Executions
    BY <1>1, ServiceAssumption DEF IInv, ExecutionOf
  <1>3. e \in Execution /\ ProducerContract(e)
    BY <1>2, ExecutionsAssumption
  <1>4. ResponseFor(e, l)
    BY DEF IInv, LandedInv
  <1>5. PICK op \in Operator : LET b == BindingOf(e, op.policy) IN
          /\ l.response_hash = digest(b) /\ l.response_uri = uri_for(digest(b))
          /\ {l.response} = ScoreAndTag(b)[1] /\ l.tag = ScoreAndTag(b)[2]
    BY <1>4 DEF ResponseFor
  <1>6. BindingBehind(l) = BindingOf(e, op.policy)
    BY <1>5, CommittedDigest DEF BindingBehind
  <1>7. op.policy \in GatePolicy
    BY ServiceAssumption
  <1> QED BY <1>1, <1>3, <1>4, <1>5, <1>6, <1>7 DEF ResponseFor

(* What score and tag say of the execution and of the policy committed to.  *)
LEMMA LandedMeaning ==
  ASSUME IInv, NEW l \in landed
  PROVE  LET e == ExecutionOf(l)
             b == BindingBehind(l)
             safe == e.custos.level <= b.policy.max_settle_severity
         IN  /\ e \in Execution /\ ProducerContract(e) /\ Checked(e)
             /\ b = BindingOf(e, b.policy) /\ b.policy \in GatePolicy
             /\ l.response_hash = digest(b) /\ l.response_uri = uri_for(digest(b))
             /\ {l.response} = ScoreAndTag(b)[1] /\ l.tag = ScoreAndTag(b)[2]
             /\ l.response \in {PASS, FAIL}
             /\ l.response = PASS <=> e.receipt.verdict = "matched" /\ safe
             /\ l.tag = "matched" <=> e.receipt.verdict = "matched" /\ safe
             /\ l.tag = "unsafe" <=> e.receipt.verdict = "matched" /\ ~safe
             /\ l.tag = "half-open" <=> e.receipt.verdict = "half_open"
             /\ l.tag = "mismatch" <=> e.receipt.verdict = "mismatch"
             /\ l.tag # "unverifiable"
  <1> DEFINE e == ExecutionOf(l)
             b == BindingBehind(l)
  <1>1. /\ e \in Execution /\ ProducerContract(e) /\ Checked(e) /\ l \in OnChainResponse
        /\ \E op \in Operator :
             /\ op.policy \in GatePolicy /\ b = BindingOf(e, op.policy)
             /\ l.response_hash = digest(b) /\ l.response_uri = uri_for(digest(b))
             /\ {l.response} = ScoreAndTag(b)[1] /\ l.tag = ScoreAndTag(b)[2]
    BY LandedFacts
  <1>2. PICK op \in Operator :
          /\ op.policy \in GatePolicy /\ b = BindingOf(e, op.policy)
          /\ l.response_hash = digest(b) /\ l.response_uri = uri_for(digest(b))
          /\ {l.response} = ScoreAndTag(b)[1] /\ l.tag = ScoreAndTag(b)[2]
    BY <1>1
  <1>3. /\ b.reconcile = e.receipt.verdict /\ b.policy = op.policy
        /\ b.invariant = verdict_from_custos(e.custos)
    BY <1>2 DEF BindingOf, new, CrossVmOf, crossvm_from_receipt
  <1>4. b.decision = decide_crossvm(CrossVmOf(e), verdict_from_custos(e.custos), op.policy)
    BY <1>2 DEF BindingOf, new
  <1>5. CrossVmOf(e).reconcile = e.receipt.verdict
        /\ verdict_from_custos(e.custos).level = e.custos.level
    BY DEF CrossVmOf, crossvm_from_receipt, verdict_from_custos
  <1>6. IsSettle(b.decision)
          <=> e.receipt.verdict = "matched"
              /\ e.custos.level <= op.policy.max_settle_severity
    BY <1>4, <1>5, CrossVmSettlesExactlyWhenSafe
  <1>7. b.reconcile \in ReconcileVerdict
    BY <1>1, <1>3 DEF Execution, XvmReceipt
  <1>8. unwrap({l.response}) = l.response
    BY Unwrapping
  <1>9. l.response = PASS <=> b.reconcile = "matched" /\ IsSettle(b.decision)
    <2>1. ScoreAndTag(b)[1] # {} /\ unwrap(ScoreAndTag(b)[1]) = l.response
      BY <1>2, <1>8
    <2> QED BY <2>1, <1>7, Scores
  <1>10. /\ l.tag = "unverifiable" <=> b.reconcile = "unverifiable"
         /\ l.tag = "half-open" <=> b.reconcile = "half_open"
         /\ l.tag = "mismatch" <=> b.reconcile = "mismatch"
         /\ l.tag = "matched" <=> b.reconcile = "matched" /\ IsSettle(b.decision)
         /\ l.tag = "unsafe" <=> b.reconcile = "matched" /\ ~IsSettle(b.decision)
    BY <1>2, <1>7, Scores
  <1>11. e.receipt.verdict # "unverifiable" /\ l.response \in {PASS, FAIL}
    BY <1>1 DEF Checked, OnChainResponse
  <1> HIDE DEF e, b
  <1>12. /\ b = BindingOf(e, b.policy) /\ b.policy \in GatePolicy
    BY <1>2, <1>3
  <1>13. /\ l.response = PASS <=> e.receipt.verdict = "matched"
                                   /\ e.custos.level <= b.policy.max_settle_severity
         /\ l.tag = "matched" <=> e.receipt.verdict = "matched"
                                   /\ e.custos.level <= b.policy.max_settle_severity
         /\ l.tag = "unsafe" <=> e.receipt.verdict = "matched"
                                   /\ ~(e.custos.level <= b.policy.max_settle_severity)
         /\ l.tag = "half-open" <=> e.receipt.verdict = "half_open"
         /\ l.tag = "mismatch" <=> e.receipt.verdict = "mismatch"
         /\ l.tag # "unverifiable"
    BY <1>3, <1>6, <1>9, <1>10, <1>11
  <1> QED BY <1>1, <1>2, <1>11, <1>12, <1>13 DEF e, b

(* The replay of an execution that passed the screen moved exactly the      *)
(* amount that a matched delivery leg recovered.                            *)
LEMMA ReplayIsFaithful ==
  ASSUME NEW e \in Execution, Resolvable(e), e.svm.executed,
         e.svm.amount = {e.claim.good.amount}
  PROVE  /\ unwrap(e.replay.after) = unwrap(e.replay.before) + e.claim.good.amount
         /\ e.claim.good.amount > 0
  <1> DEFINE before == unwrap(e.replay.before)
             after  == unwrap(e.replay.after)
             amount == e.claim.good.amount
  <1>1. ~ScreenFails(e.replay, e.svm)
    BY DEF Resolvable, invariant_from_svm_leg
  <1>2. e.replay.before # {} /\ e.replay.after # {} /\ ~ReplayDiverged(e.replay, e.svm)
    BY <1>1 DEF ScreenFails
  <1>3. e.replay.before \in Option(Amount) /\ e.replay.after \in Option(Amount)
    BY DEF Execution, Replay
  <1>4. before \in Amount /\ after \in Amount
    <2>1. IsOption(e.replay.before, Amount) /\ IsOption(e.replay.after, Amount)
      BY <1>3 DEF Option, IsOption
    <2> QED BY <2>1, <1>2, UnwrapIn
  <1>5. before \in Int /\ after \in Int /\ amount \in Int
    <2>1. amount \in Amount
      BY DEF Execution, Claim
    <2> HIDE DEF before, after, amount
    <2> QED BY <2>1, <1>4, AmountAssumption
  <1>6. unwrap_or(e.svm.amount, 0) = amount
    <2>1. unwrap({amount}) = amount
      BY Unwrapping
    <2> QED BY <2>1 DEF unwrap_or
  <1>7. saturating_sub(after, before) = amount /\ (saturating_sub(after, before) > 0) = TRUE
    BY <1>2, <1>6 DEF ReplayDiverged, Execution, ReconstructedLeg
  <1> HIDE DEF before, after, amount
  <1>8. after = before + amount /\ amount > 0
    BY <1>5, <1>7 DEF saturating_sub
  <1> QED BY <1>8 DEF before, after, amount

(* src/erc8004/mod.rs:104-112.  A landed PASS is true of the world, for     *)
(* every execution that honors the producers' contract.                     *)
THEOREM PassIsGrounded == Spec => []GroundedPass
  <1>1. IInv => GroundedPass
    <2> SUFFICES ASSUME IInv, NEW l \in landed, l.response = PASS
                 PROVE  LET e   == ExecutionOf(l)
                            max == BindingBehind(l).policy.max_settle_severity
                        IN  /\ e.evm.executed /\ e.svm.executed /\ FactsHonorClaim(e)
                            /\ unwrap(e.replay.after)
                                 = unwrap(e.replay.before) + e.claim.good.amount
                            /\ e.claim.good.amount > 0
                            /\ \A f \in e.custos.findings : f.level <= max
      BY DEF GroundedPass
    <2> DEFINE e   == ExecutionOf(l)
               max == BindingBehind(l).policy.max_settle_severity
    <2>1. /\ e \in Execution /\ ProducerContract(e) /\ Checked(e)
          /\ BindingBehind(l).policy \in GatePolicy
          /\ e.receipt.verdict = "matched" /\ e.custos.level <= max
      BY LandedMeaning
    <2> HIDE DEF e, max
    <2>2. e.evm.executed /\ e.svm.executed /\ FactsHonorClaim(e)
      BY <2>1 DEF ProducerContract, ReconcileContract
    <2>3. /\ unwrap(e.replay.after) = unwrap(e.replay.before) + e.claim.good.amount
          /\ e.claim.good.amount > 0
      BY <2>1, <2>2, ReplayIsFaithful DEF Checked, FactsHonorClaim
    <2>4. \A f \in e.custos.findings : f.level <= max
      <3>1. max \in Int /\ e.custos.level \in Int
            /\ \A f \in e.custos.findings : f.level \in Int
        BY <2>1 DEF max, Execution, CustosVerdict, GatePolicy, Severity
      <3>2. \A f \in e.custos.findings : f.level <= e.custos.level
        BY <2>1 DEF ProducerContract, CustosContract
      <3> QED BY <2>1, <3>1, <3>2
    <2> QED BY <2>2, <2>3, <2>4 DEF e, max
  <1> QED BY <1>1, Invariant, PTL

(* src/erc8004/mod.rs:44-56.  Each landed tag names what happened.          *)
THEOREM TagsNameTheCause == Spec => []TagNamesTheCause
  <1>1. IInv => TagNamesTheCause
    <2> SUFFICES ASSUME IInv, NEW l \in landed
                 PROVE  LET e == ExecutionOf(l)
                            safe == e.custos.level
                                      <= BindingBehind(l).policy.max_settle_severity
                            honored == e.evm.executed /\ e.svm.executed /\ FactsHonorClaim(e)
                        IN  /\ l.tag = "matched" => honored /\ safe
                            /\ l.tag = "unsafe" => honored /\ ~safe
                            /\ l.tag = "half-open" => e.evm.executed # e.svm.executed
                            /\ l.tag = "mismatch" => e.evm.executed = e.svm.executed
                            /\ l.tag # "unverifiable"
      BY DEF TagNamesTheCause
    <2>1. ProducerContract(ExecutionOf(l))
      BY LandedMeaning
    <2> QED BY <2>1, LandedMeaning DEF ProducerContract, ReconcileContract
  <1> QED BY <1>1, Invariant, PTL

(* src/erc8004/validator.rs:72-73 and 88-89.  "Could not check" leaves no   *)
(* score and pins nothing.                                                  *)
THEOREM UncheckedIsSilent == Spec => []SilentWhenUnchecked
  <1>1. IInv => SilentWhenUnchecked
    <2> SUFFICES ASSUME IInv PROVE SilentWhenUnchecked
      OBVIOUS
    <2>1. ASSUME NEW l \in landed PROVE l.request_hash \notin abstained
      <3>1. ExecutionOf(l).receipt.verdict # "unverifiable"
        BY LandedMeaning DEF Checked
      <3> QED BY <3>1 DEF IInv, AbstainedInv, ExecutionOf
    <2>2. ASSUME NEW u \in DOMAIN files
          PROVE  \E c \in ClaimId, op \in Operator :
                   /\ Resolvable(execution[c])
                   /\ execution[c].receipt.verdict # "unverifiable"
                   /\ embedded_hash(u) = digest(BindingOf(execution[c], op.policy))
      BY <2>2 DEF IInv, FilesInv, PinnedFor, Checked
    <2> QED BY <2>1, <2>2 DEF SilentWhenUnchecked
  <1> QED BY <1>1, Invariant, PTL

-----------------------------------------------------------------------------
(* What a reader who accepts the evidence has in hand.                      *)
LEMMA AcceptedEvidence ==
  ASSUME IInv, NEW l \in landed, NEW key, Accepts(l, key)
  PROVE  LET s == unwrap(Evidence(l)) IN
           /\ Evidence(l) = {s} /\ s \in SignedDecision
           /\ s.binding = BindingBehind(l)
           /\ s.signer = key /\ s.signature = sign(key, digest(s.binding))
           /\ Check(l, key) = [ok |-> validation_response(s)]
  <1> DEFINE s == unwrap(Evidence(l))
  <1>1. /\ Evidence(l) # {} /\ digest(s.binding) = l.response_hash
        /\ verify_decision(s, key) = "Ok"
        /\ Check(l, key) = [ok |-> validation_response(s)]
    BY DEF Accepts, Check, verify_bundle
  <1>2. IsOption(Evidence(l), SignedDecision)
    BY <1>1 DEF Evidence, IInv, TypeOK
  <1>3. Evidence(l) = {s} /\ s \in SignedDecision
    BY <1>1, <1>2, UnwrapIn
  <1>4. s.binding = BindingBehind(l)
    BY <1>1, CommittedDigest DEF BindingBehind
  <1>5. s.signer = key /\ s.signature = sign(key, digest(s.binding))
    BY <1>1 DEF verify_decision, verify_self_consistent
  <1> QED BY <1>1, <1>3, <1>4, <1>5

(* src/erc8004/mod.rs:135-143.  A reader who accepts the evidence behind a  *)
(* landed response re-derives that very response, and reads a binding that  *)
(* explains itself and names the settlement of the request's claim.         *)
THEOREM AcceptingReadersAreNotMisled == Spec => []ReaderNeverMisled
  <1>1. IInv => ReaderNeverMisled
    <2> SUFFICES ASSUME IInv, NEW l \in landed, NEW key \in Key, Accepts(l, key)
                 PROVE  LET b == unwrap(Evidence(l)).binding
                        IN  /\ Check(l, key).ok
                                 = [response |-> {l.response}, tag |-> l.tag,
                                    response_hash |-> l.response_hash]
                            /\ b.decision = decide_crossvm([reconcile |-> b.reconcile],
                                                           b.invariant, b.policy)
                            /\ b.claim_hash = ExecutionOf(l).receipt.claim_hash
                            /\ b.settlement_id = ExecutionOf(l).receipt.settlement_id
      BY DEF ReaderNeverMisled
    <2> DEFINE s == unwrap(Evidence(l))
               b == s.binding
               e == ExecutionOf(l)
    <2>1. b = BindingBehind(l) /\ Check(l, key) = [ok |-> validation_response(s)]
      BY AcceptedEvidence
    <2>2. /\ b = BindingOf(e, b.policy) /\ l.response_hash = digest(b)
          /\ {l.response} = ScoreAndTag(b)[1] /\ l.tag = ScoreAndTag(b)[2]
      BY <2>1, LandedMeaning
    <2>3. Check(l, key).ok = [response |-> {l.response}, tag |-> l.tag,
                              response_hash |-> l.response_hash]
      BY <2>1, <2>2 DEF validation_response
    <2> HIDE DEF e, b, s
    <2>4. /\ b.claim_hash = e.receipt.claim_hash
          /\ b.settlement_id = e.receipt.settlement_id
      BY <2>2 DEF BindingOf, new, CrossVmOf, crossvm_from_receipt
    <2>5. b.decision = decide_crossvm([reconcile |-> b.reconcile], b.invariant, b.policy)
      <3> DEFINE cross == CrossVmOf(e)
                 inv   == verdict_from_custos(e.custos)
      <3>1. /\ b.decision = decide_crossvm(cross, inv, b.policy)
            /\ b.reconcile = cross.reconcile /\ b.invariant = inv
        BY <2>2 DEF BindingOf, new
      <3> HIDE DEF cross, inv
      <3>2. decide_crossvm(cross, inv, b.policy)
              = decide_crossvm([reconcile |-> cross.reconcile], inv, b.policy)
        BY DEF decide_crossvm, ReconcileReasons
      <3> QED BY <3>1, <3>2
    <2> QED BY <2>3, <2>4, <2>5 DEF b, e, s
  <1> QED BY <1>1, Invariant, PTL

(* src/attest.rs:134-139.  What is accepted under a key was signed whole by *)
(* that key, never spliced by a write that stopped half-way.                *)
THEOREM AcceptedBundlesAreWhole == Spec => []AcceptedBundleIsWhole
  <1>1. IInv => AcceptedBundleIsWhole
    <2> SUFFICES ASSUME IInv, NEW l \in landed, NEW key \in Key, Accepts(l, key)
                 PROVE  Evidence(l) = {sign_decision(BindingBehind(l), key)}
      BY DEF AcceptedBundleIsWhole
    <2> DEFINE s == unwrap(Evidence(l))
    <2>1. /\ Evidence(l) = {s} /\ s \in SignedDecision /\ s.binding = BindingBehind(l)
          /\ s.signer = key /\ s.signature = sign(key, digest(s.binding))
      BY AcceptedEvidence
    <2> HIDE DEF s
    <2>2. s = [binding |-> s.binding, signer |-> s.signer, signature |-> s.signature]
      BY <2>1 DEF SignedDecision
    <2>3. s = sign_decision(BindingBehind(l), key)
      BY <2>1, <2>2 DEF sign_decision
    <2> QED BY <2>1, <2>3
  <1> QED BY <1>1, Invariant, PTL

(* src/decide.rs:161-165.  Whatever the flagship gate passes, the single-   *)
(* leg gate would settle without a caveat under the same policy.            *)
THEOREM FlagshipIsNotWeaker == Spec => []FlagshipNotWeaker
  <1>1. IInv => FlagshipNotWeaker
    <2> SUFFICES ASSUME IInv, NEW l \in landed, l.response = PASS
                 PROVE  LET e      == ExecutionOf(l)
                            intent == [vm |-> "svm", asset |-> e.claim.good.spl_mint,
                                       amount |-> e.claim.good.amount,
                                       recipient |-> e.claim.good.recipient,
                                       required_accounts |-> {}]
                        IN  decide(intent, proof_from_leg(e.svm),
                                   verdict_from_custos(e.custos),
                                   BindingBehind(l).policy) = Settle({})
      BY DEF FlagshipNotWeaker
    <2> DEFINE e       == ExecutionOf(l)
               policy  == BindingBehind(l).policy
               proof   == proof_from_leg(e.svm)
               verdict == verdict_from_custos(e.custos)
               intent  == [vm |-> "svm", asset |-> e.claim.good.spl_mint,
                           amount |-> e.claim.good.amount,
                           recipient |-> e.claim.good.recipient, required_accounts |-> {}]
    <2>1. /\ ProducerContract(e) /\ e.receipt.verdict = "matched"
          /\ e.custos.level <= policy.max_settle_severity
      BY LandedMeaning
    <2>2. /\ Verifiable(e) /\ e.svm.executed /\ FactsHonorClaim(e)
      BY <2>1 DEF ProducerContract, ReconcileContract
    <2>3. /\ ~proof.unverifiable /\ proof.executed
          /\ proof.facts_source = "producer_recovered"
          /\ {proof.vm} = {intent.vm} /\ proof.asset = {intent.asset}
          /\ proof.amount = {intent.amount} /\ proof.recipient = {intent.recipient}
      BY <2>2 DEF proof_from_leg, Verifiable, FactsHonorClaim
    <2>4. verdict.level <= policy.max_settle_severity
      BY <2>1 DEF verdict_from_custos
    <2>5. intent.required_accounts \subseteq proof.covered_accounts
      OBVIOUS
    <2> HIDE DEF proof, verdict, intent, policy
    <2>6. decide(intent, proof, verdict, policy) = Settle({})
      BY <2>3, <2>4, <2>5, CleanSettleIsFullyBoundAlways
    <2> QED BY <2>6 DEF proof, verdict, intent, policy
  <1> QED BY <1>1, Invariant, PTL

(* STAGE_ERC8004_VALIDATOR.md D5.  Two responses that differ about the same *)
(* claim differ in the policy they commit to, and their tags say how.       *)
THEOREM ConflictsAreExplained == Spec => []ConflictingScoresExplained
  <1>1. IInv => ConflictingScoresExplained
    <2> SUFFICES ASSUME IInv, NEW l \in landed, NEW m \in landed,
                        ClaimOf[l.request_hash] = ClaimOf[m.request_hash],
                        l.response # m.response
                 PROVE  /\ BindingBehind(l).policy # BindingBehind(m).policy
                        /\ {l.tag, m.tag} = {"matched", "unsafe"}
      BY DEF ConflictingScoresExplained
    <2>1. ExecutionOf(l) = ExecutionOf(m)
      BY DEF ExecutionOf
    <2>2. BindingBehind(l).policy # BindingBehind(m).policy
      <3>1. SUFFICES ASSUME BindingBehind(l).policy = BindingBehind(m).policy
                     PROVE  FALSE
        OBVIOUS
      <3>2. BindingBehind(l) = BindingBehind(m)
        BY <2>1, <3>1, LandedMeaning
      <3>3. {l.response} = {m.response}
        BY <3>2, LandedMeaning
      <3> QED BY <3>3
    <2>3. \/ l.response = PASS /\ m.response = FAIL
          \/ l.response = FAIL /\ m.response = PASS
      BY LandedMeaning
    <2>4. PASS # FAIL
      BY DEF PASS, FAIL
    <2>5. CASE l.response = PASS /\ m.response = FAIL
      <3>1. l.tag = "matched" /\ ExecutionOf(l).receipt.verdict = "matched"
        BY <2>5, LandedMeaning
      <3>2. m.tag = "unsafe"
        BY <2>1, <2>4, <2>5, <3>1, LandedMeaning
      <3> QED BY <2>2, <3>1, <3>2
    <2>6. CASE l.response = FAIL /\ m.response = PASS
      <3>1. m.tag = "matched" /\ ExecutionOf(m).receipt.verdict = "matched"
        BY <2>6, LandedMeaning
      <3>2. l.tag = "unsafe"
        BY <2>1, <2>4, <2>6, <3>1, LandedMeaning
      <3> QED BY <2>2, <3>1, <3>2
    <2> QED BY <2>3, <2>5, <2>6
  <1> QED BY <1>1, Invariant, PTL
=============================================================================
