--------------------------- MODULE Evidence_proofs --------------------------
(***************************************************************************)
(* Evidence is never stranded while nothing crashes, no write fails and the *)
(* power stays on: requests may come again, workers may race for one file   *)
(* and operators may change their keys and policies.  And whatever fails,   *)
(* accepted evidence is a decision of the operator whose key accepts it.    *)
(***************************************************************************)
EXTENDS ValidatorService_proofs

(* A file is whole when it holds its binding, signed by some operator.      *)
Whole(u) ==
    \E op \in Operator, b \in DecisionBinding :
      embedded_hash(u) = digest(b) /\ files[u] = {sign_decision(b, op.signing_key)}
BeingWritten(u) == \E w \in Worker : task[w].step = "write" /\ UriOf(w) = u

(* Stronger than the property: it speaks of files nobody points at yet.     *)
EvidenceInv ==
    /\ \A u \in DOMAIN files : Whole(u) \/ BeingWritten(u)
    /\ \A l \in landed : l.response_uri \in DOMAIN files

(* A whole file stays whole while nobody touches it.                        *)
LEMMA WholeStays ==
  ASSUME NEW u, files'[u] = files[u], Whole(u)
  PROVE  Whole(u)'
  <1>1. PICK op \in Operator, b \in DecisionBinding :
          embedded_hash(u) = digest(b) /\ files[u] = {sign_decision(b, op.signing_key)}
    BY DEF Whole
  <1>2. files'[u] = {sign_decision(b, op.signing_key)}
    BY <1>1
  <1> QED BY <1>1, <1>2 DEF Whole

(* A reader who pinned the key of a whole file accepts it.                  *)
LEMMA WholeIsServed ==
  ASSUME IInv, NEW l \in landed, l.response_uri \in DOMAIN files, Whole(l.response_uri)
  PROVE  Served(l)
  <1>1. PICK op \in Operator, b \in DecisionBinding :
          /\ embedded_hash(l.response_uri) = digest(b)
          /\ files[l.response_uri] = {sign_decision(b, op.signing_key)}
    BY DEF Whole
  <1> DEFINE signed == sign_decision(b, op.signing_key)
  <1>2. Evidence(l) = {signed} /\ unwrap(Evidence(l)) = signed
    BY <1>1, Unwrapping DEF Evidence
  <1>3. digest(signed.binding) = l.response_hash
    <2>1. l.response_uri = uri_for(l.response_hash)
      BY LandedMeaning
    <2>2. embedded_hash(l.response_uri) = l.response_hash
      BY <2>1 DEF uri_for, embedded_hash
    <2> QED BY <1>1, <2>2, SignedFields
  <1>4. op.signing_key \in Key /\ op.signing_key # Garbled
    BY ServiceAssumption, GarbledAssumption
  <1>5. verify_decision(signed, op.signing_key) = "Ok"
    <2>1. /\ signed.signer = op.signing_key
          /\ signed.signature = sign(signed.signer, digest(signed.binding))
      BY SignedFields
    <2> HIDE DEF signed
    <2> QED BY <1>4, <2>1 DEF verify_decision, verify_self_consistent
  <1> HIDE DEF signed
  <1>6. Check(l, op.signing_key) = [ok |-> validation_response(signed)]
    BY <1>2, <1>3, <1>5 DEF Check, verify_bundle
  <1>7. Accepts(l, op.signing_key)
    BY <1>6 DEF Accepts
  <1> QED BY <1>7 DEF Served

(* A step that writes no file and ends no write.                            *)
LEMMA FilesUntouched ==
  ASSUME EvidenceInv, UNCHANGED files,
         \A v \in Worker : task[v].step = "write" => task'[v] = task[v],
         \A l \in landed' : l \in landed \/ l.response_uri \in DOMAIN files
  PROVE  EvidenceInv'
  <1>1. ASSUME NEW u \in DOMAIN files PROVE Whole(u)' \/ BeingWritten(u)'
    <2>1. CASE Whole(u)
      BY <2>1 DEF Whole
    <2>2. CASE BeingWritten(u)
      BY <2>2 DEF BeingWritten, UriOf
    <2> QED BY <1>1, <2>1, <2>2 DEF EvidenceInv
  <1> QED BY <1>1 DEF EvidenceInv

(* The worker that moves is not writing: the others' writes go on.          *)
LEMMA OthersKeepWriting ==
  ASSUME IInv, NEW w \in Worker, task[w].step # "write",
         NEW t, task' = [task EXCEPT ![w] = t]
  PROVE  \A v \in Worker : task[v].step = "write" => task'[v] = task[v]
  BY DEF IInv, TypeOK

(* Opening a file empties it, and its writer is there to fill it.           *)
LEMMA OpenKeepsEvidence ==
  ASSUME IInv, EvidenceInv, NEW w \in Worker, OpenEvidence(w)
  PROVE  EvidenceInv'
  <1>1. /\ task[w].step = "open" /\ task[w].step \in Deciding /\ Store(UriOf(w), {})
        /\ task' = [task EXCEPT ![w].step = "write"] /\ UNCHANGED landed
    BY DEF OpenEvidence, Advance, Deciding
  <1>2. task[w] \in Task /\ task \in [Worker -> Task] /\ "write" \in Deciding
    BY DEF IInv, TypeOK, Deciding
  <1>3. task'[w].step = "write" /\ task'[w].signed = task[w].signed
    BY <1>1, <1>2, TaskAdvance
  <1>4. \A v \in Worker : v # w => task'[v] = task[v]
    BY <1>1, <1>2
  <1>5. /\ DOMAIN files' = DOMAIN files \cup {UriOf(w)}
        /\ \A u \in DOMAIN files : u # UriOf(w) => files'[u] = files[u]
    BY <1>1, StoreEffect
  <1>6. \A u : u = UriOf(w) => BeingWritten(u)'
    BY <1>3 DEF BeingWritten, UriOf
  <1>7. ASSUME NEW u \in DOMAIN files, u # UriOf(w) PROVE Whole(u)' \/ BeingWritten(u)'
    <2>1. CASE Whole(u)
      BY <1>5, <1>7, <2>1, WholeStays
    <2>2. CASE BeingWritten(u)
      BY <1>1, <1>4, <2>2 DEF BeingWritten, UriOf
    <2> QED BY <1>7, <2>1, <2>2 DEF EvidenceInv
  <1>8. \A u \in DOMAIN files' : Whole(u)' \/ BeingWritten(u)'
    <2> SUFFICES ASSUME NEW u \in DOMAIN files' PROVE Whole(u)' \/ BeingWritten(u)'
      OBVIOUS
    <2> QED BY <1>5, <1>6, <1>7
  <1> QED BY <1>1, <1>5, <1>8 DEF EvidenceInv

(* A write that ends leaves the file whole.                                 *)
LEMMA WriteKeepsEvidence ==
  ASSUME IInv, EvidenceInv, NEW w \in Worker, WriteEvidence(w)
  PROVE  EvidenceInv'
  <1> DEFINE uri    == UriOf(w)
             signed == task[w].signed
             e      == execution[ClaimOf[task[w].request]]
  <1>1. /\ task[w].step = "write" /\ task[w].step \in Deciding /\ Store(uri, {signed})
        /\ task' = [task EXCEPT ![w].step = "submit"] /\ UNCHANGED landed
    BY DEF WriteEvidence, Advance, Deciding, evidence_bundle_json
  <1>2. e \in Execution /\ DecidedFor(e, signed)
    BY <1>1, TaskHolds
  <1>3. PICK op \in Operator : signed = sign_decision(BindingOf(e, op.policy), op.signing_key)
    BY <1>2 DEF DecidedFor
  <1>4. BindingOf(e, op.policy) \in DecisionBinding
    BY <1>2, BindingType, ServiceAssumption
  <1>5. embedded_hash(uri) = digest(BindingOf(e, op.policy))
    <2>1. signed.binding = BindingOf(e, op.policy)
      BY <1>3, SignedFields
    <2> QED BY <2>1 DEF UriOf, uri_for, embedded_hash, content_hash
  <1>6. task \in [Worker -> Task]
    BY DEF IInv, TypeOK
  <1>7. \A v \in Worker : v # w => task'[v] = task[v]
    BY <1>1, <1>6
  <1> HIDE DEF uri, signed, e
  <1>8. /\ DOMAIN files' = DOMAIN files \cup {uri} /\ files'[uri] = {signed}
        /\ \A u \in DOMAIN files : u # uri => files'[u] = files[u]
    BY <1>1, StoreEffect
  <1>9. uri \in DOMAIN files' /\ \A u : u = uri => Whole(u)'
    <2> SUFFICES ASSUME NEW u, u = uri PROVE Whole(u)'
      BY <1>8
    <2>1. embedded_hash(u) = digest(BindingOf(e, op.policy))
      BY <1>5
    <2>2. files'[u] = {sign_decision(BindingOf(e, op.policy), op.signing_key)}
      BY <1>3, <1>8
    <2>3. PICK b \in DecisionBinding : b = BindingOf(e, op.policy)
      BY <1>4
    <2> QED BY <2>1, <2>2, <2>3 DEF Whole
  <1>10. ASSUME NEW u \in DOMAIN files, u # uri PROVE Whole(u)' \/ BeingWritten(u)'
    <2>1. CASE Whole(u)
      BY <1>8, <1>10, <2>1, WholeStays
    <2>2. CASE BeingWritten(u)
      BY <1>7, <1>10, <2>2 DEF BeingWritten, UriOf, uri
    <2> QED BY <1>10, <2>1, <2>2 DEF EvidenceInv
  <1>11. \A u \in DOMAIN files' : Whole(u)' \/ BeingWritten(u)'
    <2> SUFFICES ASSUME NEW u \in DOMAIN files' PROVE Whole(u)' \/ BeingWritten(u)'
      OBVIOUS
    <2> QED BY <1>8, <1>9, <1>10
  <1> QED BY <1>1, <1>8, <1>11 DEF EvidenceInv

(* A response lands after its evidence was written.                         *)
LEMMA SubmitKeepsEvidence ==
  ASSUME IInv, EvidenceInv, NEW w \in Worker, Submit(w)
  PROVE  EvidenceInv'
  <1>1. /\ task[w].step = "submit" /\ UNCHANGED files /\ Finish(w)
        /\ \A l \in landed' : l \in landed \/ l.response_uri = UriOf(w)
    BY DEF Submit
  <1>2. UriOf(w) \in DOMAIN files
    BY <1>1 DEF IInv, TaskInv, Deciding
  <1>3. \A v \in Worker : task[v].step = "write" => task'[v] = task[v]
    BY <1>1, OthersKeepWriting DEF Finish
  <1> QED BY <1>1, <1>2, <1>3, FilesUntouched

(* src/erc8004/validator.rs:91.  Evidence must exist before we point at it, *)
(* and does: without crashes, failed writes and losses of power it can be   *)
(* read and verified but while a worker rewrites it, under any number of    *)
(* workers, deliveries of a request, and changes of operator.               *)
THEOREM EvidenceStays ==
  ASSUME Faults \subseteq {"rekey"}
  PROVE  Spec => []EvidenceNeverStranded
  <1>1. Init => EvidenceInv
    BY DEF Init, EvidenceInv
  <1>2. IInv /\ EvidenceInv /\ [Next]_vars => EvidenceInv'
    <2> SUFFICES ASSUME IInv, EvidenceInv, [Next]_vars PROVE EvidenceInv'
      OBVIOUS
    <2>1. CASE UNCHANGED vars
      BY <2>1, FilesUntouched DEF vars
    <2>2. ASSUME NEW w \in Worker, Step(w) PROVE EvidenceInv'
      <3>1. CASE Unresolvable(w) \/ Abstain(w) \/ Score(w)
        <4>1. /\ task[w].step # "write" /\ UNCHANGED <<files, landed>>
              /\ \E t : task' = [task EXCEPT ![w] = t]
          BY <3>1 DEF Unresolvable, Abstain, Score, Finish
        <4> QED BY <4>1, OthersKeepWriting, FilesUntouched
      <3> QED BY <2>2, <3>1, OpenKeepsEvidence, WriteKeepsEvidence, SubmitKeepsEvidence DEF Step
    <2>3. ASSUME NEW w \in Worker, Fault(w) PROVE EvidenceInv'
      <3>1. Reconfigure(w)
        BY <2>3 DEF Fault, OpenFails, WriteFails, Crash
      <3> QED BY <3>1, FilesUntouched DEF Reconfigure
    <2>4. ASSUME NEW w \in Worker, NEW r \in Request, Receive(w, r) PROVE EvidenceInv'
      <3>1. task[w].step # "write" /\ UNCHANGED <<files, landed>>
        BY <2>4 DEF Receive, Idle
      <3> QED BY <2>4, <3>1, OthersKeepWriting, FilesUntouched DEF Receive
    <2>5. (\A u \in DOMAIN files : ~WriteBack(u)) /\ ~PowerLoss
      BY DEF WriteBack, PowerLoss
    <2> QED BY <2>1, <2>2, <2>3, <2>4, <2>5 DEF Next
  <1>3. IInv /\ EvidenceInv => EvidenceNeverStranded
    <2> SUFFICES ASSUME IInv, EvidenceInv, NEW l \in landed
                 PROVE  Served(l) \/ BeingRewritten(l)
      BY DEF EvidenceNeverStranded
    <2>1. l.response_uri \in DOMAIN files
      BY DEF EvidenceInv
    <2>2. Whole(l.response_uri) \/ BeingWritten(l.response_uri)
      BY <2>1 DEF EvidenceInv
    <2> QED BY <2>1, <2>2, WholeIsServed DEF BeingWritten, BeingRewritten
  <1> QED BY <1>1, <1>2, <1>3, Invariant, PTL DEF Spec

-----------------------------------------------------------------------------
(* Who signs.  A signer that is not garbled is the key of an operator that  *)
(* runs the policy in the binding.                                          *)
Authored(s) ==
    s.signer = Garbled \/ \E op \in Operator : /\ op.signing_key = s.signer
                                             /\ op.policy = s.binding.policy
AllAuthored(bundle) == \A s \in bundle : Authored(s)
AuthorsInv ==
    /\ \A u \in DOMAIN files : AllAuthored(files[u])
    /\ \A u \in DOMAIN disk : AllAuthored(disk[u])

(* A torn file has the signer of the bundle before or after, or none; both  *)
(* have one binding, hence one policy.                                      *)
LEMMA TornAuthors ==
  ASSUME NEW was, IsOption(was, SignedDecision), NEW now \in SignedDecision,
         \A s \in was : digest(s.binding) = digest(now.binding),
         AllAuthored(was), Authored(now), NEW torn \in Torn(was, now)
  PROVE  AllAuthored(torn)
  <1>1. CASE was = {}
    BY <1>1 DEF Torn, AllAuthored
  <1>2. CASE was # {}
    <2> DEFINE old == unwrap(was)
    <2>1. old \in SignedDecision /\ old \in was
      BY <1>2, UnwrapIn
    <2>2. old.binding = now.binding
      BY <2>1, CommittedDigest
    <2>3. Authored(old)
      BY <2>1 DEF AllAuthored
    <2> HIDE DEF old
    <2>4. PICK s \in Splice(old, now) : torn = {s}
      BY <1>2, <2>2 DEF Torn, old
    <2>5. s.binding = now.binding /\ s.signer \in {old.signer, now.signer, Garbled}
      BY <2>1, <2>2, <2>4 DEF Splice, SignedDecision
    <2>6. Authored(s)
      BY <2>2, <2>3, <2>5 DEF Authored
    <2> QED BY <2>4, <2>6 DEF AllAuthored
  <1> QED BY <1>1, <1>2

(* What a worker is about to store was signed by an operator that runs the  *)
(* policy it decided under, whatever the worker was restarted with since.   *)
LEMMA TaskAuthor ==
  ASSUME IInv, NEW w \in Worker, task[w].step \in Deciding
  PROVE  task[w].signed \in SignedDecision /\ Authored(task[w].signed)
  <1> DEFINE e == execution[ClaimOf[task[w].request]]
  <1>1. task[w].signed \in SignedDecision /\ e \in Execution /\ DecidedFor(e, task[w].signed)
    BY TaskHolds
  <1>2. PICK op \in Operator :
          task[w].signed = sign_decision(BindingOf(e, op.policy), op.signing_key)
    BY <1>1 DEF DecidedFor
  <1>3. \A x, policy : BindingOf(x, policy).policy = policy
    BY BindingFields
  <1> QED BY <1>1, <1>2, <1>3, SignedFields DEF Authored

(* A step that stores one file, of an operator's or empty.                  *)
LEMMA StoringKeepsAuthors ==
  ASSUME AuthorsInv, NEW uri, NEW bundle, AllAuthored(bundle), Store(uri, bundle),
         UNCHANGED disk
  PROVE  AuthorsInv'
  <1>1. /\ DOMAIN files' = DOMAIN files \cup {uri} /\ files'[uri] = bundle
        /\ \A u \in DOMAIN files : u # uri => files'[u] = files[u]
    BY StoreEffect
  <1>2. \A u \in DOMAIN files' : AllAuthored(files'[u])
    BY <1>1 DEF AuthorsInv
  <1> QED BY <1>2 DEF AuthorsInv, AllAuthored, Authored

LEMMA TornWriteKeepsAuthors ==
  ASSUME IInv, AuthorsInv, NEW w \in Worker, task[w].step = "write", UNCHANGED disk,
         NEW torn \in Torn(files[UriOf(w)], task[w].signed), Store(UriOf(w), torn)
  PROVE  AuthorsInv'
  <1> DEFINE uri == UriOf(w)
  <1>1. task[w].step \in Deciding
    BY DEF Deciding
  <1>2. uri \in DOMAIN files
    BY <1>1 DEF IInv, TaskInv
  <1>3. IsOption(files[uri], SignedDecision) /\ AllAuthored(files[uri])
    BY <1>2 DEF IInv, TypeOK, AuthorsInv
  <1>4. embedded_hash(uri) = digest(task[w].signed.binding)
    BY DEF UriOf, uri_for, embedded_hash, content_hash
  <1>5. \A s \in files[uri] : digest(s.binding) = digest(task[w].signed.binding)
    BY <1>2, <1>4 DEF IInv, ContentAddressed
  <1>6. AllAuthored(torn)
    BY <1>1, <1>3, <1>5, TaskAuthor, TornAuthors
  <1> QED BY <1>6, StoringKeepsAuthors

LEMMA PowerLossKeepsAuthors ==
  ASSUME IInv, AuthorsInv, PowerLoss
  PROVE  AuthorsInv'
  <1>1. disk' = files' /\ DOMAIN files' \subseteq DOMAIN files
    BY DEF PowerLoss
  <1>2. \A u \in DOMAIN files' : files'[u] \in SurvivesAs(u)
    BY DEF PowerLoss
  <1>3. ASSUME NEW u \in DOMAIN files, NEW found \in SurvivesAs(u) PROVE AllAuthored(found)
    <2> DEFINE old == OnDisk(u)
    <2>1. /\ IsOption(old, SignedDecision) /\ AllAuthored(old)
          /\ \A s \in old : embedded_hash(u) = digest(s.binding)
      BY DEF OnDisk, IInv, TypeOK, DiskInv, IsOption, AuthorsInv, AllAuthored
    <2>2. /\ IsOption(files[u], SignedDecision) /\ AllAuthored(files[u])
          /\ \A s \in files[u] : embedded_hash(u) = digest(s.binding)
      BY DEF IInv, TypeOK, ContentAddressed, AuthorsInv
    <2>3. \/ found \in {files[u], old, {}}
          \/ \E now \in files[u] : found \in Torn(old, now)
      BY <1>3 DEF SurvivesAs
    <2> HIDE DEF old
    <2>4. ASSUME NEW now \in files[u], found \in Torn(old, now) PROVE AllAuthored(found)
      <3>1. now \in SignedDecision /\ Authored(now)
        BY <2>2, <2>4 DEF IsOption, AllAuthored
      <3>2. \A s \in old : digest(s.binding) = digest(now.binding)
        BY <2>1, <2>2, <2>4
      <3> QED BY <2>1, <2>4, <3>1, <3>2, TornAuthors
    <2>5. CASE found \in {files[u], old, {}}
      BY <2>1, <2>2, <2>5 DEF AllAuthored
    <2> QED BY <2>3, <2>4, <2>5
  <1>4. \A u \in DOMAIN files' : AllAuthored(files'[u])
    BY <1>1, <1>2, <1>3
  <1> QED BY <1>1, <1>4 DEF AuthorsInv, AllAuthored, Authored

LEMMA NextKeepsAuthors ==
  ASSUME IInv, AuthorsInv, [Next]_vars
  PROVE  AuthorsInv'
  <1>1. CASE UNCHANGED <<files, disk>>
    BY <1>1 DEF AuthorsInv, AllAuthored, Authored
  <1>2. ASSUME NEW w \in Worker, OpenEvidence(w) PROVE AuthorsInv'
    <2>1. AllAuthored({})
      BY DEF AllAuthored
    <2> QED BY <1>2, <2>1, StoringKeepsAuthors DEF OpenEvidence
  <1>3. ASSUME NEW w \in Worker, WriteEvidence(w) PROVE AuthorsInv'
    <2>1. AllAuthored({task[w].signed})
      BY <1>3, TaskAuthor DEF WriteEvidence, Deciding, AllAuthored
    <2> QED BY <1>3, <2>1, StoringKeepsAuthors DEF WriteEvidence, evidence_bundle_json
  <1>4. ASSUME NEW w \in Worker, WriteFails(w) \/ Crash(w) PROVE AuthorsInv'
    BY <1>1, <1>4, TornWriteKeepsAuthors DEF WriteFails, Crash
  <1>5. ASSUME NEW u \in DOMAIN files, WriteBack(u) PROVE AuthorsInv'
    <2>1. /\ UNCHANGED files /\ DOMAIN disk' = DOMAIN disk \cup {u}
          /\ \A x \in DOMAIN disk' : disk'[x] = IF x = u THEN files[u] ELSE disk[x]
      BY <1>5 DEF WriteBack
    <2> QED BY <2>1 DEF AuthorsInv, AllAuthored, Authored
  <1>6. CASE UNCHANGED vars
    BY <1>1, <1>6 DEF vars
  <1>7. ASSUME NEW w \in Worker, Step(w) PROVE AuthorsInv'
    BY <1>1, <1>2, <1>3, <1>7 DEF Step, Unresolvable, Abstain, Score, Submit
  <1>8. ASSUME NEW w \in Worker, Fault(w) PROVE AuthorsInv'
    BY <1>1, <1>4, <1>8 DEF Fault, OpenFails, Reconfigure
  <1>9. ASSUME NEW w \in Worker, NEW r \in Request, Receive(w, r) PROVE AuthorsInv'
    BY <1>1, <1>9 DEF Receive
  <1> QED BY <1>5, <1>6, <1>7, <1>8, <1>9, PowerLossKeepsAuthors DEF Next

(* src/attest.rs:27-28 and 134-139.  Under any faults and any set of keys   *)
(* and policies: a bundle that verifies under a key is a decision of an     *)
(* operator with that key, made under a policy it runs.                     *)
THEOREM AcceptedDecisionsAreTheirs == Spec => []AcceptedDecisionIsTheirs
  <1>1. Init => AuthorsInv
    BY DEF Init, AuthorsInv
  <1>2. IInv /\ AuthorsInv /\ [Next]_vars => AuthorsInv'
    BY NextKeepsAuthors
  <1>3. IInv /\ AuthorsInv => AcceptedDecisionIsTheirs
    <2> SUFFICES ASSUME IInv, AuthorsInv, NEW l \in landed, NEW key \in Key, Accepts(l, key)
                 PROVE  \E op \in Operator : /\ op.signing_key = key
                                             /\ op.policy = unwrap(Evidence(l)).binding.policy
      BY DEF AcceptedDecisionIsTheirs
    <2> DEFINE s == unwrap(Evidence(l))
    <2>1. Evidence(l) = {s} /\ s.signer = key
      BY AcceptedEvidence
    <2> HIDE DEF s
    <2>2. Authored(s)
      BY <2>1 DEF Evidence, AuthorsInv, AllAuthored
    <2> QED BY <2>1, <2>2, GarbledAssumption DEF Authored, s
  <1> QED BY <1>1, <1>2, <1>3, Invariant, PTL DEF Spec
=============================================================================
