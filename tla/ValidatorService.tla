-------------------------- MODULE ValidatorService --------------------------
(***************************************************************************)
(* The validation seat at work: handle_request (src/erc8004/validator.rs)   *)
(* over the wired pipeline and the file store (src/erc8004/store.rs), with  *)
(* the transport shell that feeds it requests and submits its actions.      *)
(*                                                                          *)
(* Several workers share one evidence root, as every FileStore::temp()      *)
(* does.  FileStore::put is open-and-truncate, then write: a reader, another*)
(* worker or a crash can fall in between.  Bundles for one URI commit to    *)
(* the same binding and have the same length, so a write over another       *)
(* worker's bundle replaces it from the front.                              *)
(***************************************************************************)
EXTENDS Pipeline

CONSTANTS
    Worker,
    Request,    \* on-chain request hashes
    ClaimId,    \* claim payloads behind the requestURIs
    ClaimOf,    \* the payload each request resolves to
    Executions, \* the executions the producers may report
    Operator,   \* signing key and policy a LiquetValidator can be built with
    Faults      \* which of "crash", "io", "rekey" and "power" happen

ASSUME ExecutionsAssumption ==
    \A e \in Executions : e \in Execution /\ ProducerContract(e)
ASSUME ServiceAssumption ==
    /\ ClaimOf \in [Request -> ClaimId]
    /\ Operator \subseteq [signing_key : Key, policy : GatePolicy]
    /\ Faults \subseteq {"crash", "io", "rekey", "power"}
    /\ "power" \in Faults => "crash" \in Faults

VARIABLES
    execution,  \* what re-executing each claim yields: fixed, D4's pinned blocks
    validator,  \* the LiquetValidator of each worker
    task,       \* where each worker is in handle_request
    files,      \* the evidence root: a bundle, or {} for text that does not parse
    disk,       \* the part of it that has reached the disk
    landed,     \* validationResponses on the registry
    abstained,  \* requests answered with Abstain
    failed      \* requests answered with a ValidateError

vars == <<execution, validator, task, files, disk, landed, abstained, failed>>

Idle == [step |-> "idle"]
Task ==
    {Idle} \cup [step : {"validate"}, request : Request]
      \cup [step : {"open", "write", "submit"}, request : Request, signed : SignedDecision]

uri_for(hash) == <<"file", hash>>
embedded_hash(uri) == uri[2]
Uri == {"file"} \X Hash

OnChainResponse ==
    [request_hash : Request, response : {PASS, FAIL}, response_uri : Uri,
     response_hash : Hash, tag : Tag]

(* Mutant: bundles are filed by what was executed, whoever decided.         *)
content_hash_IgnoresPolicy(signed) ==
    digest([signed.binding EXCEPT !.policy.max_settle_severity = Red])

content_hash(signed) == digest(signed.binding)

-----------------------------------------------------------------------------
Init ==
    /\ execution \in [ClaimId -> Executions]
    /\ validator \in [Worker -> Operator]
    /\ task = [w \in Worker |-> Idle]
    /\ files = [u \in {} |-> {}] /\ disk = files
    /\ landed = {} /\ abstained = {} /\ failed = {}

Resolved(w) ==
    validate(execution[ClaimOf[task[w].request]],
             validator[w].signing_key, validator[w].policy)

Finish(w) == task' = [task EXCEPT ![w] = Idle]
Store(uri, bundle) ==
    files' = [u \in DOMAIN files \cup {uri} |-> IF u = uri THEN bundle ELSE files[u]]

(* The shell resolves a ValidationRequest event and calls handle_request.   *)
(* The same event may come again, after a restart or a rescan.              *)
Receive(w, r) ==
    /\ task[w] = Idle
    /\ task' = [task EXCEPT ![w] = [step |-> "validate", request |-> r]]
    /\ UNCHANGED <<execution, validator, files, disk, landed, abstained, failed>>

(* validator.validate(req)? returns Err.                                    *)
Unresolvable(w) ==
    /\ task[w].step = "validate"
    /\ Resolved(w) = {}
    /\ Finish(w)
    /\ failed' = failed \cup {task[w].request}
    /\ UNCHANGED <<execution, validator, files, disk, landed, abstained>>

(* Mutant: an abstention leaves no record (D7).                             *)
Abstain_Forgotten(w) ==
    /\ task[w].step = "validate"
    /\ \E signed \in Resolved(w) : validation_response(signed).response = {}
    /\ Finish(w)
    /\ UNCHANGED <<execution, validator, files, disk, landed, abstained, failed>>

(* No score: abstain before touching the store.                             *)
Abstain(w) ==
    /\ task[w].step = "validate"
    /\ \E signed \in Resolved(w) : validation_response(signed).response = {}
    /\ Finish(w)
    /\ abstained' = abstained \cup {task[w].request}
    /\ UNCHANGED <<execution, validator, files, disk, landed, failed>>

(* Mutant: the response goes out before its evidence is pinned.             *)
Score_BeforePinning(w) ==
    /\ task[w].step = "validate"
    /\ \E signed \in Resolved(w) :
         /\ validation_response(signed).response # {}
         /\ task' = [task EXCEPT ![w] = [step |-> "submit", request |-> task[w].request,
                                         signed |-> signed]]
    /\ UNCHANGED <<execution, validator, files, disk, landed, abstained, failed>>

Score(w) ==
    /\ task[w].step = "validate"
    /\ \E signed \in Resolved(w) :
         /\ validation_response(signed).response # {}
         /\ task' = [task EXCEPT ![w] = [step |-> "open", request |-> task[w].request,
                                         signed |-> signed]]
    /\ UNCHANGED <<execution, validator, files, disk, landed, abstained, failed>>

UriOf(w) == uri_for(content_hash(task[w].signed))
Advance(w, step) == task' = [task EXCEPT ![w].step = step]

(* FileStore::put: create the directory, create or truncate the file.       *)
OpenEvidence(w) ==
    /\ task[w].step = "open"
    /\ Store(UriOf(w), {})
    /\ Advance(w, "write")
    /\ UNCHANGED <<execution, validator, disk, landed, abstained, failed>>

(* Mutant: evidence that a landed response already points at is not written *)
(* again, though the open has truncated it.                                 *)
WriteEvidence_SkipsKnown(w) ==
    /\ task[w].step = "write"
    /\ IF \E l \in landed : l.response_uri = UriOf(w) THEN UNCHANGED files
       ELSE Store(UriOf(w), evidence_bundle_json(task[w].signed))
    /\ Advance(w, "submit")
    /\ UNCHANGED <<execution, validator, disk, landed, abstained, failed>>

WriteEvidence(w) ==
    /\ task[w].step = "write"
    /\ Store(UriOf(w), evidence_bundle_json(task[w].signed))
    /\ Advance(w, "submit")
    /\ UNCHANGED <<execution, validator, disk, landed, abstained, failed>>

(* The shell calls validationResponse; one with the same responseHash is    *)
(* not submitted twice (landed is a set).                                   *)
Submit(w) ==
    LET vr == validation_response(task[w].signed)
    IN  /\ task[w].step = "submit"
        /\ landed' = landed \cup
             {[request_hash |-> task[w].request, response |-> unwrap(vr.response),
               response_uri |-> UriOf(w), response_hash |-> vr.response_hash,
               tag |-> vr.tag]}
        /\ Finish(w)
        /\ UNCHANGED <<execution, validator, files, disk, abstained, failed>>

-----------------------------------------------------------------------------
(* Where a write that stops half-way may leave a file: on an empty file a   *)
(* prefix does not parse; over another bundle the cut falls before or after *)
(* the binding, or before, in, between or after the signer and the          *)
(* signature.  Inside a binding a cut shows only if the two differ, and     *)
(* then the text does not parse.                                            *)
Splice(was, now) ==
    {was,
     [now EXCEPT !.signer = was.signer, !.signature = was.signature],
     [now EXCEPT !.signer = IF was.signer = now.signer THEN now.signer ELSE Garbled,
                 !.signature = was.signature],
     [now EXCEPT !.signature = was.signature],
     [now EXCEPT !.signature = IF was.signature = now.signature THEN now.signature ELSE Garbled],
     now}

Torn(was, now) ==
    IF was = {} THEN {{}, {now}}
    ELSE {{s} : s \in Splice(unwrap(was), now)}
           \cup {torn \in {{}} : unwrap(was).binding # now.binding}

(* create_dir_all or the open fails: ValidateError::Store, nothing written. *)
OpenFails(w) ==
    /\ "io" \in Faults
    /\ task[w].step = "open"
    /\ Finish(w)
    /\ failed' = failed \cup {task[w].request}
    /\ UNCHANGED <<execution, validator, files, disk, landed, abstained>>

(* A disk that fills up: ValidateError::Store with part of the bundle out.  *)
WriteFails(w) ==
    /\ "io" \in Faults
    /\ task[w].step = "write"
    /\ \E torn \in Torn(files[UriOf(w)], task[w].signed) : Store(UriOf(w), torn)
    /\ Finish(w)
    /\ failed' = failed \cup {task[w].request}
    /\ UNCHANGED <<execution, validator, disk, landed, abstained>>

(* The process dies; an idle one loses nothing.                             *)
Crash(w) ==
    /\ "crash" \in Faults
    /\ task[w] # Idle
    /\ IF task[w].step = "write"
       THEN \E torn \in Torn(files[UriOf(w)], task[w].signed) : Store(UriOf(w), torn)
       ELSE UNCHANGED files
    /\ Finish(w)
    /\ UNCHANGED <<execution, validator, disk, landed, abstained, failed>>

(* A restart with another key or another policy.                            *)
Reconfigure(w) ==
    /\ "rekey" \in Faults
    /\ task[w] = Idle
    /\ \E op \in Operator \ {validator[w]} : validator' = [validator EXCEPT ![w] = op]
    /\ UNCHANGED <<execution, task, files, disk, landed, abstained, failed>>

(* Nothing is flushed: the kernel writes a file back whenever it likes.     *)
Durable(u) == u \in DOMAIN disk /\ disk[u] = files[u]
WriteBack(u) ==
    /\ "power" \in Faults
    /\ ~Durable(u)
    /\ disk' = [x \in DOMAIN disk \cup {u} |-> IF x = u THEN files[u] ELSE disk[x]]
    /\ UNCHANGED <<execution, validator, task, files, landed, abstained, failed>>

(* What a file may be found to hold when the power comes back: what the     *)
(* disk had, nothing, or as much of the new text as was written back.       *)
OnDisk(u) == IF u \in DOMAIN disk THEN disk[u] ELSE {}
SurvivesAs(u) ==
    IF Durable(u) THEN {files[u]}
    ELSE {OnDisk(u), {}} \cup UNION {Torn(OnDisk(u), now) : now \in files[u]}

(* The machine loses power, and every process with it; a file that never    *)
(* reached the disk may be gone.  One that was being written is torn first  *)
(* (Crash).                                                                 *)
PowerLoss ==
    /\ "power" \in Faults
    /\ task' = [w \in Worker |-> Idle]
    /\ \E found \in SUBSET DOMAIN files :
         /\ DOMAIN disk \subseteq found
         /\ files' \in [found -> UNION {SurvivesAs(u) : u \in found}]
         /\ \A u \in found : files'[u] \in SurvivesAs(u)
    /\ disk' = files'
    /\ UNCHANGED <<execution, validator, landed, abstained, failed>>

Step(w) ==
    \/ Unresolvable(w) \/ Abstain(w) \/ Score(w)
    \/ OpenEvidence(w) \/ WriteEvidence(w) \/ Submit(w)
Fault(w) == OpenFails(w) \/ WriteFails(w) \/ Crash(w) \/ Reconfigure(w)

Next ==
    \/ \E w \in Worker : Step(w) \/ Fault(w) \/ \E r \in Request : Receive(w, r)
    \/ \E u \in DOMAIN files : WriteBack(u)
    \/ PowerLoss
Spec == Init /\ [][Next]_vars

(* handle_request is straight-line code and the shell awaits its result;    *)
(* nothing forces an event to arrive.                                       *)
Fairness == \A w \in Worker : WF_vars(Step(w))
FairSpec == Spec /\ Fairness
-----------------------------------------------------------------------------
TypeOK ==
    /\ execution \in [ClaimId -> Execution]
    /\ validator \in [Worker -> Operator]
    /\ task \in [Worker -> Task]
    /\ DOMAIN files \subseteq Uri
    /\ \A u \in DOMAIN files : IsOption(files[u], SignedDecision)
    /\ DOMAIN disk \subseteq DOMAIN files
    /\ \A u \in DOMAIN disk : IsOption(disk[u], SignedDecision)
    /\ landed \subseteq OnChainResponse
    /\ abstained \subseteq Request /\ failed \subseteq Request

(* Names for the properties: the execution and the committed binding behind *)
(* a response, the text its URI serves, and what a reader concludes from it.*)
ExecutionOf(l) == execution[ClaimOf[l.request_hash]]
BindingBehind(l) == Committed(l.response_hash)
Evidence(l) == IF l.response_uri \in DOMAIN files THEN files[l.response_uri] ELSE {}
Check(l, key) == verify_bundle(Evidence(l), l.response_hash, key)
Accepts(l, key) == "ok" \in DOMAIN Check(l, key)
Served(l) == \E op \in Operator : Accepts(l, op.signing_key)

(* src/erc8004/store.rs:4-8.  Whatever crashes, failed writes, key changes  *)
(* and other workers leave in the evidence root, a file that parses holds a *)
(* bundle whose binding hashes to the file's name.                          *)
ContentAddressed ==
    \A u \in DOMAIN files : \A s \in files[u] : embedded_hash(u) = digest(s.binding)

(* src/erc8004/mod.rs:135-143.  If a relying party accepts the evidence     *)
(* behind a landed response, under any key at any time, then the evidence   *)
(* implies the very score and tag that landed, and the binding it read      *)
(* explains itself: its decision is what the gate concludes from the        *)
(* reconcile verdict, the screen and the policy in that same binding.       *)
ReaderNeverMisled ==
    \A l \in landed, key \in Key : Accepts(l, key) =>
      LET b == unwrap(Evidence(l)).binding
      IN  /\ Check(l, key).ok = [response |-> {l.response}, tag |-> l.tag,
                                 response_hash |-> l.response_hash]
          /\ b.decision = decide_crossvm([reconcile |-> b.reconcile], b.invariant, b.policy)
          /\ b.claim_hash = ExecutionOf(l).receipt.claim_hash
          /\ b.settlement_id = ExecutionOf(l).receipt.settlement_id

(* src/attest.rs:134-139.  What a relying party accepts under an operator   *)
(* key is whole: the committed binding, signed by that key.  A bundle       *)
(* spliced from two operators' by a write that stopped half-way never is.   *)
AcceptedBundleIsWhole ==
    \A l \in landed, key \in Key : Accepts(l, key) =>
      Evidence(l) = {sign_decision(BindingBehind(l), key)}

(* src/attest.rs:27-28 and 134-139.  What a relying party accepts under a   *)
(* key is a decision of that operator's: one made under a policy that it    *)
(* runs.  Torn files mix signers, but never lend an operator's name to the  *)
(* policy of another.                                                       *)
AcceptedDecisionIsTheirs ==
    \A l \in landed, key \in Key : Accepts(l, key) =>
      \E op \in Operator : /\ op.signing_key = key
                           /\ op.policy = unwrap(Evidence(l)).binding.policy

(* src/erc8004/mod.rs:104-112.  A landed PASS is true of the world: both    *)
(* legs executed, every recovered fact equals the claim, the replayed       *)
(* delivery moved exactly the claimed good, and the screen, finding by      *)
(* finding, is within the policy that the response commits to.              *)
GroundedPass ==
    \A l \in landed : l.response = PASS =>
      LET e   == ExecutionOf(l)
          max == BindingBehind(l).policy.max_settle_severity
      IN  /\ e.evm.executed /\ e.svm.executed /\ FactsHonorClaim(e)
          /\ unwrap(e.replay.after) = unwrap(e.replay.before) + e.claim.good.amount
          /\ e.claim.good.amount > 0
          /\ \A f \in e.custos.findings : f.level <= max

(* src/decide.rs:161-165.  The flagship gate is no weaker than the single-  *)
(* leg gate: whatever lands as PASS, `decide` would settle too, without a   *)
(* caveat, on the delivery leg bound to the good of the claim.              *)
FlagshipNotWeaker ==
    \A l \in landed : l.response = PASS =>
      LET e      == ExecutionOf(l)
          intent == [vm |-> "svm", asset |-> e.claim.good.spl_mint,
                     amount |-> e.claim.good.amount,
                     recipient |-> e.claim.good.recipient, required_accounts |-> {}]
      IN  decide(intent, proof_from_leg(e.svm), verdict_from_custos(e.custos),
                 BindingBehind(l).policy) = Settle({})

(* src/erc8004/mod.rs:44-56, the four tags a consumer must tell apart: each *)
(* landed tag names what happened to the legs and to the screen.            *)
TagNamesTheCause ==
    \A l \in landed :
      LET e == ExecutionOf(l)
          safe == e.custos.level <= BindingBehind(l).policy.max_settle_severity
          honored == e.evm.executed /\ e.svm.executed /\ FactsHonorClaim(e)
      IN  /\ l.tag = "matched" => honored /\ safe
          /\ l.tag = "unsafe" => honored /\ ~safe
          /\ l.tag = "half-open" => e.evm.executed # e.svm.executed
          /\ l.tag = "mismatch" => e.evm.executed = e.svm.executed
          /\ l.tag # "unverifiable"

(* src/erc8004/validator.rs:72-73 and 88-89.  "Could not check" leaves no   *)
(* trace that averages as a failure: a request that was abstained on has no *)
(* score, ever, and the evidence root names only decisions about claims     *)
(* that were re-executed, screened and verifiable.                          *)
SilentWhenUnchecked ==
    /\ \A l \in landed : l.request_hash \notin abstained
    /\ \A u \in DOMAIN files : \E c \in ClaimId, op \in Operator :
         /\ Resolvable(execution[c])
         /\ execution[c].receipt.verdict # "unverifiable"
         /\ embedded_hash(u) = digest(BindingOf(execution[c], op.policy))

(* STAGE_ERC8004_VALIDATOR.md D5: several responses may land for a request. *)
(* Two that differ about the same claim can only disagree on how strict the *)
(* screen is, both say so in their tag, and their hashes commit to the two  *)
(* policies.                                                                *)
ConflictingScoresExplained ==
    \A l, m \in landed :
      ClaimOf[l.request_hash] = ClaimOf[m.request_hash] /\ l.response # m.response =>
        /\ BindingBehind(l).policy # BindingBehind(m).policy
        /\ {l.tag, m.tag} = {"matched", "unsafe"}

(* src/erc8004/validator.rs:91.  The evidence behind a landed response can  *)
(* be read and verified, but for the moment in which a worker rewrites it.  *)
BeingRewritten(l) == \E w \in Worker : task[w].step = "write" /\ UriOf(w) = l.response_uri
EvidenceNeverStranded == \A l \in landed : Served(l) \/ BeingRewritten(l)

(* src/erc8004/store.rs:19-20.  Once a reader accepted the evidence of a    *)
(* response under one key, the URI never serves it under another.           *)
AcceptedUnder(r, key) == \E l \in landed : l.request_hash = r /\ Accepts(l, key)
EvidenceKeepsItsSigner ==
    \A r \in Request, key \in Key :
      [](AcceptedUnder(r, key) => [](\A other \in Key \ {key} : ~AcceptedUnder(r, other)))

(* STAGE_ERC8004_VALIDATOR.md:108-113.  Work whose legs were re-executed    *)
(* and reconciled gets the score of its row in the table.                   *)
ReconciledWorkIsScored ==
    \A r \in failed : LET e == execution[ClaimOf[r]] IN
      ~(e.parses /\ e.evm_ok /\ e.svm_ok /\ e.receipt.verdict # "unverifiable")

(* src/erc8004/mod.rs:48.  The tag "mismatch" says that both legs executed. *)
MismatchMeansBothExecuted ==
    \A l \in landed : l.tag = "mismatch" =>
      ExecutionOf(l).evm.executed /\ ExecutionOf(l).svm.executed

(* Every request a worker takes up is answered: scored, abstained on or     *)
(* failed.                                                                  *)
Answered(r) == r \in abstained \cup failed \/ \E l \in landed : l.request_hash = r
RequestsAnswered ==
    \A w \in Worker, r \in Request :
      (task[w] # Idle /\ task[w].request = r) ~> (task[w] = Idle /\ Answered(r))

(* Rewriting never ends the service: the evidence behind every response is  *)
(* there again and again, however often its request is processed anew.      *)
EvidenceComesBack ==
    \A r \in Request : []<>(\A l \in landed : l.request_hash = r => Served(l))

(* STAGE_ERC8004_VALIDATOR.md D5, "re-processing the same request is safe": *)
(* it even heals.  Whatever crashes, failed writes and losses of power did  *)
(* to the evidence behind a request, once they end, and while the request   *)
(* keeps being delivered, its evidence comes back and stays.  (A crash just *)
(* before a response is posted for the second time changes nothing that the *)
(* second posting would not: it is no disturbance.)                         *)
Disturbance ==
    /\ PowerLoss \/ \E w \in Worker : Fault(w)
    /\ ~\E w \in Worker : Step(w)
EvidenceHeals ==
    \A r \in Request :
      /\ <>[][~Disturbance]_vars
      /\ []<><<\E w \in Worker : Receive(w, r)>>_vars
      => <>[](\A l \in landed : l.request_hash = r => Served(l) \/ BeingRewritten(l))

-----------------------------------------------------------------------------
(* The refinement mapping: what the registry and a reader of the evidence   *)
(* root can tell.                                                           *)
FateOf(e) ==
    [verdict |-> IF Resolvable(e) THEN e.receipt.verdict ELSE "unresolvable",
     level |-> e.custos.level]
Story(l) ==
    [request |-> l.request_hash, score |-> l.response, tag |-> l.tag,
     threshold |-> BindingBehind(l).policy.max_settle_severity,
     evidence |-> l.response_uri]

Seat == INSTANCE ValidationSeat WITH
    fate      <- [r \in Request |-> FateOf(execution[ClaimOf[r]])],
    pinned    <- DOMAIN files,
    responses <- {Story(l) : l \in landed},
    silent    <- abstained

(* src/erc8004/validator.rs:77-79.  Seen from the registry, the workers,    *)
(* the rewritten files, the crashes and the changed keys are one validator  *)
(* that pins, answers and abstains, one at a time, as ValidationSeat says.  *)
ImplementsSeat == Seat!Spec
=============================================================================
