# Liquet, specified

TLA+ specifications of Liquet, the settlement gate in `src/`, the runs that
model-check them with TLC, and theorems about them that TLAPS checks.

Liquet answers one question before funds move: did this settlement execute as
specified, and is it safe to release? It consumes the reports of external
producers (probatio-xvm re-executes and reconciles the two legs of a cross-VM
settlement, Custos screens the delivery leg), decides settle or hold, signs the
decision, pins the signed bundle as evidence, and answers an ERC-8004
`ValidationRequest` with a score.

Paths below are relative to the repository's root.

## 1. The system

| component | code | state | operations |
|---|---|---|---|
| seam contract | `src/seam.rs` | none: types | - |
| gate | `src/decide.rs` | none: pure | `decide`, `decide_crossvm`, `bind` |
| attestation | `src/attest.rs` | none: pure | `DecisionBinding::new`, `digest`, `sign_decision`, `verify_decision`, `verify_self_consistent` |
| ERC-8004 mapping | `src/erc8004/mod.rs` | none: pure | `validation_response`, `evidence_bundle_json`, `verify_bundle` |
| wired validator | `src/erc8004/liquet_validator.rs` | signing key, policy | `new`, `validate` |
| probatio adapter | `src/adapters/probatio.rs` | none | `proof_from_leg`, `crossvm_from_receipt` |
| delivery screen | `src/adapters/xvm_custos.rs` | none (a fresh LiteSVM a call) | `invariant_from_svm_leg` |
| Custos adapter | `src/adapters/custos.rs` | none | `verdict_from_custos`, `proof_from_outcome` |
| orchestration | `src/erc8004/validator.rs` | where it is in a request | `handle_request` |
| evidence store | `src/erc8004/store.rs` | the files of a root, or a map | `put`, `get` |
| transport shell | `STAGE_ERC8004_VALIDATOR.md` section 11 | registry, cursor, abstain log | not written yet |
| Phase-1 slice | `src/bin/slice.rs` | a fresh LiteSVM a scenario | two scenarios: capture, adapt, `decide`, print |
| cross-VM demo | `src/bin/xvm_demo.rs` | none | three or four scenes: reconcile, screen, `decide_crossvm`, print; a self-check and an exit code |
| page, registry | `web/`, `src/adapters/mod.rs` | none | - |

How they interact: the shell hands a resolved request to `handle_request`, which
calls `validate` (parse, re-execute both legs, reconcile, screen, gate, sign),
maps the signed decision to a response, and either abstains or puts the bundle
into the store and returns a `Respond`, which the shell submits. A relying party
later fetches the response's URI and runs `verify_bundle` against the
`responseHash` on the registry and the operator key it pinned. Everything up to
the signed decision is a pure function of the producers' reports; the hard part
comes after it. The two binaries drive the same adapters and gates without the
service: the slice uses the single-leg gate with Custos in both slots, the demo
the flagship gate with, or without, the live screen.

What is hard here:

- **the file store**: `std::fs::write` truncates, then writes. The path depends
  on the binding only, so a request delivered again, another worker on the same
  root (`FileStore::temp()` is one directory for all), or the same operator
  under a new key rewrites a file that a response on the registry points at;
- **failures in the middle**: a process that dies, or a disk that fills up,
  between the truncation and the end of the write; a machine that loses power
  while files that were written are not yet on the disk (nothing is flushed);
- **changes of configuration** between two deliveries of one request: another
  signing key, another policy;
- **what the score may claim**: PASS rests on the producers' contract and on a
  numeric comparison that saturates; four failures share the score 0; "could
  not check" must never look like a failure;
- **the gate's combinations**: seven kinds of defects, three policy knobs and
  facts that may or may not be trusted, each of which may hide another;
- **the poststate digest**: it is taken over a map that has no order, and over
  fields of variable length next to each other, and another party must
  reproduce it;
- **what a demo shows**: a build without the live screen, producers that cannot
  verify a leg, and a self-check that looks at one reconciliation only.

Nothing else in the code is concurrent, and nothing but the evidence is kept
across a restart.

### What makes each component correct

- gate: every defect is reported, none hides another; a settle without a caveat
  is fully bound; a stricter policy or a worse settlement never releases money.
- attestation and mapping: a response's hash commits to all that the score was
  made from; whoever accepts the evidence re-derives that score.
- pipeline: a PASS is true of the executed legs; tags name their cause.
- orchestration: every request is answered; abstaining leaves no trace that
  averages; evidence is there whenever a response points at it.
- store: what a URI serves has the hash in its name, whatever happened before,
  and evidence that was lost comes back when its request is processed again.
- Phase-1 adapter and slice: the digest identifies the poststate; a settle has
  the caveat that says what was not checked; the drainer is held.
- demo: no delivery but the first settles; what settles was honored; the exit
  code does not contradict the screen.

## 2. The modules

`Seam`, `Gate`, `Attest`, `Erc8004` extend one another in this order, and
`Custos` extends `Gate`. `Pipeline` joins `Erc8004` and `Custos`;
`ValidatorService` and `XvmDemo` extend `Pipeline`. `Poststate` extends `Custos`,
and `Slice` extends `Poststate`. `ValidationSeat` stands alone:
`ValidatorService` instantiates it.

| module | models | correspondence |
|---|---|---|
| `Seam` | `src/seam.rs` | the types; an `Option` is a set of at most one element; a `Vec` whose order no check reads is a set; free text is left out |
| `Gate` | `src/decide.rs` | a reason or a caveat is a pair of a check and a detail in place of the formatted sentence |
| `Attest` | `src/attest.rs` | SHA-256 and ed25519 are ideal: `digest` is an injective constructor, a signature is its key and the digest it covers |
| `Erc8004` | `src/erc8004/mod.rs` | a bundle is its text read back: `{}` does not parse, `{s}` parses to `s` |
| `Custos` | `src/adapters/custos.rs`, slot 2 | the engine's verdict, its contract, and the verdict of the seam |
| `Pipeline` | `liquet_validator.rs`, `probatio.rs`, `xvm_custos.rs` | an *execution* is all that the producers report of one claim; `validate` is a function of it; `Err` is `{}` |
| `ValidationSeat` | the contract in the comments of `erc8004/` | what the registry is promised: true rows, evidence first, silence when unchecked |
| `ValidatorService` | `validator.rs`, `store.rs` | the state machine, and the properties of the service |
| `Poststate` | `src/adapters/custos.rs`, slot 1 | an account is the number its key is; the digest is the sequence of tokens that is hashed; the order of the map is an argument, and the sort is what it yields, the ascending sequence of the same keys |
| `Slice` | `src/bin/slice.rs` | one action for each fresh environment and each scenario; the line printed is kept with what led to it |
| `XvmDemo` | `src/bin/xvm_demo.rs` | one action a scene, the panics, the self-check; the build (`wire_xvm`) is chosen at the start |
| `MCGate` | - | an environment that damages one settlement step by step, and the gate's properties |
| `MCService`, `MCSlice`, `MCDemo` | - | values of the constants for the runs |
| `Gate_proofs`, `MCGate_proofs`, `ValidatorService_proofs`, `Seat_proofs`, `Evidence_proofs`, `Poststate_proofs`, `Slice_proofs`, `XvmDemo_proofs` | - | theorems and proofs |

The order of the findings and of a hold's reasons is read in one place: they are
part of what the decision's digest is taken over (`attest.rs:98`). With sets in
their place, the same blocks give the same digest whenever they are re-executed.
So the properties about requests delivered again rely on D4 of the stage document
for this too: Custos, replaying one delivery, reports its findings in one order.

`ValidatorService` has the variables

- `execution`: what re-execution of each claim yields. It never changes: re-execution
  is deterministic and runs on pinned blocks (D4 of the stage document);
- `validator`: the `LiquetValidator` (key, policy) of each worker;
- `task`: where each worker is in `handle_request`: idle, about to validate,
  about to open the evidence file, about to write it, about to submit;
- `files`: the evidence root as processes see it, and `disk`: the part of it that
  has reached the disk;
- `landed`, `abstained`, `failed`: the responses on the registry, and the
  requests answered with `Abstain` or with an error. `landed` is a set, and so
  has D5's rule that the same response is not posted twice.

and one action for each way through the code:

| action | code |
|---|---|
| `Receive` | the shell's call of `handle_request`, the first time or again |
| `Unresolvable` | `validator.validate(req)?` returns `Err` (`validator.rs:85`) |
| `Abstain` | the `None` arm (`validator.rs:89`) |
| `Score` | the `Some` arm up to `store.put` (`validator.rs:90-91`) |
| `OpenEvidence`, `OpenFails` | `create_dir_all` and the open in `fs::write` (`store.rs:107-109`), with its `?` |
| `WriteEvidence`, `WriteFails` | the write in `fs::write`, with its `?`: a failure leaves a prefix behind |
| `Submit` | the returned `Respond` and the shell's call (`validator.rs:92-98`) |
| `Crash` | the process dies; in the middle of a write it leaves what `Torn` says |
| `Reconfigure` | a restart with another key or policy |
| `WriteBack` | the kernel writes one file back, whenever it likes |
| `PowerLoss` | the machine stops; each file that is not on the disk is gone, empty, what the disk had, or torn |

`Torn` needs a word. It says what a write leaves that stops half-way. Over an
empty file that is text that does not parse, or the whole bundle. When another
worker wrote in between, it is the old text with the first part of the new one
over it, and `Splice` lists where the cut may fall: before the binding, after it,
in, between or after the signer and the signature, which are of fixed length,
with `Garbled` for a field cut in its middle. A cut inside the binding shows only
where the two texts differ, and is then taken for text that does not parse.
`Torn` takes any two bundles. That the files it meets hold bundles of
*one* binding is no part of it: it is what `ContentAddressed` says.
`PowerLoss` uses the same `Torn` for a file that was partly written back;
a write in progress at that moment is the action `Crash` before it.

`Slice` lets the program be run again (`Rerun`) with other keys and another order
of its maps, and `seen` remembers one earlier capture, so that the digests of two
runs can be compared. `XvmDemo` re-executes the first delivery once and keeps the
report in `benign`, because the self-check at the end re-executes the same
specification.

What the producers owe is stated once, in `ProducerContract`: what each
reconcile verdict means (`src/seam.rs:79-94`) and that the level of a screen is
that of its worst finding (`SEAM.md`, slot 2). The properties about the world
rest on it; the gate's do not. The demo and the slice add what they rely on about
their own transactions: Custos flags an unlimited approve that goes through
(`FlagsBackdoor`, `DefaultBank`), and a delivery that probatio verifies has the
recipient and the amount of its specification (`Reexecutes`).

`ValidationSeat` has no workers, files, keys or faults: the fate of each request
(what checking it yields), the URIs at which evidence was put, the responses, and
the requests abstained on. A response must be a true row of the table, point at
evidence put before, and share that evidence only with responses that tell the
same story. The mapping in `ValidatorService` takes a request's fate from its
execution (`FateOf`), the pinned URIs from the names of the files, and each
response from its story (`Story`): the threshold is read from the binding that
its hash commits to. All of validation, truncation, writing and crashing maps to
stutters; a first `OpenEvidence` pins, `Submit` responds, `PowerLoss` may lose.

## 3. The runs

| run | instance | shows |
|---|---|---|
| `gate` | one leg, two accounts, two findings, amounts 0..2; every order and combination of damage | `EveryDefectIsReported`, `CleanSettleIsFullyBound`, `NoSilentRelease`, `ReasonsAccumulate` |
| `pipeline` | one worker, one request, every execution over amounts 0..2, two recipients, four screens that the contract allows | `TypeOK`, `GroundedPass`, `FlagshipNotWeaker`, `TagNamesTheCause`, `SilentWhenUnchecked` |
| `service_faults` | two workers, two requests for one claim, three operators (two keys, one of them with two policies), four executions; crashes, failed writes, restarts as another operator | `ContentAddressed`, `AcceptedBundleIsWhole`, `SilentWhenUnchecked`, `AcceptedDecisionIsTheirs` |
| `service_policies` | two workers, two requests for one claim, two policies; crashes, policy changes | `GroundedPass`, `ReaderNeverMisled`, `ConflictingScoresExplained`, `ImplementsSeat` |
| `service_live` | two workers, two requests, no faults, fair workers | `EvidenceNeverStranded`, `RequestsAnswered`, `EvidenceComesBack` |
| `service_heals` | two workers, one request, two keys, every fault with loss of power, fair workers | `AcceptedBundleIsWhole`, `EvidenceHeals` |
| `slice` | both scenarios, any number of runs; three keys, four snapshots or none, two verdicts | `TypeOK`, `DigestIdentifiesPoststate`, `PhaseOneSettleIsHonest`, `ThePitch` |
| `demo` | both builds, every scene, every report the contracts allow over amounts 0, 24, 25 | `TypeOK`, `OnlyBenignSettles`, `SettledIsHonored`, `ExitAgreesWithStory` |
| `crash_strands`, `rekey_resigns`, `reverted_unscored`, `mismatch_tag` | smaller instances | the divergences of section 5 |

Why the bounds are enough to be interesting:

- two requests with *one* claim put both workers on one file, the only state they
  share; files of different bindings never meet. Two workers are what it takes
  for one to write between the other's truncation and write;
- amounts 0, 1 and 2 have a wrong amount on each side of the right one, so the
  saturating subtraction saturates, and a missing amount is expected as 0;
- a level below, at and above the threshold, with the worst finding alone or
  with a lesser one beside it; in `gate` also a level that no finding explains;
- the fixed corpus of the service runs has one execution of each kind: settled,
  half-open, substituted, neither leg executed, unverifiable, reverted under the
  replay, each under each screen. `service_faults` takes one for each way through
  `handle_request`: PASS, FAIL, abstention, error;
- its three operators make two workers write files that share a binding and
  differ in their signer, and files that differ in their policy: were they under
  one name, a splice could carry one operator's name on another's policy;
- `service_heals` has one request and two kinds of execution, one that is scored
  and one that is not: the evidence root sees no other difference. Both keys stay,
  so that one signer's file is torn over the other's;
- the snapshots of `slice` differ from one another in one field each, and the data
  `<<1, 1>>` next to an account that is gone reads like other accounts if its length is
  left out; three keys in any order put each role before and after each other;
- the amounts of `demo` are the claimed 25, the 0 of the half-open scene, and 24,
  one short.

`Workers` are symmetric where the run has no liveness property. Deadlock is
checked everywhere but in `gate`, whose environment ends when there is nothing
left to damage, and in `demo`, whose program exits. No counter needs a bound: the
state is finite because the sets are.

### Fairness

`FairSpec` has weak fairness of each worker's `Step`, that is: once a request is
taken up, `handle_request` goes on. It is straight-line code without a lock or a
loop, so it does. Nothing forces a request to arrive and nothing forces a fault.
`RequestsAnswered` and `EvidenceComesBack` need no more, since a worker that is
busy takes up no further request until it is done. `EvidenceComesBack` holds
although requests may be delivered again for ever: each truncation is followed
by a write of the worker that made it.

`EvidenceHeals` is conditional and says so: *if* the disturbances end, and *if* the
request keeps being delivered (the shell's retries and rescans, which the code
cannot force), the evidence behind its responses comes back and stays but for
rewriting. Its instance has one policy: evidence under a policy that nobody uses
any more, once lost to power, is not rebuilt by the code, whatever is delivered.

## 4. The proofs

TLC checks small instances; TLAPS checks the following for every set of workers,
requests, claims, executions, operators and faults.

`Gate_proofs`: `CrossVmSettlesExactlyWhenSafe`, `CleanSettleIsFullyBoundAlways`
and `TighteningNeverReleases` characterise both forms of the gate.

`MCGate_proofs`: the four properties of the `gate` run for every decay, from the
invariant `GInv`: the types, and that each remembered defect is still in the
proof or the verdict, unless the facts it was about are no longer recovered.
`defects` is history, and a reason can be expected only of what the gate can see.
`EveryDefectReported` and `CleanSettlesAreFullyBound` follow from it;
`ReasonsOnlyAccumulate` and `NothingReleasedInSilence` compare the decision before
and after each step, by way of what a step does to each family of reasons. The
second allows one step from a hold to a settle, `ForgetFacts`: a wrong amount that
was held may be released once the leg's facts are caller-asserted and so compared
with nothing (`decide.rs:128-137`). What settles at that step does so under a policy
that allows it and has the caveat and no other, and no later step takes it back.

`ValidatorService_proofs`: `Spec => []IInv` for an inductive invariant, and from
it all the state invariants of the fault runs: `TypeOK`, `ContentAddressed`,
`GroundedPass`, `TagsNameTheCause`, `SilentWhenUnchecked`, `ReaderNeverMisled`,
`AcceptedBundleIsWhole`, `FlagshipNotWeaker`, `ConflictingScoresExplained`; all but
`AcceptedDecisionIsTheirs`, for which see `Evidence_proofs`.

The properties speak of `landed` and `files`; neither is inductive alone. A
response lands from a task that computed its bundle two steps, or a policy
change, earlier; a torn write may keep a signer from the bundle before. So `IInv`
says, besides the types:

- `TaskInv`: a task past the screen holds the binding of its request's execution
  under *some* operator's policy, with a score, and once it has opened its file,
  the file exists;
- `FilesInv`: each file's name is the digest of such a binding;
- `ContentAddressed`: each file that parses has the binding that its name says.
  This carries the torn writes: it is why every splice is of bundles of one binding;
- `DiskInv`: the same of what is on the disk, for the time after a loss of power;
- `LandedInv`: each response is what such a binding implies;
- `AbstainedInv`: an abstained request's claim is unverifiable, whatever the policy.

The proof has one lemma for each action; storing is shared
(`PinningKeepsOrder`, `StoringInv`). Each property then follows from `IInv` in
two steps: `LandedFacts` says what the response's binding is, `LandedMeaning`
what its score says of the execution by the producers' contract.

`Seat_proofs`: `ServiceImplementsSeat`, the refinement, for every set of workers and
faults. Each action maps to one step of the seat or to a stutter; `StoriesHold`
derives from `IInv` that every response is a true row and that responses with one
URI tell one story, because the URI is the digest of all they say.

`Evidence_proofs`: `EvidenceStays`, that is `EvidenceNeverStranded` where
`Faults \subseteq {"rekey"}`. The invariant `EvidenceInv` says of *every* file,
landed or not, that it is whole or being written, and of every response that its
file exists. `crash_strands` shows that the assumption cannot be dropped.

The module also proves `AcceptedDecisionsAreTheirs`, under every fault and for any
keys and policies: evidence that verifies under a key is a decision made under a
policy that an operator with that key runs. A torn file may name one operator
over the signature of another. `AuthorsInv` says of every bundle, on the disk
too, that its signer is garbled or the key of an operator that runs the policy in
its binding. `TornAuthors` keeps it through every splice: whichever signer
survives, both bundles have one binding, by `ContentAddressed`, and so one policy.
`rekey_resigns` shows what this does not say: that the signer behind
one URI stays the same.

`Poststate_proofs`: `SortForgetsTheWalk` and `DigestIsThePoststate`, for any set of
accounts, whatever they hold and however the maps are walked. Both are inductions
over data. The library's induction theorems take an operator as a parameter,
which no prover here can instantiate; the proofs go by way of a least
counterexample instead (`LeastElement`, from `WFMin`, whose parameter is a set):

- an ascending sequence of a finite set exists, since the least element put before
  the rest sorted is one (`CanSort`), and is unique, since two that part at a
  first place would lose an element there (`AscendingIsUnique`);
- the hashed text is the concatenation of the parts up to each account
  (`FlattenGrows`, which also shows that the library's recursive function is
  defined), and what was hashed is never changed by what follows (`HashedStays`);
- no part is a proper prefix of another, which needs the tag byte and the length
  before the data (`EncodeIsPrefixFree`). Two equal texts therefore have equal
  parts, one after the other (`UniquelyDecodable`), and an account can be read
  from each part.

`Slice_proofs`, for all keys, snapshots and verdicts: `PhaseOneIsHonest` and
`DrainerNeverSettles` (`LinesInv`: each line on the screen is honest);
`DigestIsReproducible`, the digest theorem applied to what two runs capture
(`CapturesInv`: each capture is the proof of *some* outcome over *some* walk of a
finite set of keys); `ThePitchHolds`, which needs that sorting loses no account,
or the benign transfer would be held for a coverage gap; `SliceTypeCorrect`.

`XvmDemo_proofs`, for all reports that keep the contracts: `BenignAloneSettles` and
`SettledScenesAreHonored` (`StoryInv`: a scene that settled is the first, and its
report has what the settle claims); `ExitTellsTheStory` (`ExitInv`: `benign` is the
report that the first line was decided on, so that the self-check and the screen
speak of one reconciliation); `DemoTypeCorrect`.

Assumptions, all named and evaluated by TLC in the runs: `AmountAssumption`
(amounts are naturals, with 0), `AccountAssumption` (an account is the number
that its key's bytes are, which is how keys compare), `GarbledAssumption` (a
mangled field is no key),
`ExecutionsAssumption` and `DemoAssumption` (the producers keep their contract),
`ServiceAssumption` (the types of the other constants, and that a machine that may
lose power has processes that may die), `SnapshotsAssumption`,
`VerdictsAssumption` (types).

`EvidenceStays` has one more hypothesis, stated in the theorem; the run
`crash_strands` shows what happens without.

Every safety invariant and action property of the passing runs is a theorem,
`EvidenceNeverStranded` under the faults of its run. Only model-checked are
`RequestsAnswered`, `EvidenceComesBack` and `EvidenceHeals`: they rest on weak
fairness, and so on `ENABLED`, which the prover does not support.

## 5. Where code and documents disagree

- **A crash strands published evidence** (`crash_strands`). `put` rewrites a
  published bundle in place. Processing a request again is called safe
  (`STAGE_ERC8004_VALIDATOR.md:325-326`) because the *response* is not posted
  twice; the evidence is truncated all the same, and a crash leaves it so until
  somebody processes the request once more.
- **The URI changes its signer** (`rekey_resigns`). `store.rs:19-20` says that
  the URI cannot silently point at different evidence. The hash covers the
  binding, not the signer: after a key rotation, the same URI serves a bundle
  that a reader who pinned the old key rejects.
- **Reconciled work without a score** (`reverted_unscored`). A half-open
  settlement whose delivery fails under the replay, or has no decodable token
  account, ends as `Unresolvable` and gets no score, where the table of the stage
  document promises 0 and "half-open". It needs a producer that reports a
  reverted delivery as not executed, as the seam defines `executed`.
- **The tag of an empty settlement** (`mismatch_tag`). `erc8004/mod.rs:48`
  reserves "mismatch" for two executed legs; the verdict, and so the tag, also
  covers none (`src/seam.rs:89-91`).

One gap is no contradiction and has no run: the demo's self-check
(`src/bin/xvm_demo.rs:168`) reconciles the first delivery anew and looks at no
decision. `ExitAgreesWithStory` states how far the exit code can be trusted: 1 means
that nothing settled, and 0 means that the first delivery settled *or* that the
live screen alone held it.

## 6. Not modelled

- The text of reasons and messages, JSON and hex: no property is about them. The
  stability of `serde_json`'s encoding is guarded by a golden vector in the tests.
- probatio-xvm, Custos, revm, LiteSVM: other repositories. Their contract is an
  assumption.
- The alloy shell beyond what `validator.rs:13-16` says of it: it is not written.
  That includes the comparison of `requestHash` with the payload it commits to.
- `MemStore`: an insert into a map that one owner holds. It backs only tests.
- `web/`, the `adapters/mod.rs` registry, `lib.rs`: declarations and a static page.

## 7. Plan

Done: every component with behaviour of its own, the refinement of the seat, and
the proofs of section 4.

Next:

1. the transport shell (cursor, confirmations, the check of D5, the request hash),
   once it is written;
2. a run for the self-check of the demo, if its documentation comes to promise
   more than the first reconciliation.
