# Verification of resilio

TLA+ models of the parts of resilio whose correctness depends on the order in
which things happen, the TLC configurations that check them on small instances,
and TLAPS proofs of the properties for every value of the constants.

Check a model with `tlc -config <run>.cfg MC<Module>.tla`, the proofs with
`tlapm <Module>Proofs.tla`. `PROJECT.json` lists the components, the runs, the
mutants each property is known to detect, the lines of source each definition
stands for, the hazards and the theorems.

## 1. The system

resilio is two things: a small data path that records what was deployed, and a
set of GitHub workflows with Python helpers through which the project changes
its own cloud resources. Both are sequential programs that talk to shared stores
over an unreliable network; neither holds a lock across two calls. What can go
wrong is therefore between calls.

### 1.1 Inventory

| component | state it keeps | operations | what is hard |
|---|---|---|---|
| ingest (`services/resilio_app/server.py`, `core.py`) | none; publishes to Pub/Sub | POST `/v1/deployments` | publishing takes effect and the answer is lost; clients retry |
| processor (same files, `provider.py`) | Firestore: one document per event, one per rejection | one push delivery per request | duplicate, reordered and concurrent deliveries; four calls per delivery, each may fail before or after its effect; the instance dies |
| read API | none | GET `/v1/deployments/<id>` | serves a document while the processor works on it |
| change comparison (`change_comparison.py`) | none | `compare_deployments` | pure |
| Phase 4 build (`phase4-build*.yml`) | Cloud Build builds | list, reuse or create | list-then-create |
| Phase 4 evidence (`phase4-evidence*.yml`, `phase4_acceptance_lifecycle.py`, `phase4_evidence_recovery.py`) | comments of issue 28; create-only objects in the evidence bucket | adjudicate, accept once, SBOM, manifest | one-use acceptance recorded in an append-only issue; re-runs; late POSTs; two objects, not one |
| Phase 4 deployment and revision transition (`phase4-deploy*.yml`, `phase4-revision-*.yml`) | comments of the authority issue; the service `phase4-proof` and its operations | consume authority, preflight, one POST or PATCH, poll, verify | a mutation whose answer is lost; stale etag; the owner acts by hand; the verifier runs whatever happened |
| Phase 4 reconciliation (`phase4-deploy-reconcile*.yml`) | none | read and compare | - |
| Phase 5 build, evidence and release record (`phase5-build*.yml`, `phase5-evidence*.yml`, `phase5_supply_chain.py`, `phase5_build_select.py`, `phase5_release_record.py`) | comments of issue 109; builds; create-only objects | initiate once, reuse or create, reconcile, write SBOM and release, publish | ambiguous create; initiation record that outlives its run; unserialised evidence runs |
| Phase 5 product deployment and verification (`phase5-deploy*.yml`, `phase5-verify*.yml`, `phase5_supply_chain.py`) | comments of issue 109; three services | consume authority, create three services in a row; read them back, publish the routing binding | partial creation; late comments and requests; an unserialised verifier that reads one service at a time |
| Phase 5 acceptance (`phase5-acceptance*.yml`, `phase5_acceptance_fixture.py`) | none; a client of ingest and API | submit, poll, replay | at-least-once delivery without a bound; unserialised runs that submit one event |
| foundation Terraform control (`terraform-*.yml`, `terraform_control*.py`, `terraform_drift.py`) | Terraform state object, write-once plan evidence, pull requests, drift issues | plan, apply, report drift | re-runs of any job; main and the state move between plan and apply; lost runners; an issue is searched, then created |
| Phase 5 product Terraform control (`phase5-terraform-*.yml`, `phase5_terraform_control.py`) | Terraform state object and lock, write-once plan evidence, pull requests, routing bindings in issue 109 | plan, apply | unserialised runs; head, main, state and bindings move between plan and apply; lost runners; partial applies; changes by hand |
| Phase 5 Slice C recovery (`phase5_slice_c_recovery.py`) | write-once claim, chain of attempt claims in comments, terminal records | claim, attempt, repin, observe, terminate | one-shot claims and crashes; claims chained through comments |
| federation smoke, validators, infra declarations, phase4-proof | none | - | static |

How they interact: ingest -> Pub/Sub -> processor -> Firestore -> API; build ->
evidence -> deployment -> verification, each stage reading what the previous one
left in an issue or a bucket; plan -> merged pull request -> apply, joined by a
write-once evidence object. The owner is an actor everywhere: it writes the
comments that give authority, merges pull requests, re-runs failed jobs and may
change the service by hand.

### 1.2 What makes each part correct

- Data path: nothing is acknowledged that is not on record; each deployment has
  one recorded payload for ever, the first; a message is not both recorded and
  rejected; every message settles in the end.
- Evidence: an image with HIGH findings has evidence only under an owner's
  acceptance of exactly that build and those findings, consumed by one run; the
  manifest names the SBOM that is stored.
- Deployment: an authority is spent by one run and permits one request; the
  request, however late, replaces only what the envelope names; what is
  recorded as verified is the run's own; a failure reported as known is final.
- Terraform control: what is applied is what was reviewed, onto the state it
  was reviewed against.
- Build and release: one build per commit and control, whatever is lost or run again;
  a reused build is a successful one; one release per commit, of findings that passed.
- Product deployment and acceptance: an authority is spent by one run; the services are of one
  run and so of one release; what a routing binding says holds; the product is accepted once,
  from the message of the run that says so.
- Drift: one open issue per fingerprint, but for posts stored after their run has failed.
- Recovery: attempts in order, each after the last was seen without effect; an
  effect only of what was merged as reviewed; what was seen complete stays; one
  recovery run per dispatch authority, and only after the effect.

## 2. Modules

| module | role |
|---|---|
| `ObservationLedger` | abstract: a first-write-wins ledger of offered messages |
| `ObservationPipeline` | ingest, Pub/Sub, processor, Firestore and API, one action per provider call |
| `OneUse` | abstract: a token spent by one run, whose effect takes place at most once |
| `HighAcceptance` | Phase 4 evidence: adjudication, acceptance, consumption, SBOM, manifest |
| `CloudRunDeployment` | Phase 4 create and revision-transition workflows against issue and provider |
| `ProductTerraform` | Phase 5 product Terraform plan and apply runs against repository, evidence, state, lock and resources |
| `FoundationControl` | foundation Terraform plan, apply and drift runs in one concurrency group, with re-runs, against repository, evidence, state, lock, resources and issues |
| `ProductRelease` | Phase 5 build and evidence runs against issue 109, Cloud Build, the findings and the evidence bucket |
| `ProductDeployment` | Phase 5 deployment and verification runs against issue 109, the services and their policies |
| `ProductAcceptance` | Phase 5 acceptance runs as clients of those services and of the ledger the pipeline implements |
| `SliceCRecords` | Slice C recovery: the record of comments, reviews and merges, and what its validators accept |
| `SliceCRecovery` | Slice C recovery: executors of the locked effect, observers and recovery runs over that record |
| `*Proofs` | the theorems about the module of that name |
| `MC*` | the constants of the TLC instances |

In all of them one action is one call of the code to a shared store, with
everything the code computes up to the next call: between two actions anything
else may happen. Hashes are injective and are represented by what they are the
hash of. In the Phase 4
modules GitHub comments are only added, never edited or deleted: that is an
assumption about the owner and the bot, the only ones who could. `ProductTerraform`
does not need it and lets them change.

### 2.1 ObservationPipeline

A message is what Pub/Sub carries: its event, its content, the form its bytes
have (canonical, valid but not canonical, invalid) and whether its attributes
match. `Canonicalised` is `validate` and `jcs` of `core.py`. `PermanentFailureOf` is the
chain of checks of the processor in the code's order. A handler is one request
of the threaded server: its `pc` says which provider call is next, and it holds
what the Python frame holds. Each provider call has an action for a normal
answer and, for a write, one for taking effect and losing the answer; `Fail` is
a call without effect, a 503 or a dead instance, at any point. A redelivery may
come in another byte form, because the rejection document holds the hash of the
raw request. Publishers other than ingest are the constant `Others`. A push body over `MAX_PUSH_BYTES`
is answered 413 before it is read (`server.py:175`) and delivered again for ever; that no message of the model is that
large is part of what `EveryMessageSettles` assumes.

### 2.2 HighAcceptance

A run is a workflow run with its stage and the outputs its jobs pass on. The
comment POST has three actions: it is stored, it is lost, or it is stored
later (`PostLate`, `LateArrival`), after the run has read the comments again and failed.
`RerunFailedJobs` starts at the failed job with the old outputs, `RerunAllJobs` from the
beginning; the run id is the same, as in GitHub. `Available` and `ConsumedBy` are the
verdicts of `phase4_acceptance_lifecycle.py` over all comments, including that
one unparsable comment stops everything. Objects in the bucket are
create-only. The constant `Exclusive` switches the workflow's concurrency group: the proofs
are for both, and the run leaves the group out, which only adds behaviours.

### 2.3 CloudRunDeployment

Both workflows have the same shape and share the module; the envelope of a
release says which one it is. A revision number stands for revision name,
generation and etag. A mutation request that gets no answer is in `flying`
until it takes effect, at any later time or never; if it does, the create
requires that no service exists and the update that the etag is still the one
seen. `OwnerDeploys` is a change by hand. The verifier job runs whatever the deployer
did and can be re-run. Concurrency groups are left out: they only remove
behaviours and no property needs them.

### 2.4 ProductTerraform

A candidate file names a stage (empty, base, routing) and assembles to a
configuration (`Config`); a resource is absent or has the declared, a changed or
a routing configuration. Serial, generation and version of the state object move
together. A plan run reads the metadata (`ReadMetadata`), then the state
(`PullState`), plans, and reads both again (`Recheck`) before it uploads the
effect under pull request and head. An apply run of a merged pull request
downloads the evidence the owner names, initialises the backend, which creates
the state object if there is none (`InitBackend`), plans, compares its whole
effect with the evidence, and applies the plan it saved, which Terraform refuses
if the state has moved. `EndApply` may do part of the plan; `LoseApply` also leaves
the lock and may not have saved what it did; a run keeps both in `created` and `saved`. A
resource that is there cannot be created again, but enabling a service that
is enabled succeeds (`Idempotent`, the `google_project_service` addresses; `Succeeds`). Commits, pushes, merges (with or
without a conflict in the candidate), comments and changes by hand happen at any
time. Runs are in no concurrency group, as in the callers. A run that fails is
forgotten; the workflows refuse every attempt but the first.

### 2.5 FoundationControl

The older sibling of `ProductTerraform`, with other rules. A run is queued by a trigger
(`Trigger`), waits until no run of the group is active (`Start`), and starts at one of its
jobs: the select job finds the pull request, the trusted job binds candidate
and state, the report job of a drift run writes the issue. No job looks at its run attempt,
so any run that is over may be run again from any of its jobs with the outputs
of the jobs before (`Rerun`, `Ended`). A plan run and a drift run read state and metadata again
after planning (`Recheck`); an apply run does not, and relies on the version of the
plan it saved. A plan run writes its effect under pull request and head; an apply run
downloads it, plans afresh and compares the two effects (`Reviewed`). `Material` is the whole
of what may be applied: the sentinel alone, or the Phase 4 resources beside an
unchanged sentinel, created. The report lists the open issues
(`ListIssues`) and creates one, or comments (`Report`), in another call, whose answer may be
lost; the run may also fail before GitHub has stored the issue, which is then stored at any later
time or never (`ReportLate`, `late`, `LateIssue`). `issues` keeps of each issue whether it is
such a one. What `Succeeds` says of services is as in `ProductTerraform`. The mode that initialises
an empty state has no caller in the repository; its result is one of the initial states.

### 2.6 ProductRelease

A build is named by the run that asked for it. A build run resolves main, reads the
initiation records of that commit and either finds one, whose run must have succeeded
(`JudgeInitiator`), or posts its own and must then find it alone (`VerifyInitiation`); only then may it
create. A record whose POST had no answer may be stored at any later time (`StoreLate`), and a
create request without an answer may take effect at any later time or never (`TakeEffect`).
A successful run that is run again is refused at the check of its attempt and
counts as failed from then on, which is what `Fail` of a run that is done means. The
records, requests and tags of another control never match, so there is one
control. A record of the right form by another author, and one of the wrong form,
stop every run that reads them; that is a case of `Fail`.

An evidence run is dispatched with the id of any build and is in no group. What two
evidence runs make of one build differs in the SBOM, whose document
carries the time it was made, and in the findings they read. Both objects are
write-once (`Writable`, `UploadRelease`).

### 2.7 SliceCRecords and SliceCRecovery

The recovery replaces one member of a workload identity binding, `Old` by `New`, and then
compares the product state once. `SliceCRecords` is what the owner and the
observer write down for it: the merges of the control and of the activation with
their reviews, authorities and records, plan reviews and authorities, claims,
observations, terminals and the dispatch authority. It is one sequence, `log`, in
the order of creation. A comment that names another by id and digest names its
number; its own time is its number too, since the validators compare times only
to order entries, except for the minute between two observations, which is `clock`.
A pull request is a head, a base and the set of changes in its tree, so that a
merge after another pull request has a tree nobody reviewed. The validators are
operators over the first `n` entries, because a command reads the comments once
and judges them later: `EffectReady` is `verify_c5_wif_repin_pre_effect` of a posted claim,
`TerminalHolds` and `Chain` are the terminal validator and the chain of claims it asks for, which
asks for the terminal of the generation before, and so on down to generation 1;
`DispatchValid` is what a recovery run accepts. They ask GitHub for the current attempt of
an observer's run when they run, not when the comments were read; so does the model.

Actions of the owner post any entry that the validators could be asked about,
right or wrong. Entries that are refused by their form alone are left out: edited
comments, comments of another author, a digest of something else.

`SliceCRecovery` has the processes. An executor reads main and the comments
(`ReadRecord`), the state and the binding (`MatchState`), the lock and the recovery objects
(`CheckAbsent`), the active runs (`Verify`), and applies with Terraform's lock (`BeginApply` to
`EndApply`), failing or lost after each step. A claim may be executed more than once, by
commands that do not know of each other. An observer takes its time first and then
five readings, each an action. Nothing re-reads main between the reading of main
and that of the comments, so those two are one action; the recovery run's readings of
the product state, its plan and the second reading are one too (`CompareProduct`), because no other
action of the module touches the product state. The answer of a write-once upload may be
lost, after which the run fails.

### 2.8 ProductDeployment and ProductAcceptance

A deployment run binds release and authority and finds the authority unspent (`Start`), posts its
consumption (`Post`: stored, stored later, or lost), looks for its own comment
(`VerifyConsumption`) and again in the second job (`Rebind`), finds no service (`CheckAbsent`, three
times), and then three times creates, polls the operation and reads back (`CreateAccepted`, `Poll`,
`ReadBack`). A create request that has no answer or a 5xx is in `flying` and may take effect at
any later time (`TakesEffect`), if the service is not there then. The D.5 transaction of Slice C is external
here: the owner gives each service its policy (`Grant`) and a run records it and may yet fail. A
verification run reads service, policy and revision of one service after the other and posts
the binding, whose answer may be lost. Authority comments name one release each, and
no two releases share an image.

`ProductAcceptance` extends that module with the acceptance runs. The services answer while
they are ready and have their policy (`Answers`). The pipeline between ingest and API is what
`ObservationPipelineProofs` shows it to be, the ledger: any message published may be the one recorded
(`Deliver`), once, at any time or never. The content is always the reviewed event; a run's two messages
differ in their ids, which is what the read-back compares. The thirty polls
are giving up at any time (`FailAcceptance`).

## 3. Runs

| run | instance | shows |
|---|---|---|
| `pipeline_safety` | 1 event, 2 contents, 2 messages, 2 byte forms, 2 handlers; any message may be published | the safety properties and the refinement of `ObservationLedger` |
| `pipeline_liveness` | 1 handler, 1 byte form, 1 malformed message | every message settles |
| `high_acceptance` | 2 runs that may overlap, 2 builds, 2 finding sets, 4 comments | evidence is authorised and names the stored SBOM, one run per acceptance, refinement of `OneUse` |
| `cloud_run_deployment` | 2 runs, one create and one update release, 4 comments, 2 changes by hand | the deployment properties, refinement of `OneUse` |
| `product_terraform` | 3 runs, 1 pull request, 3 commits, 1 comment, 2 releases, 2 base resources, one of them a service, no changes by hand | the effect of one evidence is saved by one run, and other runs that applied some of it were lost before they saved any; routing to verified addresses only |
| `product_terraform_by_hand` | 2 runs, 1 pull request, 4 commits, 1 base resource, a service, that is also changed by hand, no comments | evidence about one state, applied as reviewed, nothing destroyed |
| `foundation_control` | 2 runs, 1 pull request, 3 commits, 1 Phase 4 address, a service, 2 issues, 3 attempts or changes by hand | an apply creates what was reviewed of the state that was reviewed, one open issue per drift but for posts stored late |
| `product_release` | 3 build runs, 2 evidence runs, 2 commits, 2 changes of findings | a commit is built once and released once |
| `product_acceptance` | 2 releases with an authority each, 2 deployment runs, 1 verification run, 2 acceptance runs, 1 deletion by hand | an authority is spent once, the services are of one run, a binding holds, one acceptance |
| `slice_c_recovery` | 2 generations, 2 executors, 1 observer with 2 attempts, 2 recovery runs, up to 3 observations | attempts in order, effects authorised and settled, one recovery, refinement of `OneUse` |
| `no_mutation_confirmed` | 1 run | finding, see 6 |
| `create_failed_known` | 1 run | finding, see 6 |

Bounds. One event is enough because events share nothing but messages, and a
message has one event. Two messages are a duplicate or a conflict; two handlers
are an interleaving, and a third delivery is a redelivery after one of them has
answered. Two runs are a race; four comments are two authorities and what two
runs or the owner write. `MaxMain` and `MaxRevision` bound how often the outside
world moves: once is a stale read, twice is a change and a change back.
Three Terraform runs are a plan and two applies of it; four commits are main, two
heads and a merge; `MaxVersion` lets the state be written three times, which is a
creation by `terraform init`, an apply and a write between two readings. Commits and runs are
interchangeable, which `Symmetry` uses in the two Terraform runs.
In the foundation run `MaxEvents` bounds attempts, changes by hand and closed issues together:
three are a plan, an apply and a re-run of either or a change between them; two reports of one drift are
two, and two issues are its own and a late one. The constraint
`MayRun` cuts states in which nothing runs, no attempt is left and no post is on its way; from them only the
repository and the resources can move, which breaks no property. Three commits are the
first, a head and a merge; that main moves on after the merge and an apply is
then refused needs a fourth and is left to the proof. Runs and issues are interchangeable.
Three build runs are a record stored late, the next run's own, and a third that
reads both; two evidence runs and two changes of findings are a race over different
findings. Runs are interchangeable.
Two deployment runs are one that fails midway and one that checks and creates while
the first one's comment and requests are still on their way; two releases tell their services apart;
two acceptance runs have four messages that race for one record. One
deletion by hand makes a second deployment possible, which the three properties that
assume none then leave open. Runs are interchangeable, and releases with their authorities.
In the Slice C run the record has 17 entries before a second generation can be
claimed, so that all orders of all entries are out of reach. `Smooth` is the record of two
merges as they should be and of a first generation that ends without effect;
`Limit` bounds the entries of each kind, the executors and the active observers by how long
the record agrees with it. Before its first difference the record is `Smooth`; from there
on everything is explored that the bounds allow at that point. Differences in the
merges get two or three merges, two heads of each pull request and one claim;
differences at the first attempt get two executors, every outcome and a dispatch;
those after the first observation get a re-run, a second generation, doubled claims
and reused reviews; and a second generation as it should be gets two executors,
three observations, two terminals and a dispatch. Executors and recovery runs are
interchangeable.
The proofs hold for every value of these bounds, in the modules that have them.

Deadlock checking is off in the three Phase 4 deployment runs, in the foundation, release and
acceptance runs and in the Slice C run: when all runs are over and the bounds used up nothing is left to do; a
deployment run whose workflow ended, with all comment ids used, has no further
step, and neither has a record that is full.

Fairness is used in one run. `FairSpec` assumes that Pub/Sub keeps redelivering what is
not acknowledged (the push subscription's retry, which has no dead-letter topic;
after its retention of one day Pub/Sub drops a message, which is left out), that a
handler goes on until it answers (the server has no wait of its own and every
provider call has a timeout), and that no provider call fails for ever; the last
needs strong fairness per call, since a failure sends the message back to its
first call. One byte form is assumed there: a redelivery in another form of a
rejected message conflicts with the rejection on record and is not acknowledged
by the code, which the safety run explores.

## 4. Proofs

All theorems are of the form `Spec => []Inv`, an action property, or a
refinement, for every value of the constants allowed by the modules' named
assumptions: that `None` differs from every value, that the given data have
their types, for the pipeline, that message ids and request hashes are
different kinds of rejection ids, and, for Slice C, that `Old` and `New` differ, that a
pull request can have a head and a run an attempt (`MaxHead` and `MaxAttempt` are at
least 1), and that there is a serial after the first.

- `ObservationPipelineProofs`. The inductive invariant adds to the properties what each
  request relies on between two calls (`RequestInv`: when a handler is about to
  reconcile, the document it found still exists; when it is about to reject,
  the reason still holds) and that every rejection on record is the one its
  message and bytes call for (`RejectionInv`). The key lemma is that documents are never
  changed once created, so a verdict that was right stays right. Theorems: type
  correctness, `AckedIsDurable`, `RecordHasItsMessage`, `OneVerdict`, `SameBytesReconcile`,
  `ReceiptRefusedOnlyForConflict`, `AnswersNeverChange`, refinement of the ledger.
- `HighAcceptanceProofs`. `RunInv` says what a run's stage and outputs imply about the
  comments; `UseInv` that a verified use keeps its consumption comment. Two
  verified uses of one token each see the other's comment unless one came
  later, and the later one sees two. Theorems: type correctness, `OneRunPerToken`
  (without the concurrency group), `EvidenceIsAuthorised`, `ManifestBindsSbom`,
  `SpentIsUnavailable`, refinement of `OneUse`.
- `CloudRunDeploymentProofs`. `RunInv` as above, with the etag seen; `RequestInv` follows the request:
  sent at most once, flying only while it has no operation, its operation over
  what the envelope names. Theorems: type correctness, `SingleMutationAttempt`,
  `OneRunPerAuthority`, `ReplacesOnlyPrevious`, `VerifiedIsOwn`,
  `TransitionFailureIsKnown`, refinement of `OneUse`; and one that no run checks,
  `StaysWithoutEffect`: once a run's deployer is done, its request is not on its way and it has
  had no effect, it never has one. It is what the two findings leave true.

- `ProductTerraformProofs`. Two frame arguments carry it. No step undoes what a
  run has read: commits, merges and evidence stay (`Grows`), and the state only moves to a
  next version; and no step moves the state under a run that applies (`Kept`),
  because that run holds the lock. `PlanInv` says that a pulled state whose version
  is still the current one is still the current state, so that an unmoved
  generation makes the plan's prior state the pulled one. `ApplyInv` says that a run
  that applies holds the lock, was approved, and plans from the state as it is.
  If two runs had saved some of one evidence, the second would have planned to create
  what the first has put into the state (`SavedInv`, `SameEvidence`); and what a run has applied
  without saving any of it, it applied as a lost run (`BoundInv`).
  Theorems: type correctness, `EvidenceIsConsistent`, `CreatedAsReviewed`,
  `RoutingIsVerified`, `AppliedOnce`, `NeverDestroys`.

`AppliedOnce` says of two runs that applied some of one evidence, lost ones included, that one of
them was lost before the state had any of what it did. No less can be left out: such a run has not
moved the generation, so that after a force-unlock the same evidence fits another run, which then creates the rest
(and services that are enabled already). It is stated for `Editable = {}`: when the owner takes a resource out of the state
and the project by hand, the same evidence can describe the state a second time.

- `FoundationControlProofs`. Each action is looked at once for the run it moves (`GoesOn`: a run
  becomes a run that is in order) and once for what it does to the stores (`Grows`: commits,
  merged pull requests and evidence stay, and the state is only written under a later version).
  `BoundOK` ties an apply run to its merge and evidence, `PlannedOK` orders the versions of the
  pulled state, the plan and the current state, so that a plan run that finds the pulled version
  again has planned from it; `EvidenceInv` says that stored evidence is of one state. `OneActive` is
  what the group gives, and with `ListedOK` (no issue that was stored on time has the
  fingerprint a run has not found) it is all `OneIssue` needs: late posts only add issues the property
  leaves out, and `WorkflowIssues` and `RepositoryOpens` say so. `AppliesTheReviewed` holds without it.
  Theorems: type correctness, `AppliesTheReviewed`, `OneIssue`.
- `ProductReleaseProofs`. `BuildInv` follows a commit's initiation records: a record is
  only there of a run that started for that commit, a run about to create has
  seen its own record alone, and a request, pending or in effect, is of a run whose record
  is there and was alone when it was verified. A second run that could create would have
  verified its record alone as well; whichever verified later saw both. A build that is reused is
  one that was found, or that the initiating run had. `ReviewInv` says that a run past the SBOM
  names the stored one and that a stored release is of a successful build with findings that
  passed; two releases of a commit are then of one build and one SBOM, and are equal.
  Theorems: type correctness, `OneBuild`, `OneRelease`.
- `ProductAcceptanceProofs`. The concurrency group lets one deployment run be active (`OneActive`), and
  with the availability check nobody is under way with an authority another run holds a
  consumption of (`SpentOK`): two runs of one authority would have to overlap. `ServicesOK` says that
  whoever may still create a service, by its next call or by a request that has had no answer, has
  created all those before it; a create needs the service to be absent, so the services remain a prefix of
  one run. A ready service is not replaced, so what a reader saw of the services before still
  holds at the last (`VerifyInv`, `AcceptInv`). All this is under `deletions = 0`. The ledger keeps the first
  message it records, so two runs that complete would both have to own it.
  Theorems: type correctness, `AuthorityIsSpentOnce`, `OneRunServes`, `BindingHolds`, `AcceptedOnce`.

- `SliceCRecoveryProofs`. Entries of the record stay as they are (`Grows`) and name only what was on
  it before (`LogOK`), so what a validator has found of the first `n` entries holds for good, but for
  the attempt numbers of observer runs, which it asks for when it runs. An executor
  that may apply therefore keeps what `EffectReady` implied when it was verified (`Ready`): the merges
  were authorised (`AuthorisedBefore`), and there is an `n` of whose entries its claim is the one
  latest generation, with every earlier one closed by a terminal (`Preceded`). The model's
  `Transition` only ties neighbouring generations together; that reviews follow the
  generations is shown by looking at the least generation that would not
  (`ReviewsInOrder`, which rests on a least number of a set, `Least`, and needs no induction rule). Two
  admitted claims are compared in the longer of their two records (`ReadyInOrder`).
  `CloudOK` is what the lock and the saved plan give: whoever applies holds the lock over a state
  that does not have `New`, and when the state has `New`, so has the binding, alone, the serial is past
  that of the saved plan and an execution is done; so nothing applies again. `ObsOK` and
  `LogOK` carry this through the observation to the comment that tells of it, and
  `RecoveryOK` from the dispatch authority to the recovery claim.
  Theorems: type correctness, `AttemptsInOrder`, `EffectIsAuthorised`, `DispatchMeansEffect`,
  `SettledEffect`, refinement of `OneUse`; and two that no run checks: `OneEffect`, of all
  executions at most one completes the effect, and `RecoveryIsAuthorised`, which ties a spent
  recovery claim to the authorised merges before the claim of that one execution. They hold for
  any `Smooth` and `Limit`, thus also without those bounds.

Proved, but in no run: `OneVerdict` and `RecordHasItsMessage`, `SpentIsUnavailable`,
`OneRunPerAuthority` and `StaysWithoutEffect`, `OneEffect` and `RecoveryIsAuthorised`, and the type
invariant of `ProductTerraform`.

Only model-checked: `EveryMessageSettles` (liveness is
beyond the prover) and the two findings, which are violations.

## 5. Consequences of the design the models make visible

- A spent acceptance stays spent when its run fails afterwards; the owner has to
  accept again. This is the fail-closed side of `OneRunPerToken`.
- An SBOM stored by a run that then fails blocks the build's evidence for
  another run: the object is create-only and the manifest must name the run's own.
- A rejected message that is redelivered in different bytes is never
  acknowledged (`REJECTION_ID_CONFLICT`); Pub/Sub sends the same bytes, so this does
  not arise with it.

- An apply run that is lost after `terraform init` has created the absent state
  object, or that applies in part, leaves evidence no later run can match: the
  generation has moved, evidence is write-once per pull request and head, and a
  merged pull request is not planned again. The way on is a new pull request.
- The Phase 5 Terraform callers have no concurrency group, although
  `docs/terraform-control-model.md:185` says of the active callers that they use
  root-scoped queueing. `AppliedOnce` holds without one: the lock and the saved plan are enough for
  the effect of one evidence to be saved by one run.
- An apply run that is lost before the state has any of what it created leaves resources
  nobody manages and evidence that still fits the state. After a force-unlock another run may apply that evidence: it
  creates what is missing, fails at what is there (services excepted), and saves a part that no later
  run can complete under the same evidence. One evidence is then applied in part by two runs; the way on is an
  import by hand and a new pull request. The foundation control is exposed to the same.

- Foundation. A plan run that is run again after the merge, or is slow, would be refused by
  `verify_pr`; but between that check and its upload the pull request may be merged, so that
  the evidence the apply finds is one that nobody can have read before the
  merge. `docs/terraform-control-model.md` takes the evidence to be reviewed first; nothing enforces it.
- Foundation. An apply run verifies main once, before it authenticates, and reads state and
  metadata before its plan only. That a merge or a change in between does no harm is
  `AppliesTheReviewed`: the comparison of whole effects and the version in the saved plan carry it.
- Foundation. An issue that GitHub stores after its run has failed can be a second open
  issue of its fingerprint, when the next report listed the issues before. The report then refuses that
  fingerprint (`terraform-foundation-drift.yml:71`), in every later run, until the owner has closed one.
- Foundation. A drift run between a merge and its apply reports the pending change as drift.
- Release. A failed initiating run blocks its commit for ever, as the documentation says; so does
  running a successful one again, which turns its conclusion. A record stored after another
  run's was verified does too. The way on is a new commit.
- Release. An evidence run asks for no initiation: it takes any successful build, also one whose
  build run failed afterwards. That a commit is still released once follows from
  `OneBuild` and the write-once SBOM, which also means that an evidence run that fails after its SBOM
  leaves a build that can never be released.

- Product deployment. A deployment that fails after its consumption, midway or before, has spent its
  authority, and what it created refuses every later run (`CheckAbsent`): nothing in the code finishes or undoes
  it, and the owner has to delete services by hand. That is also where the guarantee ends: after
  a deletion a request still in flight may put a service of the failed run beside those of the next.
- Product deployment. `verify_deployment_consumption` looks for the run's own comment alone, where its
  Phase 4 counterpart refuses a second one. `AuthorityIsSpentOnce` holds all the same, but by
  the concurrency group: without it two runs may both find the authority unspent.
- Acceptance. Runs are not serialised and submit one event. When the first run fails, or its message is late, the
  record is of a message no later run can name, or the API no longer answers 404: the
  product can then never be accepted by this workflow, though it works.

- Slice C. An executor that was verified and then paused may apply after its claim
  was seen without effect twice and a later generation was claimed: nothing
  re-reads the record once `EFFECT_READY` was reached. The late-effect fence makes this unlikely, not
  impossible. What holds is that the lock and the saved plan let one execution
  complete the effect (`OneEffect`), and that whatever was seen complete is final (`SettledEffect`); the success a
  later generation records may be the effect of an earlier one.
- Slice C. A second claim of a generation, a second terminal of a claim or a second
  dispatch authority, once posted, blocks the protocol for ever, and so does re-running the
  observer's run, which makes its earlier observations invalid. An apply that fails
  between the deletion and the creation leaves a state no observation accepts. Each
  fails closed.
- Slice C. A recovery run that is lost after its claim leaves a claim without result;
  the claim object is write-once and the first attempt is the only one.
- Slice C. The observer's identity check wants `GITHUB_WORKFLOW_REF` to name the reusable recovery
  workflow (`phase5_slice_c_recovery.py:5895`); in a called workflow that variable names the
  caller, and no workflow of the repository calls `post-c5-wif-observation`. The model takes the check to be
  passed by the observer the protocol intends.

## 6. Findings

- `no_mutation_confirmed`: the deployment's verifier writes `NO_MUTATION_CONFIRMED`
  when it reads 404, also when the deployer was lost with its request
  unanswered. The request may still take effect.
- `create_failed_known`: any answer but 2xx to the create is `CREATE_FAILED_KNOWN`, 5xx
  included, while the repository's rule for the PATCH and for Phase 5 builds is
  that only 4xx is known.

Both reports can turn out wrong only of a run whose request is still on its way when the verifier
looks: without one, no effect now is no effect ever (`StaysWithoutEffect`, proved).

## 7. Plan

Order of work, most important first; all but 9 are done.

1. `ObservationPipeline` over `ObservationLedger`, with proofs.
2. `HighAcceptance` over `OneUse`, with proofs.
3. `CloudRunDeployment` over `OneUse`, with proofs.
4. `ProductTerraform`, with proofs.
5. `SliceCRecovery`: claim, attempt chain, effect, observation and terminal records.
6. `FoundationControl`: plan, apply and drift in one group with re-runs.
7. `ProductRelease`: initiation record, build, evidence, release record.
8. `ProductDeployment`: three creates under one consumption, with the verifier.
9. `DeploymentComparison`: `compare_deployments` against a set-based reference.
10. `ProductAcceptance`: the acceptance client of the services `ProductDeployment` creates, over the ledger.
11. Proofs for `SliceCRecovery` and `ProductAcceptance`.

## 8. Not modelled

The validators, the federation smoke test, the infrastructure declarations, the
schema and the committed envelopes are data or static checks without state; the
read-only reconciliation workflow changes nothing; `phase4-proof` is a stateless
endpoint; `phase5_demo.py` runs the two endpoints in one process for a demonstration; the Phase 4
build is the predecessor of the one `ProductRelease` models. Authentication, IAM and token lifetimes are external. Everything in
the plan above that is not marked as done is not modelled yet; `PROJECT.json` lists
it so.
