------------------------- MODULE CloudRunDeployment -------------------------
(***************************************************************************)
(* The two Phase 4 workflows that change the Cloud Run service             *)
(* phase4-proof: phase4-deploy.yml creates it, phase4-revision-transition. *)
(* yml replaces its revision.  Each run consumes an owner's authority      *)
(* comment by a comment of its own, posted once and read back, sends one   *)
(* request to the provider, follows the operation the provider names, and  *)
(* has another identity read the service back and probe it.                *)
(*                                                                         *)
(* Every POST and PATCH may be refused, take effect and lose its answer,   *)
(* or take effect long after the run has gone on.  The owner may write     *)
(* comments and change the service by hand.  The workflows' concurrency    *)
(* groups are left out: they remove behaviours, and nothing rests on them. *)
(***************************************************************************)
EXTENDS Naturals

CONSTANTS
    Releases,    \* release ids; a release id is the hash of its envelope
    Envelope,    \* Releases -> envelope
    Images,      \* images by digest; an image stands for its source too
    Runs,        \* workflow run ids
    Cids,        \* comment ids of the authority's issue
    Written,     \* the issue as it stands: Cids -> comment or None
    OwnerWrites, \* comments the owner may add
    MaxRevision, \* bound: the owner changes the service no further than this
    None

VARIABLES
    comments,   \* Cids -> comment, or None
    late,       \* comments posted that GitHub has not stored yet
    run,        \* Runs -> state of the run
    sent,       \* Runs -> provider mutation requests the run has sent
    flying,     \* runs whose unanswered request may still take effect
    service,    \* the Cloud Run service, or None
    operation,  \* Runs -> the operation the run's request became, or None
    summary     \* Runs -> outcomes the run has written to its step summary

vars == <<comments, late, run, sent, flying, service, operation, summary>>

provider == <<sent, flying, service, operation>>

----------------------------------------------------------------------------
\* Data.  A revision number stands for the revision's name and for the
\* generation and etag that the service has with it; 0 is no service.

Transitions == {"CREATE_IF_ABSENT", "UPDATE_EXISTING_REVISION"}

Envelopes == [transition : Transitions, image : Images,
              previous : Nat, previous_image : Images \cup {None}]

Authorities == [kind : {"authority"}, release : Releases]
Consumptions == [kind : {"consumption"}, authority : Cids, release : Releases, run : Runs]
Malformed == [kind : {"malformed"}, transition : Transitions]
Comments == Authorities \cup Consumptions \cup Malformed

Services == [image : Images, revision : Nat, status : {"reconciling", "ready", "failed"}]

Operations == [revision : Nat, over : Nat, state : {"pending", "ready", "failed"}]

Dispositions == {"SUCCEEDED", "FAILED_KNOWN", "OUTCOME_UNKNOWN"}

Outcomes == {"NO_MUTATION_CONFIRMED", "OUTCOME_AMBIGUOUS", "VERIFIED"}

ASSUME ConstantsOK ==
    /\ Envelope \in [Releases -> Envelopes]
    /\ \A l \in Releases : Envelope[l].transition = "CREATE_IF_ABSENT" => Envelope[l].previous = 0
    /\ Written \in [Cids -> Comments \cup {None}]
    /\ OwnerWrites \subseteq Comments
    /\ MaxRevision \in Nat

ASSUME NoneIsNothing ==
    /\ None \notin Releases \cup Images \cup Runs \cup Cids \cup Comments \cup Nat
    /\ None \notin Services \cup Operations \cup Dispositions

----------------------------------------------------------------------------
\* A run: its stage, what its jobs have handed on, the etag and revision its
\* precondition job saw, and what it knows of its request.

Stages == {"new", "prepare", "post", "reconcile", "preflight", "check", "send", "poll",
           "verify", "health", "done", "failed", "verify_failed"}

RunStates == [stage : Stages, authority : Cids \cup {None}, release : Releases \cup {None},
              consumption : Cids \cup {None}, seen : Nat \cup {None}, named : BOOLEAN,
              disposition : Dispositions \cup {None}, revision : Nat \cup {None}]

NewRun == [stage |-> "new", authority |-> None, release |-> None, consumption |-> None,
           seen |-> None, named |-> FALSE, disposition |-> None, revision |-> None]

At(r, stage) == run[r].stage = stage

Enter(r, stage) == run' = [run EXCEPT ![r].stage = stage]

Envelop(r) == Envelope[run[r].release]

IsCreate(r) == Envelop(r).transition = "CREATE_IF_ABSENT"

\* Comment c is added under an id that GitHub gives out once.
Add(c) ==
    \E id \in Cids :
        /\ comments[id] = None
        /\ comments' = [comments EXCEPT ![id] = c]

IsKind(c, kind) == comments[c] # None /\ comments[c].kind = kind

\* A comment with the workflow's consumption prefix that does not parse, or
\* is by someone else, stops every run of the workflow.
Readable(transition) ==
    \A c \in Cids : IsKind(c, "malformed") => comments[c].transition # transition

ConsumptionsOf(a) == {c \in Cids : IsKind(c, "consumption") /\ comments[c].authority = a}

\* deployment-consumption-available, revision-consumption-available.
Available(a, transition) == Readable(transition) /\ ConsumptionsOf(a) = {}

\* verify-deployment-consumption, verify-revision-consumption: c is the only
\* consumption of the authority and names this release and run.
UniqueConsumption_First(a, c) == c \in ConsumptionsOf(a)
UniqueConsumption(a, c) == ConsumptionsOf(a) = {c}

ConsumedBy(a, c, l, r) ==
    /\ Readable(Envelope[l].transition)
    /\ UniqueConsumption(a, c)
    /\ comments[c].release = l
    /\ comments[c].run = r

Init ==
    /\ comments = Written
    /\ late = {}
    /\ run = [r \in Runs |-> NewRun]
    /\ sent = [r \in Runs |-> 0]
    /\ flying = {}
    /\ service = None
    /\ operation = [r \in Runs |-> None]
    /\ summary = [r \in Runs |-> {}]

----------------------------------------------------------------------------
\* The world around the runs.

OwnerComments(c) ==
    /\ Add(c)
    /\ UNCHANGED <<late, run, provider, summary>>

LateArrival(c) ==
    /\ c \in late
    /\ Add(c)
    /\ late' = late \ {c}
    /\ UNCHANGED <<run, provider, summary>>

CurrentRevision == IF service = None THEN 0 ELSE service.revision

\* The owner creates or changes the service by hand.
OwnerDeploys(image) ==
    /\ CurrentRevision < MaxRevision
    /\ service' = [image |-> image, revision |-> CurrentRevision + 1, status |-> "ready"]
    /\ UNCHANGED <<comments, late, run, sent, flying, operation, summary>>

\* The provider does what the run asks: a service is created only where
\* there is none, and patched only while it has the etag of the request.
Applicable_NoEtag(r) == IsCreate(r) <=> service = None
Applicable(r) ==
    IF IsCreate(r) THEN service = None
    ELSE service # None /\ service.revision = run[r].seen

Apply(r) ==
    /\ Applicable(r)
    /\ service' = [image |-> Envelop(r).image, revision |-> CurrentRevision + 1,
                   status |-> "reconciling"]
    /\ operation' = [operation EXCEPT ![r] =
           [revision |-> CurrentRevision + 1, over |-> CurrentRevision, state |-> "pending"]]

\* A request whose answer the run never had takes effect after all.
RequestTakesEffect(r) ==
    /\ r \in flying
    /\ Apply(r)
    /\ flying' = flying \ {r}
    /\ UNCHANGED <<comments, late, run, sent, summary>>

\* The revision of r's operation becomes ready, or does not.
OperationEnds(r, state) ==
    /\ operation[r] # None
    /\ operation[r].state = "pending"
    /\ operation' = [operation EXCEPT ![r].state = state]
    /\ service' = IF CurrentRevision = operation[r].revision
                  THEN [service EXCEPT !.status = state] ELSE service
    /\ UNCHANGED <<comments, late, run, sent, flying, summary>>

----------------------------------------------------------------------------
\* Job control.

\* The first attempt of a run dispatched for authority a.
Start(r, a) ==
    /\ At(r, "new")
    /\ IsKind(a, "authority")
    /\ run' = [run EXCEPT ![r].stage = "prepare", ![r].authority = a,
                          ![r].release = comments[a].release]
    /\ UNCHANGED <<comments, late, provider, summary>>

Prepare(r) ==
    /\ At(r, "prepare")
    /\ Available(run[r].authority, Envelop(r).transition)
    /\ Enter(r, "post")
    /\ UNCHANGED <<comments, late, provider, summary>>

ConsumptionBody_NoRun(r) ==
    [kind |-> "consumption", authority |-> run[r].authority, release |-> run[r].release, run |-> None]
ConsumptionBody(r) ==
    [kind |-> "consumption", authority |-> run[r].authority, release |-> run[r].release, run |-> r]

\* The one POST, whatever its exit code: the comment is stored, is stored
\* later than the run reads the comments again, or is not stored.
Post(r) ==
    /\ At(r, "post")
    /\ Add(ConsumptionBody(r))
    /\ Enter(r, "reconcile")
    /\ UNCHANGED <<late, provider, summary>>

PostLate(r) ==
    /\ At(r, "post")
    /\ late' = late \cup {ConsumptionBody(r)}
    /\ Enter(r, "reconcile")
    /\ UNCHANGED <<comments, provider, summary>>

PostLost(r) ==
    /\ At(r, "post")
    /\ Enter(r, "reconcile")
    /\ UNCHANGED <<comments, late, provider, summary>>

VerifyConsumption(r) ==
    /\ At(r, "reconcile")
    /\ \E c \in Cids :
        /\ ConsumedBy(run[r].authority, c, run[r].release, r)
        /\ run' = [run EXCEPT ![r].stage = "preflight", ![r].consumption = c]
    /\ UNCHANGED <<comments, late, provider, summary>>

----------------------------------------------------------------------------
\* Jobs preflight and precondition, and the rechecks of the deployer.

\* The authority and the consumption, read again one by one.
Bound(r) ==
    /\ comments[run[r].authority] = [kind |-> "authority", release |-> run[r].release]
    /\ comments[run[r].consumption] = ConsumptionBody(r)

\* revision-precondition: the service is at rest on the previous release.
AtPrevious(r) ==
    /\ service # None
    /\ service.image = Envelop(r).previous_image
    /\ service.revision = Envelop(r).previous
    /\ service.status = "ready"

Preflight(r) ==
    /\ At(r, "preflight")
    /\ Bound(r)
    /\ IF IsCreate(r)
       THEN Enter(r, "check")
       ELSE /\ AtPrevious(r)
            /\ run' = [run EXCEPT ![r].stage = "check", ![r].seen = service.revision]
    /\ UNCHANGED <<comments, late, provider, summary>>

\* The deployer looks itself: no service, or the one the precondition saw.
Check(r) ==
    /\ At(r, "check")
    /\ Bound(r)
    /\ IF IsCreate(r)
       THEN service = None
       ELSE AtPrevious(r) /\ service.revision = run[r].seen
    /\ Enter(r, "send")
    /\ UNCHANGED <<comments, late, provider, summary>>

----------------------------------------------------------------------------
\* The one mutation request and what its answer tells the run.

Answered(r, named, disposition) ==
    run' = [run EXCEPT ![r].stage = "poll", ![r].named = named, ![r].disposition = disposition]

CountRequest(r) == sent' = [sent EXCEPT ![r] = @ + 1]

\* What an answer other than 2xx is taken for: the deployment takes it for a
\* failure, the revision transition for no answer.
NonSuccess_Known(r) == "FAILED_KNOWN"
NonSuccess(r) == IF IsCreate(r) THEN "FAILED_KNOWN" ELSE "OUTCOME_UNKNOWN"

SendAccepted(r) ==
    /\ At(r, "send")
    /\ Apply(r)
    /\ CountRequest(r)
    /\ Answered(r, TRUE, "OUTCOME_UNKNOWN")
    /\ UNCHANGED <<comments, late, flying, summary>>

\* 4xx: the request has no effect.
SendRefused(r) ==
    /\ At(r, "send")
    /\ CountRequest(r)
    /\ Answered(r, FALSE, NonSuccess(r))
    /\ UNCHANGED <<comments, late, flying, service, operation, summary>>

\* 5xx, or no answer at all: it may have one yet.
SendUnresolved(r, disposition) ==
    /\ At(r, "send")
    /\ disposition \in {NonSuccess(r), "OUTCOME_UNKNOWN"}
    /\ CountRequest(r)
    /\ flying' = flying \cup {r}
    /\ Answered(r, FALSE, disposition)
    /\ UNCHANGED <<comments, late, service, operation, summary>>

\* The deployer's job fails without outputs: the deployment's verifier runs
\* all the same, the transition ends.
DeployerGone(r) ==
    run' = [run EXCEPT ![r].stage = IF IsCreate(r) THEN "verify" ELSE "failed",
                       ![r].named = FALSE, ![r].disposition = None]

DeployerFails(r) ==
    /\ run[r].stage \in {"check", "send", "poll"}
    /\ DeployerGone(r)
    /\ UNCHANGED <<comments, late, provider, summary>>

\* The runner is lost with the request on its way, or accepted.
DeployerLost(r) ==
    /\ At(r, "send")
    /\ CountRequest(r)
    /\ flying' = flying \cup {r}
    /\ DeployerGone(r)
    /\ UNCHANGED <<comments, late, service, operation, summary>>

\* The revision the run will expect: the one its operation created.
ExpectedRevision_Latest(r) == CurrentRevision
ExpectedRevision(r) == operation[r].revision

\* The polling loop ends: the named operation is done, or it is still
\* pending, or not to be read, after the last try.
PollSucceeded(r) ==
    /\ At(r, "poll")
    /\ run[r].named
    /\ operation[r].state = "ready"
    /\ run' = [run EXCEPT ![r].stage = "verify", ![r].disposition = "SUCCEEDED",
                          ![r].revision = ExpectedRevision(r)]
    /\ UNCHANGED <<comments, late, provider, summary>>

PollFailed(r) ==
    /\ At(r, "poll")
    /\ run[r].named
    /\ operation[r].state = "failed"
    /\ run' = [run EXCEPT ![r].stage = "verify", ![r].disposition = "FAILED_KNOWN"]
    /\ UNCHANGED <<comments, late, provider, summary>>

PollGivesUp(r) ==
    /\ At(r, "poll")
    /\ Enter(r, "verify")
    /\ UNCHANGED <<comments, late, provider, summary>>

----------------------------------------------------------------------------
\* The verifier.

Conclude(r, outcome) == summary' = [summary EXCEPT ![r] = @ \cup {outcome}]

\* The deployment's verifier finds no service.
VerifyAbsent(r) ==
    /\ At(r, "verify")
    /\ IsCreate(r)
    /\ service = None
    /\ Conclude(r, "NO_MUTATION_CONFIRMED")
    /\ Enter(r, "verify_failed")
    /\ UNCHANGED <<comments, late, provider>>

\* It finds one, and the run does not know that it is its own.
VerifyAmbiguous(r) ==
    /\ At(r, "verify")
    /\ IsCreate(r)
    /\ service # None
    /\ run[r].disposition # "SUCCEEDED"
    /\ Conclude(r, "OUTCOME_AMBIGUOUS")
    /\ Enter(r, "verify_failed")
    /\ UNCHANGED <<comments, late, provider>>

\* verify-deployment-service, revision-postcondition: the service is at rest
\* on the expected revision with the release's image, and, after a
\* transition, has moved on from the precondition's etag and generation.
VerifyService(r) ==
    /\ At(r, "verify")
    /\ run[r].disposition = "SUCCEEDED"
    /\ service # None
    /\ service.image = Envelop(r).image
    /\ service.revision = run[r].revision
    /\ service.status = "ready"
    /\ ~IsCreate(r) => service.revision > run[r].seen
    /\ Enter(r, "health")
    /\ UNCHANGED <<comments, late, provider, summary>>

\* The probe is answered by the release's source: the service is still on
\* it, or a newer revision is not ready yet.
Health(r) ==
    /\ At(r, "health")
    /\ service.status = "ready" => service.image = Envelop(r).image
    /\ Conclude(r, "VERIFIED")
    /\ Enter(r, "done")
    /\ UNCHANGED <<comments, late, provider>>

\* A check does not pass, a call fails, a runner is lost.
Fail(r) ==
    /\ \/ /\ run[r].stage \in {"prepare", "post", "reconcile", "preflight"}
          /\ Enter(r, "failed")
       \/ /\ run[r].stage \in {"verify", "health"}
          /\ Enter(r, "verify_failed")
    /\ UNCHANGED <<comments, late, provider, summary>>

\* "Re-run failed jobs".  Every other job, the deployer's among them, asks to
\* be of the first attempt; the deployment's verifier does not.
RerunStage_Deploys(r) == "check"
RerunStage(r) == "verify"

RerunFailedJobs(r) ==
    /\ At(r, "verify_failed")
    /\ IsCreate(r)
    /\ Enter(r, RerunStage(r))
    /\ UNCHANGED <<comments, late, provider, summary>>

----------------------------------------------------------------------------
Control(r) ==
    \/ \E a \in Cids : Start(r, a)
    \/ Prepare(r)
    \/ Post(r)
    \/ PostLate(r)
    \/ PostLost(r)
    \/ VerifyConsumption(r)

Deploy(r) ==
    \/ Preflight(r)
    \/ Check(r)
    \/ SendAccepted(r)
    \/ SendRefused(r)
    \/ \E d \in Dispositions : SendUnresolved(r, d)
    \/ DeployerFails(r)
    \/ DeployerLost(r)
    \/ PollSucceeded(r)
    \/ PollFailed(r)
    \/ PollGivesUp(r)

VerifyJob(r) ==
    \/ VerifyAbsent(r)
    \/ VerifyAmbiguous(r)
    \/ VerifyService(r)
    \/ Health(r)
    \/ Fail(r)
    \/ RerunFailedJobs(r)

World ==
    \/ \E c \in OwnerWrites : OwnerComments(c)
    \/ \E c \in late : LateArrival(c)
    \/ \E image \in Images : OwnerDeploys(image)
    \/ \E r \in Runs : RequestTakesEffect(r)
    \/ \E r \in Runs, state \in {"ready", "failed"} : OperationEnds(r, state)

Next == World \/ \E r \in Runs : Control(r) \/ Deploy(r) \/ VerifyJob(r)

Spec == Init /\ [][Next]_vars

----------------------------------------------------------------------------
\* Properties.

TypeOK ==
    /\ comments \in [Cids -> Comments \cup {None}]
    /\ late \subseteq Consumptions
    /\ run \in [Runs -> RunStates]
    /\ sent \in [Runs -> Nat]
    /\ flying \subseteq Runs
    /\ service \in Services \cup {None}
    /\ operation \in [Runs -> Operations \cup {None}]
    /\ summary \in [Runs -> SUBSET Outcomes]

\* The execution policy of every envelope, single_mutation_attempt: however
\* answers are lost, jobs re-run and consumptions stored late, at most one
\* mutation request is ever sent under one authority.
SingleMutationAttempt ==
    \A r, q \in Runs :
        sent[r] > 0 /\ sent[q] > 0 /\ run[r].authority = run[q].authority =>
            r = q /\ sent[r] = 1

\* An authority is good for one run: two runs that overlap anywhere, and one
\* of whose posts may arrive late, never both pass the read-back.
OneRunPerAuthority ==
    \A r, q \in Runs :
        /\ run[r].consumption # None /\ run[q].consumption # None
        /\ run[r].authority = run[q].authority
        => r = q

\* A request that takes effect, even long after it was sent, replaces what
\* its envelope says it replaces: nothing, or the previous revision.  A
\* change made between the checks and the request is never overwritten.
ReplacesOnlyPrevious ==
    \A r \in Runs : operation[r] # None => operation[r].over = Envelop(r).previous

\* What a run records as verified is its own: the revision that its own
\* request created and that became ready, and no other run's or the owner's
\* of the same image.
VerifiedIsOwn ==
    \A r \in Runs :
        "VERIFIED" \in summary[r] =>
            /\ operation[r] # None
            /\ operation[r].state = "ready"
            /\ operation[r].revision = run[r].revision

\* A failure called known: the run's request has had no effect but a failed
\* operation.
FailureIsKnown(r) ==
    run[r].disposition = "FAILED_KNOWN" /\ operation[r] # None =>
        operation[r].state = "failed"

\* A transition that reports UPDATE_FAILED_KNOWN has not changed the service
\* and never will, whatever answer its request had.
TransitionFailureIsKnown ==
    \A r \in Runs : run[r].release # None /\ ~IsCreate(r) => FailureIsKnown(r)

\* A deployment that reports CREATE_FAILED_KNOWN has not created the service
\* and never will.
CreateFailureIsKnown ==
    \A r \in Runs : run[r].release # None /\ IsCreate(r) => FailureIsKnown(r)

\* A deployment that has written NO_MUTATION_CONFIRMED has not created the
\* service and never will.
NoMutationIsFinal ==
    \A r \in Runs : "NO_MUTATION_CONFIRMED" \in summary[r] => operation[r] = None

\* Each authority is a one-use token whose permitted effect is a change of
\* the service.
Token == INSTANCE OneUse WITH
    Tokens  <- Cids,
    spentBy <- [a \in Cids |->
                   IF \E r \in Runs : run[r].consumption # None /\ run[r].authority = a
                   THEN CHOOSE r \in Runs : run[r].consumption # None /\ run[r].authority = a
                   ELSE None],
    used    <- {a \in Cids : \E r \in Runs : operation[r] # None /\ run[r].authority = a}

\* Both workflows implement the one-use token.
ImplementsOneUse == Token!Spec

----------------------------------------------------------------------------
\* The inductive invariant.

\* Before the mutation request can have been sent.
Unsent == {"new", "prepare", "post", "reconcile", "preflight", "check", "send"}

\* What a run relies on between two of its calls.
RunInv(r) ==
    LET s == run[r] IN
    /\ s.stage # "new" => s.authority # None /\ s.release # None
    /\ s.stage = "new" => s = NewRun
    /\ s.stage \in {"prepare", "post", "reconcile"} => s.consumption = None
    /\ s.stage \in {"preflight", "check", "send", "poll", "verify", "health",
                    "done", "verify_failed"} => s.consumption # None
    /\ s.consumption # None => comments[s.consumption] = ConsumptionBody(r)
    /\ s.release # None /\ s.seen # None => s.seen = Envelop(r).previous
    /\ s.stage \in {"check", "send"} \/ sent[r] > 0 => IsCreate(r) \/ s.seen # None
    /\ s.stage \in Unsent => sent[r] = 0 /\ s.disposition = None
    /\ s.stage \in {"health", "done"} => s.disposition = "SUCCEEDED"
    /\ "VERIFIED" \in summary[r] => s.stage = "done"

\* What becomes of its request.
RequestInv(r) ==
    /\ sent[r] <= 1
    /\ sent[r] > 0 => run[r].consumption # None
    /\ r \in flying => sent[r] > 0 /\ operation[r] = None
    /\ operation[r] # None => sent[r] > 0 /\ service # None
    /\ run[r].named => operation[r] # None
    /\ run[r].disposition = "SUCCEEDED" =>
           /\ operation[r] # None
           /\ operation[r].state = "ready"
           /\ operation[r].revision = run[r].revision
    /\ run[r].disposition = "FAILED_KNOWN" /\ ~IsCreate(r) =>
           operation[r] # None /\ operation[r].state = "failed"

IInv ==
    /\ TypeOK
    /\ \A r \in Runs : RunInv(r) /\ RequestInv(r)
    /\ OneRunPerAuthority
    /\ ReplacesOnlyPrevious

============================================================================
