--------------------------- MODULE ProductDeployment ---------------------------
(***************************************************************************)
(* Phase 5: a published release becomes the three product services.        *)
(*                                                                         *)
(* A deployment run (phase5-deploy-reusable.yml) consumes an owner's       *)
(* authority by a comment on issue 109 and creates the services one after  *)
(* the other, each only where there is none, waiting for each.  The owner  *)
(* then gives each its IAM policy (D.5), and a verification run            *)
(* (phase5-verify-reusable.yml) reads all three back and publishes a       *)
(* routing binding, which product Terraform is to route by.                *)
(*                                                                         *)
(* A create request whose answer is lost, or is a 5xx, may take effect long *)
(* after its run has ended, and the owner may delete a service by hand:    *)
(* nothing in the code can undo or finish a deployment that failed midway. *)
(* The runs of one immutable control are modelled; a release stands for    *)
(* its envelope, the generation of its object and its image, which no two  *)
(* releases share.                                                         *)
(***************************************************************************)
EXTENDS Naturals

CONSTANTS
    Releases,     \* releases published on issue 109
    Authorities,  \* comments of the owner that authorise a deployment
    Authorises,   \* Authorities -> the release of each
    DeployRuns,   \* runs of the deployment workflow
    VerifyRuns,   \* runs of the verification workflow
    MaxDeletions, \* bound: services the owner deletes by hand
    None

ASSUME AuthoritiesNameReleases == Authorises \in [Authorities -> Releases]
ASSUME NoneIsNoRun == None \notin Authorities \cup Releases
ASSUME MaxDeletionsIsNumber == MaxDeletions \in Nat

VARIABLES
    consumed,   \* deployment runs whose consumption comment is on issue 109
    late,       \* those whose POST had no answer and may still be stored
    deploy,     \* the deployment runs
    flying,     \* unanswered create requests that may still take effect
    service,    \* the services that exist
    granted,    \* services whose policy is the one D.5 gives them
    deletions,  \* how often the owner has deleted a service
    d5,         \* the D.5 reconciliation record and its run
    verify,     \* the verification runs
    bindings    \* the routing bindings on issue 109

vars == <<consumed, late, deploy, flying, service, granted, deletions, d5, verify, bindings>>
comments == <<consumed, late>>
provider == <<flying, service, granted, deletions>>
verification == <<d5, verify, bindings>>

-----------------------------------------------------------------------------
\* resilio-ingest, resilio-processor and resilio-api, in the order of every loop
Services == 1..3
Ingest == 1
Processor == 2
Api == 3

\* Mutant: a loop runs once more than there are services.
Last_Beyond(s) == s = 4
Last(s) == s = Api

\* What a service runs, the run whose request created it, and whether its
\* revision has become ready.
ServiceStates == [release : Releases, by : DeployRuns, state : {"pending", "ready", "failed"}]

ASSUME NoneIsNoService == None \notin ServiceStates

DeployStages == {"new", "available", "posted", "consumed", "absent", "create", "poll", "read",
                 "done", "failed"}

\* consumption: the control job has handed on the id of the run's consumption
DeployStates == [stage : DeployStages, authority : Authorities \cup {None},
                 consumption : BOOLEAN, at : Services]

VerifyStages == {"new", "service", "policy", "revision", "binding", "done", "failed"}
VerifyStates == [stage : VerifyStages, release : Releases \cup {None}, at : Services]

Init ==
    /\ consumed = {} /\ late = {}
    /\ deploy = [r \in DeployRuns |->
           [stage |-> "new", authority |-> None, consumption |-> FALSE, at |-> 1]]
    /\ flying = {}
    /\ service = [s \in Services |-> None]
    /\ granted = {} /\ deletions = 0
    /\ d5 = "none"
    /\ verify = [v \in VerifyRuns |-> [stage |-> "new", release |-> None, at |-> 1]]
    /\ bindings = {}

-----------------------------------------------------------------------------
\* The control job

At(r, stage) == deploy[r].stage = stage

To(r, stage) == deploy' = [deploy EXCEPT ![r].stage = stage]

ReleaseOf(r) == Authorises[deploy[r].authority]

Active(r) == deploy[r].stage \notin {"new", "done", "failed"}

\* deployment-consumption-available
Available(a) == \A r \in consumed : deploy[r].authority # a

\* Mutant: no concurrency group.
GroupFree_Always == TRUE

\* The concurrency group lets one run in at a time.
GroupFree == \A r \in DeployRuns : ~Active(r)

\* The release record and the authority name one release; the authority has
\* not been consumed.
Start(r, a) ==
    /\ At(r, "new")
    /\ GroupFree
    /\ Available(a)
    /\ deploy' = [deploy EXCEPT ![r].stage = "available", ![r].authority = a]
    /\ UNCHANGED <<comments, provider, verification>>

\* One POST, whose answer is not needed: stored, stored later, or lost.
Post(r) ==
    /\ At(r, "available")
    /\ To(r, "posted")
    /\ \/ consumed' = consumed \cup {r} /\ UNCHANGED late
       \/ late' = late \cup {r} /\ UNCHANGED consumed
       \/ UNCHANGED comments
    /\ UNCHANGED <<provider, verification>>

StoreLate(r) ==
    /\ r \in late
    /\ late' = late \ {r}
    /\ consumed' = consumed \cup {r}
    /\ UNCHANGED <<deploy, provider, verification>>

\* verify-deployment-consumption: the run's own comment, exactly once; one
\* of another run is not looked for.
VerifyConsumption(r) ==
    /\ At(r, "posted")
    /\ r \in consumed
    /\ deploy' = [deploy EXCEPT ![r].stage = "consumed", ![r].consumption = TRUE]
    /\ UNCHANGED <<comments, provider, verification>>

-----------------------------------------------------------------------------
\* The deploy job

\* Rebinds the release and the consumption; the release object and the image
\* are still there, for both are written once.
Rebind(r) ==
    /\ At(r, "consumed")
    /\ r \in consumed
    /\ deploy' = [deploy EXCEPT ![r].stage = "absent", ![r].at = 1]
    /\ UNCHANGED <<comments, provider, verification>>

\* The loop goes on with the next service, or with the stage after it.
Proceed(r, stage, after) ==
    LET s == deploy[r].at IN
    deploy' = [deploy EXCEPT ![r].stage = IF Last(s) THEN after ELSE stage,
                             ![r].at = IF Last(s) THEN 1 ELSE s + 1]

\* The create-if-absent precondition, service by service
CheckAbsent(r) ==
    /\ At(r, "absent")
    /\ service[deploy[r].at] = None
    /\ Proceed(r, "absent", "create")
    /\ UNCHANGED <<comments, provider, verification>>

\* Mutant: a service that is there is replaced.
Creatable_Always(s) == TRUE

\* The provider creates a service only where there is none.
Creatable(s) == service[s] = None

Create(r, s) ==
    /\ Creatable(s)
    /\ service' = [service EXCEPT ![s] = [release |-> ReleaseOf(r), by |-> r,
                                          state |-> "pending"]]

CreateAccepted(r) ==
    /\ At(r, "create")
    /\ Create(r, deploy[r].at)
    /\ To(r, "poll")
    /\ UNCHANGED <<comments, flying, granted, deletions, verification>>

\* 4xx, as when the service is there: PHASE5_CREATE_FAILED_KNOWN.
CreateRefused(r) ==
    /\ At(r, "create")
    /\ To(r, "failed")
    /\ UNCHANGED <<comments, provider, verification>>

\* No answer (PHASE5_CREATE_OUTCOME_UNKNOWN), a 5xx, or the runner is lost.
CreateUnanswered(r) ==
    /\ At(r, "create")
    /\ flying' = flying \cup {<<r, deploy[r].at>>}
    /\ To(r, "failed")
    /\ UNCHANGED <<comments, service, granted, deletions, verification>>

\* The operation of the run's own request has succeeded.
Poll(r) ==
    /\ At(r, "poll")
    /\ LET s == service[deploy[r].at] IN s # None /\ s.by = r /\ s.state = "ready"
    /\ To(r, "read")
    /\ UNCHANGED <<comments, provider, verification>>

\* Mutant: the service need not have a ready revision.
Serves_Unready(s, l) == service[s] # None /\ service[s].release = l

\* verify_service_config: the release's image, and a ready revision
Serves(s, l) == service[s] # None /\ service[s].release = l /\ service[s].state = "ready"

\* verify-created-service; then the next service.
ReadBack(r) ==
    /\ At(r, "read")
    /\ Serves(deploy[r].at, ReleaseOf(r))
    /\ Proceed(r, "create", "done")
    /\ UNCHANGED <<comments, provider, verification>>

\* A check does not hold, a call fails, a poll gives up, the runner is lost.
\* Another attempt of the run is refused.
Fail(r) ==
    /\ Active(r)
    /\ To(r, "failed")
    /\ UNCHANGED <<comments, provider, verification>>

Deploy(r) ==
    \/ \E a \in Authorities : Start(r, a)
    \/ Post(r) \/ StoreLate(r) \/ VerifyConsumption(r)
    \/ Rebind(r) \/ CheckAbsent(r)
    \/ CreateAccepted(r) \/ CreateRefused(r) \/ CreateUnanswered(r)
    \/ Poll(r) \/ ReadBack(r) \/ Fail(r)

-----------------------------------------------------------------------------
\* The provider and the owner

TakesEffect(r, s) ==
    /\ <<r, s>> \in flying
    /\ Create(r, s)
    /\ flying' = flying \ {<<r, s>>}
    /\ UNCHANGED <<comments, deploy, granted, deletions, verification>>

OperationEnds(s, state) ==
    /\ service[s] # None
    /\ service[s].state = "pending"
    /\ service' = [service EXCEPT ![s].state = state]
    /\ UNCHANGED <<comments, deploy, flying, granted, deletions, verification>>

DeleteByHand(s) ==
    /\ service[s] # None
    /\ deletions < MaxDeletions
    /\ service' = [service EXCEPT ![s] = None]
    /\ granted' = granted \ {s}
    /\ deletions' = deletions + 1
    /\ UNCHANGED <<comments, deploy, flying, verification>>

\* The D.5 transaction: the policy of each service, then the record by a run
\* that may yet fail.
Grant(s) ==
    /\ service[s] # None
    /\ granted' = granted \cup {s}
    /\ UNCHANGED <<comments, deploy, flying, service, deletions, verification>>

RecordD5 ==
    /\ d5 = "none"
    /\ granted = Services
    /\ d5' = "recorded"
    /\ UNCHANGED <<comments, deploy, provider, verify, bindings>>

EndD5(conclusion) ==
    /\ d5 = "recorded"
    /\ d5' = conclusion
    /\ UNCHANGED <<comments, deploy, provider, verify, bindings>>

World ==
    \/ \E r \in DeployRuns, s \in Services : TakesEffect(r, s)
    \/ \E s \in Services, state \in {"ready", "failed"} : OperationEnds(s, state)
    \/ \E s \in Services : DeleteByHand(s) \/ Grant(s)
    \/ RecordD5
    \/ \E conclusion \in {"success", "failure"} : EndD5(conclusion)

-----------------------------------------------------------------------------
\* The verification run: no concurrency group

Verifying(v, stage) == verify[v].stage = stage

Advance(v, stage) == verify' = [verify EXCEPT ![v].stage = stage]

\* The release record, the D.5 record and the conclusion of its run
StartVerify(v, l) ==
    /\ Verifying(v, "new")
    /\ d5 = "success"
    /\ verify' = [verify EXCEPT ![v].stage = "service", ![v].release = l]
    /\ UNCHANGED <<comments, deploy, provider, d5, bindings>>

ReadService(v) ==
    /\ Verifying(v, "service")
    /\ Serves(verify[v].at, verify[v].release)
    /\ Advance(v, "policy")
    /\ UNCHANGED <<comments, deploy, provider, d5, bindings>>

\* verify_service_policy: exactly the expected graph
ReadPolicy(v) ==
    /\ Verifying(v, "policy")
    /\ verify[v].at \in granted
    /\ Advance(v, "revision")
    /\ UNCHANGED <<comments, deploy, provider, d5, bindings>>

\* verify_revision; after the third service, the Phase 4 service is refused.
ReadRevision(v) ==
    /\ Verifying(v, "revision")
    /\ LET s == verify[v].at IN
         /\ service[s] # None
         /\ service[s].release = verify[v].release
         /\ verify' = [verify EXCEPT ![v].stage = IF Last(s) THEN "binding" ELSE "service",
                                     ![v].at = IF Last(s) THEN s ELSE s + 1]
    /\ UNCHANGED <<comments, deploy, provider, d5, bindings>>

\* The binding is stored, whether or not the run has the answer.
PostBinding(v) ==
    /\ Verifying(v, "binding")
    /\ bindings' = bindings \cup {[release |-> verify[v].release, run |-> v]}
    /\ \/ Advance(v, "done")
       \/ Advance(v, "failed")
    /\ UNCHANGED <<comments, deploy, provider, d5>>

FailVerify(v) ==
    /\ verify[v].stage \notin {"new", "done", "failed"}
    /\ Advance(v, "failed")
    /\ UNCHANGED <<comments, deploy, provider, d5, bindings>>

Verify(v) ==
    \/ \E l \in Releases : StartVerify(v, l)
    \/ ReadService(v) \/ ReadPolicy(v) \/ ReadRevision(v)
    \/ PostBinding(v) \/ FailVerify(v)

-----------------------------------------------------------------------------
DeployNext ==
    \/ \E r \in DeployRuns : Deploy(r)
    \/ World
    \/ \E v \in VerifyRuns : Verify(v)

-----------------------------------------------------------------------------
\* Properties

DeployTypeOK ==
    /\ consumed \subseteq DeployRuns /\ late \subseteq DeployRuns
    /\ deploy \in [DeployRuns -> DeployStates]
    /\ flying \subseteq DeployRuns \X Services
    /\ service \in [Services -> ServiceStates \cup {None}]
    /\ granted \subseteq Services
    /\ deletions \in 0..MaxDeletions
    /\ d5 \in {"none", "recorded", "success", "failure"}
    /\ verify \in [VerifyRuns -> VerifyStates]
    /\ bindings \subseteq [release : Releases, run : VerifyRuns]

\* An authority is spent by one run: a second one never holds a consumption
\* of it, although a run looks for its own comment alone and a comment may be
\* stored after its run has failed (the availability check and the
\* concurrency group).
AuthorityIsSpentOnce ==
    \A r, q \in DeployRuns :
        /\ deploy[r].consumption /\ deploy[q].consumption
        /\ deploy[r].authority = deploy[q].authority
        => r = q

\* The services that exist were all created by one run, in order and so from
\* one release, although a request of a run that has failed may take effect
\* while a later run checks and creates, unless the owner deletes services by
\* hand (the create-if-absent precondition, the create that never updates and
\* the wait for each service).
OneRunServes ==
    deletions = 0 =>
        \A s, t \in Services :
            s < t /\ service[t] # None => service[s] # None /\ service[s].by = service[t].by

\* The whole of release l is in service.
Deployed(l) ==
    \A s \in Services : service[s] # None /\ service[s].release = l /\ service[s].state = "ready"

\* What a routing binding says still holds, unless the owner deletes services
\* by hand: all three services are ready, of the release it names and with
\* the policy D.5 gives them, although they were read one by one outside the
\* concurrency group of the deployments.
BindingHolds ==
    deletions = 0 =>
        \A b \in bindings :
            /\ d5 = "success"
            /\ granted = Services
            /\ Deployed(b.release)

=============================================================================
