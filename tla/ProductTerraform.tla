-------------------------- MODULE ProductTerraform --------------------------
(***************************************************************************)
(* The Phase 5 product Terraform control, from the workflows               *)
(* phase5-terraform-plan-reusable.yml, phase5-terraform-apply-reusable.yml *)
(* and scripts/phase5_terraform_control.py.  A plan run of an open pull    *)
(* request stores the effect its candidate would have as write-once        *)
(* evidence under the pull request and head.  After the merge an apply run *)
(* plans again, compares its whole effect with the evidence the owner      *)
(* names, and applies the plan it has just saved.                          *)
(*                                                                         *)
(* Runs are dispatched by the owner, in no concurrency group: plans,       *)
(* applies, merges and changes by hand interleave at every call.  The      *)
(* state object, its lock and the resources are Terraform's.               *)
(***************************************************************************)
EXTENDS Naturals

CONSTANTS
    Runs,            \* workflow runs, each at its first and only attempt
    PullRequests,    \* pull requests that change the candidate file alone
    Shas,            \* commits
    Comments,        \* comments of issue 109 that may hold a routing binding
    Uris,            \* addresses of the processor service
    Releases,        \* releases the processor was verified for
    BaseAddresses,   \* BASE_ADDRESSES
    RoutingAddress,  \* ROUTING_ADDRESS
    Idempotent,      \* addresses of google_project_service resources
    Declared,        \* configuration of a base resource
    Changed,         \* configuration nobody declared
    Editable,        \* bound: addresses that are also changed by hand
    MaxVersion,      \* bound: how often the state object is written
    None

VARIABLES
    candidateAt,  \* Shas -> the candidate at that commit, or None
    main,         \* head of the protected branch
    pr,           \* PullRequests -> the pull request
    comments,     \* Comments -> the verified binding it holds, or None
    evidence,     \* plan-evidence/product/: <<pull request, head>> -> effect or None
    state,        \* product/default.tfstate; version 0: there is no object
    lock,         \* the run that holds product/default.tflock, or None
    live,         \* the resources there are: address -> configuration or None
    run           \* Runs -> state of the run

vars == <<candidateAt, main, pr, comments, evidence, state, lock, live, run>>

github == <<candidateAt, main, pr, comments>>

cloud == <<state, lock, live>>

----------------------------------------------------------------------------
Addresses == BaseAddresses \cup {RoutingAddress}

Values == {Declared, Changed} \cup Uris

Resources == [Addresses -> Values \cup {None}]

\* validate_candidate: only a routing candidate names a URI and a comment.
Candidates ==
    [stage : {"empty", "base"}, uri : {None}, comment : {None}] \cup
    [stage : {"routing"}, uri : Uris, comment : Comments]

\* routing_binding_from_documents, for a comment whose runs check out.
Bindings == [uri : Uris, release : Releases]

PrStates == [status : {"none", "open", "merged"},
             head : Shas \cup {None}, base : Shas \cup {None}, merge : Shas \cup {None}]

\* Serial, generation and version of the object move together.
States == [version : 0..MaxVersion, resources : Resources]

\* A saved plan: the configuration, the refreshed prior state, and the
\* version of the state it was made against.
Plans == [target : Resources, prior : Resources, version : 0..MaxVersion,
          drifted : BOOLEAN]

\* private_effect; the control commit and its digests are fixed.
Effects == [pr : PullRequests, head : Shas, base : Shas, candidate : Candidates,
            binding : Bindings \cup {None}, generation : 0..MaxVersion,
            pulled : States, creates : SUBSET Addresses]

Keys == PullRequests \X Shas

Stages == {"idle", "bound", "read", "pulled", "planned", "rechecked",
           "applying", "applied", "partial", "done", "failed", "lost"}

RunStates == [stage : Stages, kind : {"plan", "apply"},
              pr : PullRequests \cup {None}, head : Shas \cup {None},
              base : Shas \cup {None}, object : Keys \cup {None},
              candidate : Candidates \cup {None}, binding : Bindings \cup {None},
              generation : 0..MaxVersion, pulled : States, plan : Plans,
              reviewed : Effects \cup {None},
              created : SUBSET Addresses, saved : SUBSET Addresses]

ASSUME MaxVersionOK == MaxVersion \in Nat \ {0}

ASSUME NoneIsNothing ==
    /\ None \notin Runs \cup PullRequests \cup Shas \cup Values \cup Keys
    /\ None \notin Candidates \cup Bindings \cup Effects

ASSUME EditableOK == Editable \cup Idempotent \subseteq Addresses

ASSUME RoutingIsNotBase == RoutingAddress \notin BaseAddresses

ASSUME DeclaredOK == Declared # Changed /\ {Declared, Changed} \cap Uris = {}

Nothing == [a \in Addresses |-> None]

NoState == [version |-> 0, resources |-> Nothing]

NoPlan == [target |-> Nothing, prior |-> Nothing, version |-> 0, drifted |-> FALSE]

NewRun == [stage |-> "idle", kind |-> "plan", pr |-> None, head |-> None, base |-> None,
           object |-> None, candidate |-> None, binding |-> None, generation |-> 0,
           pulled |-> NoState, plan |-> NoPlan, reviewed |-> None,
           created |-> {}, saved |-> {}]

----------------------------------------------------------------------------
\* resource_document: the configuration a candidate assembles to.
Config(c) ==
    [a \in Addresses |->
        IF a = RoutingAddress
        THEN IF c.stage = "routing" THEN c.uri ELSE None
        ELSE IF c.stage = "empty" THEN None ELSE Declared]

\* expected_creates
ExpectedCreates(c) ==
    IF c.stage = "empty" THEN {}
    ELSE IF c.stage = "base" THEN BaseAddresses ELSE {RoutingAddress}

\* What a plan would create, and what it would update, replace or delete.
Creates(p) == {a \in Addresses : p.target[a] # None /\ p.prior[a] = None}

Alters(p) == {a \in Addresses : p.prior[a] # None /\ p.target[a] # p.prior[a]}

Drifted(resources) ==
    \E a \in Addresses : resources[a] # None /\ live[a] # resources[a]

\* terraform plan of the candidate c over the given prior state
TakePlan(c, prior) ==
    [target |-> Config(c), prior |-> prior.resources, version |-> prior.version,
     drifted |-> Drifted(prior.resources)]

\* Mutant: deletions and updates are let through.
Material_NoDeletionCheck(p, c) ==
    ~p.drifted /\ Creates(p) = ExpectedCreates(c)

\* material_effect: the stage's creates and nothing else, no drift.
Material(p, c) ==
    /\ ~p.drifted
    /\ Alters(p) = {}
    /\ Creates(p) = ExpectedCreates(c)

\* state_identity: the generation of the object's metadata with the content
\* pulled; an absent object has the empty content.
Pulled(generation) == IF generation = 0 THEN NoState ELSE state

\* verify_routing_binding, verify_routing_binding's result
BindingOf(c) == IF c.stage = "routing" THEN comments[c.comment] ELSE None

BindingHolds(c) ==
    c.stage = "routing" => /\ comments[c.comment] # None
                           /\ comments[c.comment].uri = c.uri

Effect(r) ==
    [pr |-> run[r].pr, head |-> run[r].head, base |-> run[r].base,
     candidate |-> run[r].candidate, binding |-> run[r].binding,
     generation |-> run[r].generation, pulled |-> run[r].pulled,
     creates |-> Creates(run[r].plan)]

Key(r) == <<run[r].pr, run[r].head>>

----------------------------------------------------------------------------
\* Commit s is main, of candidate c, at the first use of the control, before
\* or after the base was applied.
Init ==
    /\ \E s \in Shas, c \in [stage : {"empty", "base"}, uri : {None}, comment : {None}] :
        /\ candidateAt = [x \in Shas |-> IF x = s THEN c ELSE None]
        /\ main = s
        /\ \/ state = NoState
           \/ state = [version |-> 1, resources |-> Config(c)]
    /\ live = state.resources
    /\ pr = [p \in PullRequests |->
                [status |-> "none", head |-> None, base |-> None, merge |-> None]]
    /\ comments = [c \in Comments |-> None]
    /\ evidence = [k \in Keys |-> None]
    /\ lock = None
    /\ run = [r \in Runs |-> NewRun]

----------------------------------------------------------------------------
\* The repository

Commit(s, c) ==
    /\ candidateAt[s] = None
    /\ candidateAt' = [candidateAt EXCEPT ![s] = c]

Open(p, s, c) ==
    /\ pr[p].status = "none"
    /\ Commit(s, c)
    /\ pr' = [pr EXCEPT ![p] = [status |-> "open", head |-> s, base |-> main, merge |-> None]]
    /\ UNCHANGED <<main, comments, evidence, cloud, run>>

PushHead(p, s, c) ==
    /\ pr[p].status = "open"
    /\ Commit(s, c)
    /\ \E base \in {pr[p].base, main} :
        pr' = [pr EXCEPT ![p].head = s, ![p].base = base]
    /\ UNCHANGED <<main, comments, evidence, cloud, run>>

\* The merge takes the head's file, or, when main's has changed since the
\* base, what a resolution of the two leaves.
Merge(p, s) ==
    /\ pr[p].status = "open"
    /\ \E c \in {candidateAt[pr[p].head], candidateAt[main]} :
        /\ \/ c = candidateAt[pr[p].head]
           \/ candidateAt[main] # candidateAt[pr[p].base]
        /\ Commit(s, c)
    /\ main' = s
    /\ pr' = [pr EXCEPT ![p].status = "merged", ![p].merge = s]
    /\ UNCHANGED <<comments, evidence, cloud, run>>

\* A commit that leaves the candidate as it is
MainMoves(s) ==
    /\ Commit(s, candidateAt[main])
    /\ main' = s
    /\ UNCHANGED <<pr, comments, evidence, cloud, run>>

\* The verification workflow posts a binding, or a comment is edited or removed.
CommentChanges(c, b) ==
    /\ comments[c] # b
    /\ comments' = [comments EXCEPT ![c] = b]
    /\ UNCHANGED <<candidateAt, main, pr, evidence, cloud, run>>

----------------------------------------------------------------------------
\* Changes by hand

ChangeLive(a, v) ==
    /\ live[a] # v
    /\ live' = [live EXCEPT ![a] = v]
    /\ UNCHANGED <<github, evidence, state, lock, run>>

\* terraform import, or terraform state rm
ChangeState(a, v) ==
    /\ lock = None
    /\ state.version \in 1..(MaxVersion - 1)
    /\ state.resources[a] # v
    /\ state' = [version |-> state.version + 1,
                 resources |-> [state.resources EXCEPT ![a] = v]]
    /\ UNCHANGED <<github, evidence, lock, live, run>>

\* terraform force-unlock, of a run that is gone
ForceUnlock ==
    /\ lock # None
    /\ run[lock].stage = "lost"
    /\ lock' = None
    /\ UNCHANGED <<github, evidence, state, live, run>>

----------------------------------------------------------------------------
\* Plan runs

\* verify-caller, verify-pr --require-open, fetch-candidate, verify-routing-binding
BindPlan(r, p) ==
    /\ run[r].stage = "idle"
    /\ pr[p].status = "open"
    /\ LET c == candidateAt[pr[p].head]
       IN /\ BindingHolds(c)
          /\ run' = [run EXCEPT ![r] = [NewRun EXCEPT
                        !.stage = "bound", !.pr = p, !.head = pr[p].head,
                        !.base = pr[p].base, !.candidate = c, !.binding = BindingOf(c)]]
    /\ UNCHANGED <<github, evidence, cloud>>

\* gcs-metadata
ReadMetadata(r) ==
    /\ run[r].stage = "bound" /\ run[r].kind = "plan"
    /\ run' = [run EXCEPT ![r].stage = "read", ![r].generation = state.version]
    /\ UNCHANGED <<github, evidence, cloud>>

\* prepare-plan-workdir: of an absent object the plan directory has no
\* backend, so that the read-only planner does not create it.
PullState(r) ==
    /\ run[r].stage = "read" /\ run[r].kind = "plan"
    /\ run' = [run EXCEPT ![r].stage = "pulled", ![r].pulled = Pulled(run[r].generation)]
    /\ UNCHANGED <<github, evidence, cloud>>

PlanCandidate(r) ==
    /\ run[r].stage = "pulled" /\ run[r].kind = "plan"
    /\ run[r].generation # 0 => lock = None
    /\ run' = [run EXCEPT ![r].stage = "planned",
                          ![r].plan = TakePlan(run[r].candidate, Pulled(run[r].generation))]
    /\ UNCHANGED <<github, evidence, cloud>>

\* Mutant: the generation is not read again.
Unmoved_ContentOnly(r) == run[r].pulled = Pulled(state.version)

\* The metadata and the state are read again and both must be the same.
Unmoved(r) ==
    /\ state.version = run[r].generation
    /\ run[r].pulled = Pulled(state.version)

Recheck(r) ==
    /\ run[r].stage = "planned" /\ run[r].kind = "plan"
    /\ Unmoved(r)
    /\ run' = [run EXCEPT ![r].stage = "rechecked"]
    /\ UNCHANGED <<github, evidence, cloud>>

\* ifGenerationMatch=0
Creatable(k) == evidence[k] = None

\* build-effect, upload-effect; the answer of the upload may be lost.
Upload(r) ==
    /\ run[r].stage = "rechecked"
    /\ Material(run[r].plan, run[r].candidate)
    /\ Creatable(Key(r))
    /\ evidence' = [evidence EXCEPT ![Key(r)] = Effect(r)]
    /\ \E end \in {"done", "failed"} : run' = [run EXCEPT ![r].stage = end]
    /\ UNCHANGED <<github, cloud>>

----------------------------------------------------------------------------
\* Apply runs

\* verify-main, verify-pr --require-merged, fetch-candidate of the head and
\* of main and their comparison, verify-routing-binding; the owner names the
\* evidence object.
SameCandidate(p) == candidateAt[pr[p].head] = candidateAt[main]

BindApply(r, p, k) ==
    /\ run[r].stage = "idle"
    /\ pr[p].status = "merged"
    /\ pr[p].merge = main
    /\ SameCandidate(p)
    /\ LET c == candidateAt[main]
       IN /\ BindingHolds(c)
          /\ run' = [run EXCEPT ![r] = [NewRun EXCEPT
                        !.stage = "bound", !.kind = "apply", !.pr = p, !.head = pr[p].head,
                        !.base = pr[p].base, !.object = k, !.candidate = c,
                        !.binding = BindingOf(c)]]
    /\ UNCHANGED <<github, evidence, cloud>>

\* download-effect, gcs-metadata
Download(r) ==
    /\ run[r].stage = "bound" /\ run[r].kind = "apply"
    /\ evidence[run[r].object] # None
    /\ run' = [run EXCEPT ![r].stage = "read", ![r].reviewed = evidence[run[r].object],
                          ![r].generation = state.version]
    /\ UNCHANGED <<github, evidence, cloud>>

\* terraform init with the backend creates the object when there is none.
InitBackend(r) ==
    /\ run[r].stage = "read" /\ run[r].kind = "apply"
    /\ state.version = 0 => lock = None
    /\ state' = IF state.version = 0 THEN [state EXCEPT !.version = 1] ELSE state
    /\ run' = [run EXCEPT ![r].stage = "pulled",
                          ![r].pulled = IF run[r].generation = 0 THEN NoState ELSE state]
    /\ UNCHANGED <<github, evidence, lock, live>>

PlanMerged(r) ==
    /\ run[r].stage = "pulled" /\ run[r].kind = "apply"
    /\ lock = None
    /\ run' = [run EXCEPT ![r].stage = "planned",
                          ![r].plan = TakePlan(run[r].candidate, state)]
    /\ UNCHANGED <<github, evidence, cloud>>

\* Mutant: only the creates are compared.
Reviewed_Creates(r) == Effect(r).creates = run[r].reviewed.creates

\* Mutant: the routing binding is not compared.
Reviewed_NoBinding(r) ==
    Effect(r) = [run[r].reviewed EXCEPT !.binding = run[r].binding]

\* compare-effect
Reviewed(r) == Effect(r) = run[r].reviewed

\* Mutant: terraform apply without the saved plan.
PlanToApply_Fresh(r) == TakePlan(run[r].candidate, state)

\* Terraform refuses a saved plan whose state has moved.
PlanToApply(r) == run[r].plan

BeginApply(r) ==
    /\ run[r].stage = "planned" /\ run[r].kind = "apply"
    /\ Material(run[r].plan, run[r].candidate)
    /\ Reviewed(r)
    /\ lock = None
    /\ PlanToApply(r).version = state.version
    /\ lock' = r
    /\ run' = [run EXCEPT ![r].stage = "applying", ![r].plan = PlanToApply(r)]
    /\ UNCHANGED <<github, evidence, state, live>>

\* What succeeds of the plan: a resource that is there cannot be created,
\* but a service that is enabled can be enabled.
Succeeds(p, done) ==
    /\ done \subseteq Creates(p) \cup Alters(p)
    /\ \A a \in done \cap Creates(p) :
          live[a] = None \/ (a \in Idempotent /\ live[a] = p.target[a])

Changes(p, done, resources) ==
    [a \in Addresses |-> IF a \in done THEN p.target[a] ELSE resources[a]]

Saved(p, done) ==
    IF done = {} THEN state
    ELSE [version |-> state.version + 1, resources |-> Changes(p, done, state.resources)]

\* terraform apply ends: the state is written and the lock is gone.
EndApply(r, done) ==
    /\ run[r].stage = "applying"
    /\ Succeeds(run[r].plan, done)
    /\ state.version < MaxVersion
    /\ live' = Changes(run[r].plan, done, live)
    /\ state' = Saved(run[r].plan, done)
    /\ lock' = None
    /\ run' = [run EXCEPT ![r].created = done, ![r].saved = done,
                          ![r].stage = IF done = Creates(run[r].plan) \cup Alters(run[r].plan)
                                       THEN "applied" ELSE "partial"]
    /\ UNCHANGED <<github, evidence>>

\* The runner is lost: the lock stays and some of what was done is not saved.
LoseApply(r, done, saved) ==
    /\ run[r].stage = "applying"
    /\ Succeeds(run[r].plan, done)
    /\ saved \subseteq done
    /\ state.version < MaxVersion
    /\ live' = Changes(run[r].plan, done, live)
    /\ state' = Saved(run[r].plan, saved)
    /\ run' = [run EXCEPT ![r].created = done, ![r].saved = saved,
                          ![r].stage = "lost"]
    /\ UNCHANGED <<github, evidence, lock>>

\* terraform plan -detailed-exitcode
NoChange(r) ==
    /\ run[r].stage = "applied"
    /\ lock = None
    /\ LET p == TakePlan(run[r].candidate, state)
       IN Creates(p) \cup Alters(p) = {} /\ ~p.drifted
    /\ run' = [run EXCEPT ![r].stage = "done"]
    /\ UNCHANGED <<github, evidence, cloud>>

\* A call fails, a check refuses, or the job times out.
Fail(r) ==
    /\ run[r].stage \in {"bound", "read", "pulled", "planned", "rechecked"}
    /\ run' = [run EXCEPT ![r] = [NewRun EXCEPT !.stage = "failed"]]
    /\ UNCHANGED <<github, evidence, cloud>>

\* The runner is lost while terraform plan holds the lock.
LosePlan(r) ==
    /\ run[r].stage = "pulled"
    /\ run[r].kind = "plan" => run[r].generation # 0
    /\ lock = None
    /\ lock' = r
    /\ run' = [run EXCEPT ![r] = [NewRun EXCEPT !.stage = "lost"]]
    /\ UNCHANGED <<github, evidence, state, live>>

----------------------------------------------------------------------------
Repository ==
    \/ \E s \in Shas, p \in PullRequests, c \in Candidates : Open(p, s, c) \/ PushHead(p, s, c)
    \/ \E s \in Shas, p \in PullRequests : Merge(p, s)
    \/ \E s \in Shas : MainMoves(s)
    \/ \E c \in Comments, b \in Bindings \cup {None} : CommentChanges(c, b)

ByHand ==
    \/ \E a \in Editable, v \in {Changed, None} : ChangeLive(a, v)
    \/ \E a \in Editable : \E v \in {live[a], None} : ChangeState(a, v)
    \/ ForceUnlock

PlanRun(r) ==
    \/ \E p \in PullRequests : BindPlan(r, p)
    \/ ReadMetadata(r) \/ PullState(r) \/ PlanCandidate(r) \/ Recheck(r) \/ Upload(r)

ApplyRun(r) ==
    \/ \E p \in PullRequests, k \in Keys : BindApply(r, p, k)
    \/ Download(r) \/ InitBackend(r) \/ PlanMerged(r) \/ BeginApply(r)
    \/ \E done \in SUBSET Addresses : EndApply(r, done)
    \/ \E done \in SUBSET Addresses : \E saved \in SUBSET done : LoseApply(r, done, saved)
    \/ NoChange(r)

Workflow(r) == PlanRun(r) \/ ApplyRun(r) \/ Fail(r) \/ LosePlan(r)

Next == Repository \/ ByHand \/ \E r \in Runs : Workflow(r)

Spec == Init /\ [][Next]_vars

----------------------------------------------------------------------------
\* Every variable has its type.
TypeOK ==
    /\ candidateAt \in [Shas -> Candidates \cup {None}]
    /\ main \in Shas
    /\ pr \in [PullRequests -> PrStates]
    /\ comments \in [Comments -> Bindings \cup {None}]
    /\ evidence \in [Keys -> Effects \cup {None}]
    /\ state \in States
    /\ lock \in Runs \cup {None}
    /\ live \in Resources
    /\ run \in [Runs -> RunStates]

\* The evidence of a plan is about one state: the generation, the content
\* and the creates it records belong together, whatever wrote the state
\* while the plan was made (the second reading and cmp of the plan workflow).
EvidenceIsConsistent ==
    \A k \in Keys : evidence[k] # None =>
        LET e == evidence[k]
        IN /\ e.generation = e.pulled.version
           /\ e.creates = {a \in Addresses : /\ Config(e.candidate)[a] # None
                                             /\ e.pulled.resources[a] = None}

\* What an apply run has created was recorded by a plan of that head, is what
\* that head's candidate declares, and that head was merged as it was
\* reviewed (the binding, compare-effect and the saved plan of the apply
\* workflow, and evidence that is never overwritten).
CreatedAsReviewed ==
    \A r \in Runs : run[r].created # {} =>
        LET p == pr[run[r].pr]
            e == evidence[Key(r)]
        IN /\ p.status = "merged"
           /\ p.head = run[r].head
           /\ e # None
           /\ e.candidate = candidateAt[p.head]
           /\ e.candidate = candidateAt[p.merge]
           /\ run[r].created \subseteq e.creates
           /\ run[r].plan.target = Config(e.candidate)

\* A routing subscription that a run has created pushes to the address the
\* verification recorded when the plan was reviewed and when it was bound for
\* the apply, and the base resources were there (verify-routing-binding of
\* both workflows, the closed create sets of material_effect).
RoutingIsVerified ==
    \A r \in Runs : RoutingAddress \in run[r].created =>
        LET e == evidence[Key(r)]
        IN /\ e.binding # None
           /\ run[r].binding = e.binding
           /\ run[r].plan.target[RoutingAddress] = e.binding.uri
           /\ \A a \in BaseAddresses : e.pulled.resources[a] = Declared

HasApplied(r) == run[r].created # {}

\* A run is lost, and nothing of what it created is in the state.
LostUnsaved(r) == run[r].stage = "lost" /\ run[r].saved = {}

\* Of the runs that have applied the effect of one plan's evidence, whole or in
\* part, all but one were lost before the state had anything of it: the effect
\* is written to the state by one run, though runs are not serialised, unless
\* the resources or the state are also changed by hand (the saved plan and
\* compare-effect of the apply workflow, and the lock).
AppliedOnce ==
    Editable = {} =>
        \A r, s \in Runs :
            r # s /\ HasApplied(r) /\ HasApplied(s) /\ Key(r) = Key(s) =>
                LostUnsaved(r) \/ LostUnsaved(s)

\* No step of a run changes or removes a resource there is (material_effect
\* refuses updates, replacements, deletions and drift).
NeverDestroys ==
    [][(\E r \in Runs : run'[r] # run[r]) =>
           \A a \in Addresses : live[a] # None => live'[a] = live[a]]_vars

----------------------------------------------------------------------------
\* The inductive invariant

StateInv == state.version = 0 => state.resources = Nothing

PrInv ==
    /\ candidateAt[main] # None
    /\ \A p \in PullRequests :
        /\ pr[p].status # "none" => /\ pr[p].head # None /\ pr[p].base # None
                                    /\ candidateAt[pr[p].head] # None
        /\ pr[p].status = "merged" => /\ pr[p].merge # None
                                      /\ candidateAt[pr[p].merge] # None

Verified(candidate, binding) ==
    candidate.stage = "routing" => binding # None /\ binding.uri = candidate.uri

\* Evidence is kept under its own key and records a plan that was material.
EvidenceInv ==
    \A k \in Keys : evidence[k] # None =>
        LET e == evidence[k]
        IN /\ k = <<e.pr, e.head>>
           /\ e.candidate = candidateAt[e.head]
           /\ Verified(e.candidate, e.binding)
           /\ e.creates = ExpectedCreates(e.candidate)
           /\ \A a \in Addresses : e.pulled.resources[a] # None =>
                  e.pulled.resources[a] = Config(e.candidate)[a]

\* What a run has bound, and who has not.
BoundInv(r) ==
    /\ run[r].stage \in {"bound", "read", "pulled", "planned", "rechecked",
                         "applying", "applied", "partial", "done"} => run[r].pr # None
    /\ run[r].stage = "rechecked" => run[r].kind = "plan"
    /\ run[r].stage = "applying" => run[r].kind = "apply"
    /\ run[r].created # {} =>
           /\ run[r].pr # None /\ run[r].kind = "apply"
           /\ run[r].stage \in {"applied", "partial", "done", "lost"}
    /\ run[r].saved \subseteq run[r].created
    /\ run[r].saved # run[r].created => run[r].stage = "lost"
    /\ run[r].pr # None =>
           /\ run[r].head # None /\ run[r].base # None /\ run[r].candidate # None
           /\ run[r].candidate = candidateAt[run[r].head]
           /\ Verified(run[r].candidate, run[r].binding)
    /\ run[r].pr # None /\ run[r].kind = "apply" =>
           /\ pr[run[r].pr].status = "merged"
           /\ pr[run[r].pr].head = run[r].head
           /\ run[r].candidate = candidateAt[pr[run[r].pr].merge]
           /\ run[r].object # None

\* What a plan run has read, pulled and planned, against the state as it is now.
PlanInv(r) ==
    run[r].kind = "plan" =>
        /\ run[r].stage = "read" => run[r].generation <= state.version
        /\ run[r].stage \in {"pulled", "planned"} =>
               /\ run[r].pulled.version <= state.version
               /\ run[r].pulled.version = state.version => run[r].pulled = state
               /\ run[r].generation = 0 <=> run[r].pulled.version = 0
               /\ run[r].pulled.version = 0 => run[r].pulled = NoState
        /\ run[r].stage = "planned" =>
               /\ run[r].pulled.version <= run[r].plan.version
               /\ run[r].plan.version <= state.version
               /\ run[r].plan.version = run[r].pulled.version =>
                      run[r].plan.prior = run[r].pulled.resources
        /\ run[r].stage = "rechecked" =>
               /\ run[r].generation = run[r].pulled.version
               /\ run[r].plan.prior = run[r].pulled.resources
        /\ run[r].stage \in {"planned", "rechecked"} =>
               run[r].plan.target = Config(run[r].candidate)

Approved(r) == Material(run[r].plan, run[r].candidate) /\ Effect(r) = run[r].reviewed

\* What an apply run has downloaded, planned and compared, and that the state
\* is still the one it planned against while it applies.
ApplyInv(r) ==
    run[r].kind = "apply" =>
        /\ run[r].stage \in {"read", "pulled", "planned", "applying"} \/ run[r].created # {} =>
               run[r].reviewed # None /\ evidence[run[r].object] = run[r].reviewed
        /\ run[r].stage \in {"planned", "applying"} \/ run[r].created # {} =>
               run[r].plan.target = Config(run[r].candidate)
        /\ run[r].stage = "planned" =>
               /\ run[r].plan.version <= state.version
               /\ run[r].plan.version = state.version => run[r].plan.prior = state.resources
        /\ run[r].stage = "applying" =>
               lock = r /\ Approved(r) /\ run[r].plan.prior = state.resources
        /\ run[r].created # {} => Approved(r) /\ run[r].created \subseteq Creates(run[r].plan)

RunInv == \A r \in Runs : BoundInv(r) /\ PlanInv(r) /\ ApplyInv(r)

\* What runs have saved stays in the state but for changes by hand, and two
\* runs have not both saved some of one effect.
SavedInv ==
    Editable = {} =>
        \A r \in Runs :
            /\ \A a \in run[r].saved : state.resources[a] # None
            /\ \A s \in Runs : r # s /\ Key(r) = Key(s) => run[r].saved = {} \/ run[s].saved = {}

IInv ==
    /\ TypeOK /\ StateInv /\ PrInv /\ EvidenceInv /\ RunInv
    /\ EvidenceIsConsistent /\ SavedInv

=============================================================================
