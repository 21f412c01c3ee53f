------------------------- MODULE FoundationControl -------------------------
(***************************************************************************)
(* The foundation Terraform control, from the workflows                    *)
(* terraform-foundation-plan.yml, -apply.yml and -drift.yml, the reusable  *)
(* workflows they call, and scripts/terraform_control_core.py,             *)
(* terraform_control_remote.py and terraform_drift.py.                     *)
(*                                                                         *)
(* A validated push to a pull request starts a plan run, a validated push  *)
(* to main an apply run, the clock or the owner a drift run.  All of them  *)
(* share one concurrency group: a run waits until no other is active.  Any *)
(* job of a run that is over may be run again with the outputs of the jobs *)
(* before it.  Changes by hand are in no group and interleave.             *)
(***************************************************************************)
EXTENDS Naturals, FiniteSets

CONSTANTS
    Runs,             \* workflow runs
    PullRequests,     \* pull requests that change the candidate file alone
    Shas,             \* commits, numbered in the order they are made
    Issues,           \* issue numbers
    Sentinel,         \* SENTINEL_ADDRESS
    Phase4Addresses,  \* PHASE4_CREATE_ADDRESSES
    Idempotent,       \* addresses of google_project_service resources
    Declared,         \* configuration of a resource in the candidate
    Changed,          \* configuration nobody declared
    Editable,         \* bound: addresses that are also changed by hand
    MaxVersion,       \* bound: how often the state object is written
    MaxEvents,        \* bound: attempts of runs and changes by hand together
    None

VARIABLES
    candidateAt,  \* Shas -> the candidate at that commit, or None
    main,         \* head of the protected branch
    pr,           \* PullRequests -> the pull request
    evidence,     \* plan-evidence/foundation/: <<pull request, head>> -> effect or None
    state,        \* foundation/default.tfstate
    locked,       \* there is a foundation/default.tflock
    live,         \* the resources there are: address -> configuration or None
    issues,       \* Issues -> the open drift issue, or None
    late,         \* drift issues posted that GitHub has not stored yet
    events,       \* how many attempts and changes by hand there were
    run           \* Runs -> state of the run

vars == <<candidateAt, main, pr, evidence, state, locked, live, issues, late, events,
          run>>

rest == <<issues, late, events>>

github == <<candidateAt, main, pr>>

cloud == <<state, locked, live>>

----------------------------------------------------------------------------
Addresses == {Sentinel} \cup Phase4Addresses

Resources == [Addresses -> {Declared, Changed, None}]

\* validate_candidate_document: {}, the sentinel alone, or the Phase 4 document.
Candidates == {"empty", "sentinel", "phase4"}

PrStates == [status : {"none", "open", "merged"},
             head : Shas \cup {None}, base : Shas \cup {None}, merge : Shas \cup {None}]

\* state_identity_from_state; serial and generation move together.
States == [version : 1..MaxVersion, resources : Resources]

\* A saved plan: the configuration, what refresh found of the resources of
\* the state, which of them had drifted, and the version of the state.
Plans == [target : Resources, prior : Resources, drift : SUBSET Addresses,
          version : 1..MaxVersion]

\* build_private_effect; the workflow commit and its digests are fixed.
Effects == [pr : PullRequests, head : Shas, base : Shas, candidate : Candidates,
            generation : 1..MaxVersion, pulled : States, creates : SUBSET Addresses]

Keys == PullRequests \X Shas

\* The planned changes and the drifted resources of a drift manifest.
Findings == [planned : SUBSET (Addresses \X {Declared, Changed, None}),
             drift : SUBSET Addresses]

Fingerprints == [candidate : Candidates, findings : Findings]

\* An issue, and whether it was stored after its run had failed; a post that
\* is on its way, by the attempt that sent it.
DriftIssues == [fingerprint : Fingerprints, late : BOOLEAN]

Posts == [attempt : 0..MaxEvents, fingerprint : Fingerprints]

Jobs == {"select", "trusted", "report"}

Active == Jobs \cup {"bound", "read", "pulled", "planned", "rechecked",
                     "applying", "applied", "listed"}

RunStates == [kind : {"plan", "apply", "drift"},
              stage : Active \cup {"idle", "queued", "done", "failed"},
              job : Jobs,
              pr : PullRequests \cup {None}, head : Shas \cup {None},
              base : Shas \cup {None}, main : Shas \cup {None},
              candidate : Candidates \cup {None}, generation : 1..MaxVersion,
              pulled : States, plan : Plans, reviewed : Effects \cup {None},
              found : Fingerprints \cup {None}, match : Issues \cup {None}]

ASSUME ShasOK == Shas \subseteq Nat

ASSUME BoundsOK == MaxVersion \in Nat \ {0} /\ MaxEvents \in Nat

ASSUME NoneIsNothing ==
    /\ None \notin Shas /\ None \notin PullRequests /\ None \notin Issues
    /\ None \notin Candidates /\ None \notin Effects /\ None \notin Fingerprints
    /\ None \notin DriftIssues
    /\ None \notin {Declared, Changed}

ASSUME AddressesOK == Declared # Changed /\ Sentinel \notin Phase4Addresses

ASSUME EditableOK == Editable \cup Idempotent \subseteq Addresses

Nothing == [a \in Addresses |-> None]

NoState == [version |-> 1, resources |-> Nothing]

NoPlan == [target |-> Nothing, prior |-> Nothing, drift |-> {}, version |-> 1]

NewRun == [kind |-> "plan", stage |-> "idle", job |-> "select",
           pr |-> None, head |-> None, base |-> None, main |-> None,
           candidate |-> None, generation |-> 1, pulled |-> NoState, plan |-> NoPlan,
           reviewed |-> None, found |-> None, match |-> None]

----------------------------------------------------------------------------
\* assemble_workdir
Config(c) ==
    [a \in Addresses |-> IF c = "phase4" \/ (c = "sentinel" /\ a = Sentinel)
                         THEN Declared ELSE None]

\* terraform plan of candidate c: it refreshes what the state holds.
TakePlan(c) ==
    LET refreshed == [a \in Addresses |-> IF state.resources[a] = None THEN None ELSE live[a]]
    IN [target |-> Config(c), prior |-> refreshed, version |-> state.version,
        drift |-> {a \in Addresses : refreshed[a] # state.resources[a]}]

\* The resource_changes of a plan, and those whose action is not no-op.
Rows(p) == {a \in Addresses : p.target[a] # None \/ p.prior[a] # None}

Acts(p) == {a \in Addresses : p.target[a] # p.prior[a]}

Creates(p) == {a \in Acts(p) : p.prior[a] = None}

\* Mutant: the actions of the rows are not looked at.
Material_AnyAction(p) == p.drift = {} /\ Rows(p) \in {{Sentinel}, Addresses} /\ Acts(p) # {}

\* material_effect: the sentinel is created, alone, or it is there and all
\* the Phase 4 resources are created; a plan that changes nothing is not
\* applyable.
Material(p) ==
    /\ p.drift = {}
    /\ Acts(p) # {} /\ Acts(p) = Creates(p)
    /\ \/ Rows(p) = {Sentinel}
       \/ Rows(p) = Addresses /\ Acts(p) = Phase4Addresses

\* _validate_plan: planned changes, and drift of a resource whose row is not
\* a no-op.
FindingsOf(p) ==
    [planned |-> {<<a, p.prior[a]>> : a \in Acts(p)},
     drift |-> p.drift \ (Rows(p) \ Acts(p))]

IsDrift(f) == f.planned # {} \/ f.drift # {}

\* Mutant: the base is left out of the effect.
Effect_NoBase(r) ==
    [pr |-> run[r].pr, head |-> run[r].head, candidate |-> run[r].candidate,
     generation |-> run[r].generation, pulled |-> run[r].pulled,
     creates |-> Creates(run[r].plan)]

Effect(r) ==
    [pr |-> run[r].pr, head |-> run[r].head, base |-> run[r].base,
     candidate |-> run[r].candidate, generation |-> run[r].generation,
     pulled |-> run[r].pulled, creates |-> Creates(run[r].plan)]

Key(r) == <<run[r].pr, run[r].head>>

\* A run at the given end: what is left of it are the outputs of its jobs.
Ended(r, end) ==
    [NewRun EXCEPT !.kind = run[r].kind, !.stage = end, !.pr = run[r].pr,
                   !.head = run[r].head, !.base = run[r].base, !.main = run[r].main,
                   !.found = run[r].found]

----------------------------------------------------------------------------
\* The foundation is applied as the candidate on main, at some commit.
Init ==
    /\ \E s \in Shas, c \in Candidates :
        /\ \A t \in Shas : s <= t
        /\ candidateAt = [x \in Shas |-> IF x = s THEN c ELSE None]
        /\ main = s
        /\ state = [version |-> 1, resources |-> Config(c)]
    /\ live = state.resources
    /\ pr = [p \in PullRequests |->
                [status |-> "none", head |-> None, base |-> None, merge |-> None]]
    /\ evidence = [k \in Keys |-> None]
    /\ locked = FALSE
    /\ issues = [i \in Issues |-> None]
    /\ late = {}
    /\ events = 0
    /\ run = [r \in Runs |-> NewRun]

----------------------------------------------------------------------------
\* The repository

Commit(s, c) ==
    /\ candidateAt[s] = None
    /\ \A t \in Shas : t < s => candidateAt[t] # None
    /\ candidateAt' = [candidateAt EXCEPT ![s] = c]

Open(p, s, c) ==
    /\ pr[p].status = "none"
    /\ Commit(s, c)
    /\ pr' = [pr EXCEPT ![p] = [status |-> "open", head |-> s, base |-> main, merge |-> None]]
    /\ UNCHANGED <<main, evidence, cloud, rest, run>>

PushHead(p, s, c) ==
    /\ pr[p].status = "open"
    /\ Commit(s, c)
    /\ \E base \in {pr[p].base, main} :
        pr' = [pr EXCEPT ![p].head = s, ![p].base = base]
    /\ UNCHANGED <<main, evidence, cloud, rest, run>>

\* The merge takes the head's file, or, when main's has changed since the
\* base, what a resolution of the two leaves.
MergeResults(p) ==
    {candidateAt[pr[p].head]} \cup
    (IF candidateAt[main] = candidateAt[pr[p].base] THEN {} ELSE {candidateAt[main]})

Merge(p, s) ==
    /\ pr[p].status = "open"
    /\ \E c \in MergeResults(p) : Commit(s, c)
    /\ main' = s
    /\ pr' = [pr EXCEPT ![p].status = "merged", ![p].merge = s]
    /\ UNCHANGED <<evidence, cloud, rest, run>>

\* Another pull request is merged, with a candidate or without.
MainMoves(s, c) ==
    /\ Commit(s, c)
    /\ main' = s
    /\ UNCHANGED <<pr, evidence, cloud, rest, run>>

CloseIssue(i) ==
    /\ events < MaxEvents
    /\ issues[i] # None
    /\ events' = events + 1
    /\ issues' = [issues EXCEPT ![i] = None]
    /\ UNCHANGED <<github, evidence, cloud, late, run>>

----------------------------------------------------------------------------
\* Changes by hand

ChangeLive(a, v) ==
    /\ events < MaxEvents
    /\ live[a] # v
    /\ events' = events + 1
    /\ live' = [live EXCEPT ![a] = v]
    /\ UNCHANGED <<github, evidence, state, locked, issues, late, run>>

\* terraform import, terraform state rm, or a write of the same content
ChangeState(a, v) ==
    /\ ~locked
    /\ events < MaxEvents
    /\ state.version < MaxVersion
    /\ events' = events + 1
    /\ state' = [version |-> state.version + 1,
                 resources |-> [state.resources EXCEPT ![a] = v]]
    /\ UNCHANGED <<github, evidence, locked, live, issues, late, run>>

\* terraform force-unlock, of a run that is gone
ForceUnlock ==
    /\ locked
    /\ \A r \in Runs : run[r].stage # "applying"
    /\ locked' = FALSE
    /\ UNCHANGED <<github, evidence, state, live, rest, run>>

----------------------------------------------------------------------------
\* Runs in the concurrency group

\* workflow_run of a validated pull request or push to main, schedule
Trigger(r) ==
    /\ run[r].stage = "idle"
    /\ \/ \E p \in PullRequests :
            /\ pr[p].status = "open"
            /\ run' = [run EXCEPT ![r].stage = "queued", ![r].pr = p,
                                  ![r].head = pr[p].head, ![r].base = pr[p].base]
       \/ run' = [run EXCEPT ![r].stage = "queued", ![r].kind = "apply", ![r].main = main]
       \/ run' = [run EXCEPT ![r].stage = "queued", ![r].kind = "drift", ![r].main = main,
                             ![r].job = "trusted"]
    /\ UNCHANGED <<github, evidence, cloud, rest>>

\* Mutant: the workflows are in no group.
GroupIsFree_Always == TRUE

\* concurrency: terraform-foundation
GroupIsFree == \A r \in Runs : run[r].stage \notin Active

Start(r) ==
    /\ run[r].stage = "queued"
    /\ events < MaxEvents
    /\ GroupIsFree
    /\ events' = events + 1
    /\ run' = [run EXCEPT ![r].stage = run[r].job]
    /\ UNCHANGED <<github, evidence, cloud, issues, late>>

\* Re-run all jobs, or one job with the outputs of those before it.
Rerun(r, job) ==
    /\ run[r].stage \in {"done", "failed"}
    /\ events < MaxEvents
    /\ job = "select" => run[r].kind # "drift"
    /\ job = "trusted" => run[r].kind = "drift" \/ run[r].pr # None
    /\ job = "report" => run[r].found # None
    /\ run' = [run EXCEPT ![r].stage = "queued", ![r].job = job]
    /\ UNCHANGED <<github, evidence, cloud, rest>>

\* The select job: the pull request of the trigger as it still is, or the one
\* whose merge is the commit of the trigger.
Select(r) ==
    /\ run[r].stage = "select"
    /\ \E p \in PullRequests :
        /\ IF run[r].kind = "plan"
           THEN /\ p = run[r].pr
                /\ pr[p].status = "open"
                /\ pr[p].head = run[r].head
                /\ pr[p].base = run[r].base
           ELSE /\ pr[p].status = "merged"
                /\ pr[p].merge = run[r].main
        /\ run' = [run EXCEPT ![r].stage = "trusted", ![r].pr = p,
                              ![r].head = pr[p].head, ![r].base = pr[p].base]
    /\ UNCHANGED <<github, evidence, cloud, rest>>

VerifyMain(r) == main = run[r].main

FetchCandidate(s) == candidateAt[s]

\* verify_pr, of an open pull request and of a merged one
VerifyPr(r, status) ==
    /\ pr[run[r].pr].status = status
    /\ pr[run[r].pr].head = run[r].head
    /\ pr[run[r].pr].base = run[r].base

\* verify-pr, fetch-candidate, assemble
BindPlan(r) ==
    /\ run[r].stage = "trusted" /\ run[r].kind = "plan"
    /\ VerifyPr(r, "open")
    /\ FetchCandidate(run[r].head) # "empty"
    /\ run' = [run EXCEPT ![r].stage = "bound", ![r].candidate = FetchCandidate(run[r].head)]
    /\ UNCHANGED <<github, evidence, cloud, rest>>

\* verify-main, verify-pr, fetch-candidate of the head and of main, assemble
BindApply(r) ==
    /\ run[r].stage = "trusted" /\ run[r].kind = "apply"
    /\ VerifyMain(r)
    /\ VerifyPr(r, "merged")
    /\ pr[run[r].pr].merge = run[r].main
    /\ FetchCandidate(run[r].head) = FetchCandidate(run[r].main)
    /\ FetchCandidate(run[r].head) # "empty"
    /\ run' = [run EXCEPT ![r].stage = "bound", ![r].candidate = FetchCandidate(run[r].main)]
    /\ UNCHANGED <<github, evidence, cloud, rest>>

\* verify-main, fetch-candidate, assemble
BindDrift(r) ==
    /\ run[r].stage = "trusted" /\ run[r].kind = "drift"
    /\ VerifyMain(r)
    /\ run' = [run EXCEPT ![r].stage = "bound", ![r].candidate = FetchCandidate(run[r].main)]
    /\ UNCHANGED <<github, evidence, cloud, rest>>

\* gcs-download, which fails when there is no such object
Download(r) == evidence[Key(r)]

\* ifGenerationMatch=0
Creatable(k) == evidence[k] = None

\* gcs-metadata; an apply run downloads the evidence of its own head first.
ReadMetadata(r) ==
    /\ run[r].stage = "bound"
    /\ run[r].kind = "apply" => Download(r) # None
    /\ run' = [run EXCEPT ![r].stage = "read", ![r].generation = state.version,
                          ![r].reviewed = IF run[r].kind = "apply" THEN Download(r) ELSE None]
    /\ UNCHANGED <<github, evidence, cloud, rest>>

\* terraform init, terraform state pull, state-identity
PullState(r) ==
    /\ run[r].stage = "read"
    /\ run' = [run EXCEPT ![r].stage = "pulled", ![r].pulled = state]
    /\ UNCHANGED <<github, evidence, cloud, rest>>

Plan(r) ==
    /\ run[r].stage = "pulled"
    /\ ~locked
    /\ run' = [run EXCEPT ![r].stage = "planned", ![r].plan = TakePlan(run[r].candidate)]
    /\ UNCHANGED <<github, evidence, cloud, rest>>

\* The state and its metadata are read again, and cmp; both are compared as
\* pairs, so that neither may have moved on its own.
Recheck(r) ==
    /\ run[r].stage = "planned" /\ run[r].kind # "apply"
    /\ state = run[r].pulled
    /\ state.version = run[r].generation
    /\ run' = [run EXCEPT ![r].stage = "rechecked"]
    /\ UNCHANGED <<github, evidence, cloud, rest>>

\* build-effect, gcs-upload; the answer may be lost.
Upload(r) ==
    /\ run[r].stage = "rechecked" /\ run[r].kind = "plan"
    /\ Material(run[r].plan)
    /\ Creatable(Key(r))
    /\ evidence' = [evidence EXCEPT ![Key(r)] = Effect(r)]
    /\ \E end \in {"done", "failed"} : run' = [run EXCEPT ![r] = Ended(r, end)]
    /\ UNCHANGED <<github, cloud, rest>>

----------------------------------------------------------------------------
\* The end of an apply run

\* Mutant: the identity of the state is not compared.
Reviewed_EffectOnly(r) ==
    Effect(r) = [run[r].reviewed EXCEPT !.generation = run[r].generation,
                                        !.pulled = run[r].pulled]

\* compare_private_effects
Reviewed(r) == Effect(r) = run[r].reviewed

\* build-effect, compare-effect, and terraform apply of the saved plan, which
\* Terraform refuses when the state has moved since.
BeginApply(r) ==
    /\ run[r].stage = "planned" /\ run[r].kind = "apply"
    /\ Material(run[r].plan)
    /\ Reviewed(r)
    /\ ~locked
    /\ run[r].plan.version = state.version
    /\ locked' = TRUE
    /\ run' = [run EXCEPT ![r].stage = "applying"]
    /\ UNCHANGED <<github, evidence, state, live, rest>>

\* What succeeds of the plan: a resource that is there cannot be created,
\* but a service that is enabled can be enabled.
Succeeds(p, done) ==
    /\ done \subseteq Acts(p)
    /\ \A a \in done \cap Creates(p) :
          live[a] = None \/ (a \in Idempotent /\ live[a] = p.target[a])

Changes(p, done, resources) ==
    [a \in Addresses |-> IF a \in done THEN p.target[a] ELSE resources[a]]

Saved(p, done) ==
    IF done = {} THEN state
    ELSE [version |-> state.version + 1, resources |-> Changes(p, done, state.resources)]

\* terraform apply ends: the state is written and the lock is gone.
EndApply(r, done) ==
    /\ run[r].stage = "applying"
    /\ Succeeds(run[r].plan, done)
    /\ state.version < MaxVersion
    /\ live' = Changes(run[r].plan, done, live)
    /\ state' = Saved(run[r].plan, done)
    /\ locked' = FALSE
    /\ run' = [run EXCEPT ![r] = IF done = Acts(run[r].plan)
                                 THEN [@ EXCEPT !.stage = "applied"] ELSE Ended(r, "failed")]
    /\ UNCHANGED <<github, evidence, rest>>

\* The runner is lost: the lock stays and some of what was done is not saved.
LoseApply(r, done, saved) ==
    /\ run[r].stage = "applying"
    /\ Succeeds(run[r].plan, done)
    /\ saved \subseteq done
    /\ state.version < MaxVersion
    /\ live' = Changes(run[r].plan, done, live)
    /\ state' = Saved(run[r].plan, saved)
    /\ run' = [run EXCEPT ![r] = Ended(r, "failed")]
    /\ UNCHANGED <<github, evidence, locked, rest>>

\* terraform plan -detailed-exitcode
NoChange(r) ==
    /\ run[r].stage = "applied"
    /\ ~locked
    /\ Acts(TakePlan(run[r].candidate)) = {}
    /\ run' = [run EXCEPT ![r] = Ended(r, "done")]
    /\ UNCHANGED <<github, evidence, cloud, rest>>

----------------------------------------------------------------------------
\* The end of a drift run

\* build_drift_manifest; without drift there is no report job.
Manifest(r) ==
    /\ run[r].stage = "rechecked" /\ run[r].kind = "drift"
    /\ LET f == FindingsOf(run[r].plan)
       IN run' = [run EXCEPT ![r] =
                    IF IsDrift(f)
                    THEN [Ended(r, "report") EXCEPT
                            !.found = [candidate |-> run[r].candidate, findings |-> f]]
                    ELSE [Ended(r, "done") EXCEPT !.found = None]]
    /\ UNCHANGED <<github, evidence, cloud, rest>>

\* Mutant: issues that are open are not looked for.
Matches_None(f) == {}

\* The open issues that carry the marker of the fingerprint
Matches(f) == {i \in Issues : issues[i] # None /\ issues[i].fingerprint = f}

ListIssues(r) ==
    /\ run[r].stage = "report"
    /\ LET found == Matches(run[r].found)
       IN /\ Cardinality(found) <= 1
          /\ \E i \in IF found = {} THEN {None} ELSE found :
                run' = [run EXCEPT ![r].stage = "listed", ![r].match = i]
    /\ UNCHANGED <<github, evidence, cloud, rest>>

OpenIssue(f, isLate) ==
    \E i \in Issues :
        /\ issues[i] = None
        /\ issues' = [issues EXCEPT ![i] = [fingerprint |-> f, late |-> isLate]]

\* A comment on the issue, or a new issue; the answer may be lost.
Report(r) ==
    /\ run[r].stage = "listed"
    /\ IF run[r].match # None THEN UNCHANGED issues ELSE OpenIssue(run[r].found, FALSE)
    /\ \E end \in {"done", "failed"} : run' = [run EXCEPT ![r] = Ended(r, end)]
    /\ UNCHANGED <<github, evidence, cloud, late, events>>

\* The run gives up on its new issue, which GitHub stores later or never.
ReportLate(r) ==
    /\ run[r].stage = "listed"
    /\ run[r].match = None
    /\ late' = late \cup {[attempt |-> events, fingerprint |-> run[r].found]}
    /\ run' = [run EXCEPT ![r] = Ended(r, "failed")]
    /\ UNCHANGED <<github, evidence, cloud, issues, events>>

LateIssue(p) ==
    /\ OpenIssue(p.fingerprint, TRUE)
    /\ late' = late \ {p}
    /\ UNCHANGED <<github, evidence, cloud, events, run>>

----------------------------------------------------------------------------
\* A call fails, a check refuses, the run is cancelled, or a job times out.
Fail(r) ==
    /\ run[r].stage \in Active \ {"applying"}
    /\ run' = [run EXCEPT ![r] = Ended(r, "failed")]
    /\ UNCHANGED <<github, evidence, cloud, rest>>

\* The runner is lost while terraform plan holds the lock.
LosePlan(r) ==
    /\ run[r].stage \in {"pulled", "applied"}
    /\ ~locked
    /\ locked' = TRUE
    /\ run' = [run EXCEPT ![r] = Ended(r, "failed")]
    /\ UNCHANGED <<github, evidence, state, live, rest>>

Repository ==
    \/ \E s \in Shas, p \in PullRequests, c \in Candidates : Open(p, s, c) \/ PushHead(p, s, c)
    \/ \E s \in Shas, p \in PullRequests : Merge(p, s)
    \/ \E s \in Shas, c \in Candidates : MainMoves(s, c)
    \/ \E i \in Issues : CloseIssue(i)
    \/ \E p \in late : LateIssue(p)

ByHand ==
    \/ \E a \in Editable, v \in {Changed, None} : ChangeLive(a, v)
    \/ \E a \in Editable : \E v \in {live[a], None} : ChangeState(a, v)
    \/ ForceUnlock

Apply(r) ==
    \/ BeginApply(r)
    \/ \E done \in SUBSET Addresses : EndApply(r, done)
    \/ \E done \in SUBSET Addresses : \E saved \in SUBSET done : LoseApply(r, done, saved)
    \/ NoChange(r)

Workflow(r) ==
    \/ Trigger(r) \/ Start(r) \/ Select(r)
    \/ \E job \in Jobs : Rerun(r, job)
    \/ BindPlan(r) \/ BindApply(r) \/ BindDrift(r)
    \/ ReadMetadata(r) \/ PullState(r) \/ Plan(r) \/ Recheck(r) \/ Upload(r)
    \/ Apply(r)
    \/ Manifest(r) \/ ListIssues(r) \/ Report(r) \/ ReportLate(r)
    \/ Fail(r) \/ LosePlan(r)

Next == Repository \/ ByHand \/ \E r \in Runs : Workflow(r)

Spec == Init /\ [][Next]_vars

----------------------------------------------------------------------------
\* Every variable has its type.
TypeOK ==
    /\ candidateAt \in [Shas -> Candidates \cup {None}]
    /\ main \in Shas
    /\ pr \in [PullRequests -> PrStates]
    /\ evidence \in [Keys -> Effects \cup {None}]
    /\ state \in States
    /\ locked \in BOOLEAN
    /\ live \in Resources
    /\ issues \in [Issues -> DriftIssues \cup {None}]
    /\ late \subseteq Posts
    /\ events \in 0..MaxEvents
    /\ run \in [Runs -> RunStates]

\* A step of a run that changes a resource creates it, as the merged
\* candidate declares it, for the evidence a plan run stored of the head that
\* was merged; and the run has read the state that evidence was made of,
\* however often it is run again and whatever is changed by hand before
\* (material_effect, compare_private_effects, evidence under its own key).
AppliesTheReviewed ==
    [][\A r \in Runs : run'[r] # run[r] /\ live' # live =>
           LET p == pr[run[r].pr]
               e == evidence[Key(r)]
           IN /\ p.status = "merged" /\ p.head = run[r].head
              /\ e # None
              /\ e.base = p.base
              /\ e.generation = run[r].generation /\ e.pulled = run[r].pulled
              /\ e.generation = e.pulled.version
              /\ \A a \in Addresses : live'[a] # live[a] =>
                     /\ live[a] = None
                     /\ a \in e.creates
                     /\ live'[a] = Config(candidateAt[p.merge])[a]
                     /\ e.pulled.resources[a] = None]_vars

OnTime(issue) == issue # None /\ ~issue.late

\* Of the open issues with one drift fingerprint at most one was stored while
\* its run was there: the report lists and creates in two calls, may lose
\* either answer and may be run again, but only a post that GitHub stores after
\* its run has failed can leave a second issue (the concurrency group and the
\* search of the report job).
OneIssue ==
    \A i, j \in Issues :
        /\ OnTime(issues[i]) /\ OnTime(issues[j])
        /\ issues[i].fingerprint = issues[j].fingerprint
        => i = j

=============================================================================
