--------------------------- MODULE HighAcceptance ---------------------------
(***************************************************************************)
(* Evidence for an image with HIGH findings, from                          *)
(* phase4-evidence-reusable.yml and scripts/phase4_acceptance_lifecycle.py.*)
(* A run adjudicates a build; findings that need review are let through by *)
(* an owner's acceptance comment on issue 28, which the run consumes by a  *)
(* comment of its own, posted once and read back; then it stores the SBOM  *)
(* and the transition manifest, each create-only.                          *)
(*                                                                         *)
(* The issue is the only shared record of who has used an acceptance, and  *)
(* a POST to it may fail, take effect with its answer lost, or take effect *)
(* after the run has given up.  A failed run may be run again, all of it   *)
(* or from the failed job on, under the same run id.                       *)
(***************************************************************************)
EXTENDS Naturals

CONSTANTS
    Builds,      \* Cloud Build ids; a build id stands for its image too
    Findings,    \* fingerprints of reviewable HIGH findings
    Runs,        \* workflow run ids
    Cids,        \* comment ids of the issue; an acceptance's is its token
    Written,     \* the issue as it stands: Cids -> comment or None
    OwnerWrites, \* comments the owner may add
    SourceOf,    \* Builds -> the position of its source in main's history
    MaxMain,     \* bound: how far main advances
    Preserved,   \* builds of PRESERVED_RECOVERY_TUPLE
    Exclusive,   \* whether the concurrency group serialises runs
    None

VARIABLES
    main,         \* position of the head of main
    comments,     \* Cids -> the comment, or None
    late,         \* comments posted that GitHub has not stored yet
    run,          \* Runs -> state of the run
    sbom,         \* Builds -> the run that stored the SBOM object, or None
    transitions,  \* Builds -> the transition manifest, or None
    uses          \* <<token, run>>: consumptions that runs have verified

vars == <<main, comments, late, run, sbom, transitions, uses>>

objects == <<sbom, transitions>>

----------------------------------------------------------------------------
Acceptances == [kind : {"acceptance"}, version : {1, 2}, build : Builds, findings : Findings]
Consumptions == [kind : {"consumption"}, token : Cids, build : Builds,
                 findings : Findings, run : Runs]
Malformed == [kind : {"malformed"}]
Comments == Acceptances \cup Consumptions \cup Malformed

\* scan-disposition: PASS, reviewable findings, critical ones, or no
\* completed analysis.
Dispositions == {"PASS", "FAIL_CRITICAL", "PENDING"} \cup Findings

Gates == {"PASS"} \cup Findings

Manifests == [run : Runs, gate : Gates, token : Cids \cup {None}, sbom : Runs]

ASSUME ConstantsOK ==
    /\ Written \in [Cids -> Comments \cup {None}]
    /\ OwnerWrites \subseteq Comments
    /\ MaxMain \in Nat
    /\ SourceOf \in [Builds -> 0..MaxMain]
    /\ Preserved \subseteq Builds
    /\ Exclusive \in BOOLEAN

ASSUME NoneIsNothing ==
    /\ None \notin Builds \cup Findings \cup Runs \cup Cids \cup Comments \cup Manifests
    /\ None \notin Gates

ASSUME FindingsAreNotVerdicts ==
    Findings \cap {"PASS", "FAIL_CRITICAL", "PENDING"} = {}

----------------------------------------------------------------------------
\* lifecycle_state: what the comments say of the acceptance t.

IsKind(c, kind) == comments[c] # None /\ comments[c].kind = kind

Matches(b, f) ==
    {t \in Cids : /\ IsKind(t, "acceptance")
                  /\ comments[t].build = b
                  /\ comments[t].findings = f}

ConsumptionsOf(t) ==
    {c \in Cids : IsKind(c, "consumption") /\ comments[c].token = t}

\* A comment in the right place that does not parse stops everything.
Readable == \A c \in Cids : ~IsKind(c, "malformed")

Accepted(t, b, f) ==
    /\ Readable
    /\ Matches(b, f) = {t}
    /\ \A c \in ConsumptionsOf(t) : comments[c].build = b /\ comments[c].findings = f

\* ACCEPTED_FOR_ONE_USE.
Available_Legacy(t, b, f) == Accepted(t, b, f) /\ ConsumptionsOf(t) = {}
Available(t, b, f) ==
    /\ Accepted(t, b, f)
    /\ ConsumptionsOf(t) = {}
    /\ comments[t].version = 2

\* verify_consumed: the one consumption of t is by run r.
ConsumedBy_NotUnique(t, b, f, r) ==
    /\ Accepted(t, b, f)
    /\ \E c \in ConsumptionsOf(t) : comments[c].run = r
ConsumedBy(t, b, f, r) ==
    /\ Accepted(t, b, f)
    /\ \E c \in Cids : ConsumptionsOf(t) = {c} /\ comments[c].run = r

----------------------------------------------------------------------------
\* A run: its stage, the job a failed run failed in, and what its jobs have
\* handed on.

Stages == {"new", "adjudicate", "prepare", "post", "reconcile",
           "sbom", "transition", "done", "failed"}

Working == Stages \ {"new", "done", "failed"}

JobOf(stage) ==
    IF stage = "adjudicate" THEN "adjudicate"
    ELSE IF stage \in {"prepare", "post", "reconcile"} THEN "prepare"
    ELSE "sbom"

Jobs == {"adjudicate", "prepare", "sbom"}

RunStates == [stage : Stages, failed : Jobs, build : Builds \cup {None},
              gate : Gates \cup {None}, token : Cids \cup {None}]

NewRun == [stage |-> "new", failed |-> "adjudicate", build |-> None,
           gate |-> None, token |-> None]

At(r, stage) == run[r].stage = stage

Enter(r, stage) == run' = [run EXCEPT ![r].stage = stage]

Failed(s) == [s EXCEPT !.stage = "failed", !.failed = JobOf(s.stage)]

Stop(r) == run' = [run EXCEPT ![r] = Failed(run[r])]

Build(r) == run[r].build

GroupFree == Exclusive => \A r \in Runs : run[r].stage \notin Working

\* Comment c is added under an id that GitHub gives out once.
Add(c) ==
    \E id \in Cids :
        /\ comments[id] = None
        /\ comments' = [comments EXCEPT ![id] = c]

Init ==
    /\ main = 0
    /\ comments = Written
    /\ late = {}
    /\ run = [r \in Runs |-> NewRun]
    /\ sbom = [b \in Builds |-> None]
    /\ transitions = [b \in Builds |-> None]
    /\ uses = {}

----------------------------------------------------------------------------
\* The world around the runs.

MainMoves ==
    /\ main < MaxMain
    /\ main' = main + 1
    /\ UNCHANGED <<comments, late, run, objects, uses>>

OwnerComments(c) ==
    /\ Add(c)
    /\ UNCHANGED <<main, late, run, objects, uses>>

LateArrival(c) ==
    /\ c \in late
    /\ Add(c)
    /\ late' = late \ {c}
    /\ UNCHANGED <<main, run, objects, uses>>

----------------------------------------------------------------------------
\* A build exists once its source has been main.
Start(r, b) ==
    /\ At(r, "new")
    /\ GroupFree
    /\ SourceOf[b] <= main
    /\ run' = [run EXCEPT ![r].stage = "adjudicate", ![r].build = b]
    /\ UNCHANGED <<main, comments, late, objects, uses>>

\* require_source_eligibility.
Eligible(b) == SourceOf[b] = main \/ b \in Preserved

\* Critical findings and unfinished analysis stop the run.
LetsThrough_Critical(disposition) == disposition # "PENDING"
LetsThrough(disposition) == disposition \in Gates

\* Job adjudicate.  The disposition is what Artifact Analysis says at the
\* time, which changes as vulnerabilities are published.  A PASS goes to the
\* evidence job, findings to the consumption; anything else fails.
Adjudicate(r, disposition) ==
    /\ At(r, "adjudicate")
    /\ Eligible(Build(r))
    /\ LetsThrough(disposition)
    /\ run' = [run EXCEPT
           ![r].stage = IF disposition = "PASS" THEN "sbom" ELSE "prepare",
           ![r].gate = disposition]
    /\ UNCHANGED <<main, comments, late, objects, uses>>

\* Job consume_acceptance: read, check-available, consumption-body.
Prepare(r) ==
    /\ At(r, "prepare")
    /\ \E t \in Cids :
        /\ Available(t, Build(r), run[r].gate)
        /\ run' = [run EXCEPT ![r].stage = "post", ![r].token = t]
    /\ UNCHANGED <<main, comments, late, objects, uses>>

ConsumptionBody(r) ==
    [kind |-> "consumption", token |-> run[r].token, build |-> Build(r),
     findings |-> run[r].gate, run |-> r]

\* The one POST, whatever its exit code: the comment is stored.
Post(r) ==
    /\ At(r, "post")
    /\ Add(ConsumptionBody(r))
    /\ Enter(r, "reconcile")
    /\ UNCHANGED <<main, late, objects, uses>>

\* It is stored later than the run reads the comments again.
PostLate(r) ==
    /\ At(r, "post")
    /\ late' = late \cup {ConsumptionBody(r)}
    /\ Enter(r, "reconcile")
    /\ UNCHANGED <<main, comments, objects, uses>>

\* It is not stored at all.
PostLost(r) ==
    /\ At(r, "post")
    /\ Enter(r, "reconcile")
    /\ UNCHANGED <<main, comments, late, objects, uses>>

\* The comments are read again, verify-consumed.
Verify(r) ==
    /\ At(r, "reconcile")
    /\ ConsumedBy(run[r].token, Build(r), run[r].gate, r)
    /\ uses' = uses \cup {<<run[r].token, r>>}
    /\ Enter(r, "sbom")
    /\ UNCHANGED <<main, comments, late, objects>>

\* ifGenerationMatch=0.
Creatable_Overwrites(object) == TRUE
Creatable(object) == object = None

\* Job evidence: the SBOM object, then the manifest that names it.  The
\* answer to either upload may be lost, which fails the job.
CommitSbom(r) ==
    /\ At(r, "sbom")
    /\ Creatable(sbom[Build(r)])
    /\ sbom' = [sbom EXCEPT ![Build(r)] = r]
    /\ UNCHANGED <<main, comments, late, transitions, uses>>

StoreSbom(r) == CommitSbom(r) /\ Enter(r, "transition")

StoreSbomAnswerLost(r) == CommitSbom(r) /\ Stop(r)

CommitTransition(r) ==
    /\ At(r, "transition")
    /\ Creatable(transitions[Build(r)])
    /\ transitions' = [transitions EXCEPT ![Build(r)] =
           [run |-> r, gate |-> run[r].gate, token |-> run[r].token, sbom |-> r]]
    /\ UNCHANGED <<main, comments, late, sbom, uses>>

StoreTransition(r) == CommitTransition(r) /\ Enter(r, "done")

StoreTransitionAnswerLost(r) == CommitTransition(r) /\ Stop(r)

\* A check does not pass, a call fails, the runner is lost or times out.
Fail(r) ==
    /\ run[r].stage \in Working
    /\ Stop(r)
    /\ UNCHANGED <<main, comments, late, objects, uses>>

\* "Re-run failed jobs" keeps the outputs of the jobs that succeeded.
RerunFailedJobs(r) ==
    /\ At(r, "failed")
    /\ GroupFree
    /\ Enter(r, run[r].failed)
    /\ UNCHANGED <<main, comments, late, objects, uses>>

\* "Re-run all jobs" keeps the run id and the inputs only.
Restarted(r) == [NewRun EXCEPT !.stage = "adjudicate", !.build = run[r].build]

RerunAllJobs(r) ==
    /\ run[r].stage \in {"done", "failed"}
    /\ GroupFree
    /\ run' = [run EXCEPT ![r] = Restarted(r)]
    /\ UNCHANGED <<main, comments, late, objects, uses>>

----------------------------------------------------------------------------
Work(r) ==
    \/ \E b \in Builds : Start(r, b)
    \/ \E d \in Dispositions : Adjudicate(r, d)
    \/ Prepare(r)
    \/ Post(r)
    \/ PostLate(r)
    \/ PostLost(r)
    \/ Verify(r)
    \/ StoreSbom(r)
    \/ StoreSbomAnswerLost(r)
    \/ StoreTransition(r)
    \/ StoreTransitionAnswerLost(r)
    \/ Fail(r)
    \/ RerunFailedJobs(r)
    \/ RerunAllJobs(r)

Next ==
    \/ MainMoves
    \/ \E c \in OwnerWrites : OwnerComments(c)
    \/ \E c \in late : LateArrival(c)
    \/ \E r \in Runs : Work(r)

Spec == Init /\ [][Next]_vars

----------------------------------------------------------------------------
\* Properties.

TypeOK ==
    /\ main \in 0..MaxMain
    /\ comments \in [Cids -> Comments \cup {None}]
    /\ late \subseteq Consumptions
    /\ run \in [Runs -> RunStates]
    /\ sbom \in [Builds -> Runs \cup {None}]
    /\ transitions \in [Builds -> Manifests \cup {None}]
    /\ uses \subseteq Cids \X Runs

\* An acceptance is good for one run: two runs never both pass
\* verify-consumed for it, although each may have found it available and
\* posted, and one post may arrive long after its run has failed.
OneRunPerToken ==
    \A u, v \in uses : u[1] = v[1] => u[2] = v[2]

\* A manifest exists only for a build that passed, or whose findings the
\* owner accepted, by an executable acceptance of this build and these
\* findings that the run storing it had consumed.
EvidenceIsAuthorised ==
    \A b \in Builds :
        LET manifest == transitions[b] IN
        manifest # None /\ manifest.gate # "PASS" =>
            LET t == manifest.token IN
            /\ <<t, manifest.run>> \in uses
            /\ IsKind(t, "acceptance")
            /\ comments[t].version = 2
            /\ comments[t].build = b
            /\ comments[t].findings = manifest.gate

\* The manifest names the SBOM object that is in the bucket, whichever runs
\* and re-runs have uploaded one since.
ManifestBindsSbom ==
    \A b \in Builds :
        transitions[b] # None => sbom[b] # None /\ transitions[b].sbom = sbom[b]

\* An acceptance that has a verified consumption is found available by no
\* run any more.
SpentIsUnavailable ==
    \A u \in uses, b \in Builds, f \in Findings : ~Available(u[1], b, f)

\* Each acceptance is a one-use token whose permitted effect is a manifest.
Token == INSTANCE OneUse WITH
    Tokens  <- Cids,
    spentBy <- [t \in Cids |->
                   IF \E r \in Runs : <<t, r>> \in uses
                   THEN CHOOSE r \in Runs : <<t, r>> \in uses
                   ELSE None],
    used    <- {t \in Cids : \E b \in Builds :
                   transitions[b] # None /\ transitions[b].gate # "PASS"
                       /\ transitions[b].token = t}

\* Runs, re-runs and late comments implement the one-use token.
ImplementsOneUse == Token!Spec

\* What a run may rely on, and what the comments say of a verified use.
RunInv(r) ==
    LET s == run[r] IN
    /\ s.stage # "new" => s.build # None
    /\ s.stage \in {"new", "adjudicate"} => s.token = None
    /\ s.stage = "failed" /\ s.failed = "adjudicate" => s.token = None
    /\ s.stage = "failed" /\ s.failed # "adjudicate" => s.gate # None
    /\ s.stage \in {"prepare", "post", "reconcile", "sbom", "transition", "done"} =>
           s.gate # None
    /\ s.stage \in {"prepare", "post", "reconcile"} => s.gate # "PASS"
    /\ s.stage = "failed" /\ s.failed = "prepare" => s.gate # "PASS"
    /\ s.stage \in {"post", "reconcile"} => s.token # None
    /\ s.token # None =>
           /\ s.gate \in Findings
           /\ IsKind(s.token, "acceptance")
           /\ comments[s.token].version = 2
           /\ comments[s.token].build = s.build
           /\ comments[s.token].findings = s.gate
    /\ (s.gate \in Findings
        /\ (s.stage \in {"sbom", "transition", "done"}
              \/ (s.stage = "failed" /\ s.failed = "sbom"))) =>
           s.token # None /\ <<s.token, r>> \in uses
    /\ s.stage = "transition" => sbom[s.build] = r

UseInv ==
    \A u \in uses : \E c \in ConsumptionsOf(u[1]) : comments[c].run = u[2]

IInv ==
    /\ TypeOK
    /\ \A r \in Runs : RunInv(r)
    /\ UseInv
    /\ OneRunPerToken
    /\ EvidenceIsAuthorised
    /\ ManifestBindsSbom

============================================================================
