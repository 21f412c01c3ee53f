---------------------------- MODULE ProductRelease ----------------------------
(***************************************************************************)
(* Phase 5: a commit of main is built once and its image is released once.  *)
(*                                                                         *)
(* A build run (phase5-build-reusable.yml) posts an initiation record on    *)
(* issue 109 before it may ask Cloud Build for anything; a later run of the *)
(* same commit may only hand on the build of a run that has succeeded.  An  *)
(* evidence run (phase5-evidence-reusable.yml) takes the id of a build,     *)
(* reads the findings of its image, writes an SBOM and a release envelope   *)
(* once each, and publishes the envelope in a comment.                      *)
(*                                                                         *)
(* One immutable control is modelled: a record, a build and its tags name   *)
(* the control as well as the commit, and never meet those of another.      *)
(***************************************************************************)
EXTENDS Naturals

CONSTANTS
    BuildRuns,     \* runs of the build workflow; a build is named by the run that asked for it
    EvidenceRuns,  \* runs of the evidence workflow
    Commits,       \* commits of main, in order
    FirstCommit,
    MaxFindings,   \* bound: how often the findings of an image may change
    None

ASSUME CommitsAreNumbers == Commits \subseteq Nat /\ FirstCommit \in Commits
ASSUME NoneIsNothing == None \notin BuildRuns \cup EvidenceRuns \cup Commits
ASSUME MaxFindingsIsNumber == MaxFindings \in Nat

VARIABLES
    main,         \* the head of main
    initiations,  \* build runs whose initiation record is on issue 109
    late,         \* records whose POST had no answer and may still be stored
    run,          \* the build runs
    build,        \* what became of the build each run asked for
    findings,     \* of the image of each build
    changes,      \* how often findings have changed
    sbom,         \* the evidence run that wrote the SBOM object of a build
    releases,     \* the release objects
    records,      \* the releases published on issue 109
    review        \* the evidence runs

vars == <<main, initiations, late, run, build, findings, changes, sbom, releases, records, review>>
issue == <<initiations, late>>
evidence == <<sbom, releases, records, review>>
image == <<findings, changes>>

Stages == {"idle", "source", "none", "initiated", "posted", "ready", "bound", "creating",
           "reconciling", "polling", "done", "failed"}
RunStates == [stage: Stages,
              source: Commits \cup {None},
              initiator: BuildRuns \cup {None},   \* of the record the run has found
              create: BOOLEAN,                    \* allow_create
              build: BuildRuns \cup {None},       \* BUILD_ID
              result: BuildRuns \cup {None}]      \* the output build_id
BuildStates == {"none", "sent", "working", "success", "failure"}
Findings == {"unscanned", "none", "below_high", "high"}
Reviews == [stage: {"idle", "input", "scan", "sbom", "release", "record", "done", "failed"},
            build: BuildRuns \cup {None},
            findings: Findings]
Releases == [build: BuildRuns, findings: Findings, sbom: EvidenceRuns]

NewRun == [stage |-> "idle", source |-> None, initiator |-> None, create |-> FALSE,
           build |-> None, result |-> None]
NewReview == [stage |-> "idle", build |-> None, findings |-> "unscanned"]

Init ==
    /\ main = FirstCommit
    /\ initiations = {} /\ late = {}
    /\ run = [r \in BuildRuns |-> NewRun]
    /\ build = [r \in BuildRuns |-> "none"]
    /\ findings = [r \in BuildRuns |-> "unscanned"] /\ changes = 0
    /\ sbom = [r \in BuildRuns |-> None]
    /\ releases = {} /\ records = {}
    /\ review = [e \in EvidenceRuns |-> NewReview]

-----------------------------------------------------------------------------
(* The build run.                                                           *)

Active(r) == run[r].stage \notin {"idle", "done", "failed"}

To(r, stage) == run' = [run EXCEPT ![r].stage = stage]
Fails(r) == To(r, "failed")

\* Any pull request may be merged at any time.
MainMoves ==
    /\ main + 1 \in Commits
    /\ main' = main + 1
    /\ UNCHANGED <<issue, run, build, image, evidence>>

\* The concurrency group lets one run in at a time; it resolves main first.
Start(r) ==
    /\ run[r].stage = "idle"
    /\ \A q \in BuildRuns : ~Active(q)
    /\ run' = [run EXCEPT ![r].stage = "source", ![r].source = main]
    /\ UNCHANGED <<main, issue, build, image, evidence>>

\* Mutant: the record of a run that failed is no longer counted, so that its commit may be tried again.
Initiators_NotFailed(c) == {q \in initiations : run[q].source = c /\ run[q].stage # "failed"}

\* The initiation records of a commit.
Initiators(c) == {q \in initiations : run[q].source = c}

\* The records are collected; more than one of the commit is ambiguous.
ReadInitiations(r) ==
    /\ run[r].stage = "source"
    /\ LET records_of == Initiators(run[r].source) IN
         IF records_of = {} THEN To(r, "none")
         ELSE IF \E q \in BuildRuns : records_of = {q}
         THEN run' = [run EXCEPT ![r].stage = "initiated",
                                 ![r].initiator = CHOOSE q \in BuildRuns : records_of = {q}]
         ELSE Fails(r)
    /\ UNCHANGED <<main, issue, build, image, evidence>>

\* GitHub reports the initiating run as completed with success, at its first attempt.
Reusable(q) == run[q].stage = "done"

JudgeInitiator(r) ==
    /\ run[r].stage = "initiated"
    /\ IF Reusable(run[r].initiator) THEN To(r, "ready") ELSE Fails(r)
    /\ UNCHANGED <<main, issue, build, image, evidence>>

\* One POST, whose answer is not needed: the record is stored, or is lost, or is stored later.
Post(r) ==
    /\ run[r].stage = "none"
    /\ To(r, "posted")
    /\ \/ initiations' = initiations \cup {r} /\ UNCHANGED late
       \/ late' = late \cup {r} /\ UNCHANGED initiations
    /\ UNCHANGED <<main, build, image, evidence>>

StoreLate(r) ==
    /\ r \in late
    /\ late' = late \ {r}
    /\ initiations' = initiations \cup {r}
    /\ UNCHANGED <<main, run, build, image, evidence>>

\* The run may create only if the one record of the commit is its own.
VerifyInitiation(r) ==
    /\ run[r].stage = "posted"
    /\ IF Initiators(run[r].source) = {r}
       THEN run' = [run EXCEPT ![r].stage = "ready", ![r].create = TRUE]
       ELSE Fails(r)
    /\ UNCHANGED <<main, issue, build, image, evidence>>

\* Main is compared before the login, and once more before the list of builds is read.
RecheckMain(r) ==
    /\ run[r].stage = "ready"
    /\ IF main = run[r].source THEN To(r, "bound") ELSE Fails(r)
    /\ UNCHANGED <<main, issue, build, image, evidence>>

\* The builds of a commit that Cloud Build lists, whatever their status.
Listed(c) == {q \in BuildRuns : build[q] \in {"working", "success", "failure"} /\ run[q].source = c}

\* Mutant: whether anything was found is not looked at.
Select_NoneChecked(r, none) ==
    /\ run' = [run EXCEPT ![r].stage = "polling",
                          ![r].build = IF Listed(run[r].source) = {} THEN None
                                       ELSE CHOOSE q \in Listed(run[r].source) : TRUE]

\* One match is the build of the run; two are ambiguous.
Select(r, none) ==
    LET listed == Listed(run[r].source) IN
      IF listed = {} THEN none
      ELSE IF \E q \in BuildRuns : listed = {q}
      THEN run' = [run EXCEPT ![r].stage = "polling",
                              ![r].build = CHOOSE q \in BuildRuns : listed = {q}]
      ELSE Fails(r)

ListBuilds(r) ==
    /\ run[r].stage = "bound"
    /\ IF main = run[r].source
       THEN Select(r, IF run[r].create THEN To(r, "creating") ELSE Fails(r))
       ELSE Fails(r)
    /\ UNCHANGED <<main, issue, build, image, evidence>>

\* One create request: answered with an id, refused, or ambiguous, in which case it may have
\* taken effect, may take effect later, or never.
Create(r) ==
    /\ run[r].stage = "creating"
    /\ \/ /\ build' = [build EXCEPT ![r] = "working"]
          /\ run' = [run EXCEPT ![r].stage = "polling", ![r].build = r]
       \/ Fails(r) /\ UNCHANGED build
       \/ /\ \E s \in {"sent", "working"} : build' = [build EXCEPT ![r] = s]
          /\ To(r, "reconciling")
    /\ UNCHANGED <<main, issue, image, evidence>>

\* A listing after an ambiguous create; with none found there are a few more, then the run fails.
Reconcile(r) ==
    /\ run[r].stage = "reconciling"
    /\ Select(r, Fails(r))
    /\ UNCHANGED <<main, issue, build, image, evidence>>

TakeEffect(r) ==
    /\ build[r] = "sent"
    /\ build' = [build EXCEPT ![r] = "working"]
    /\ UNCHANGED <<main, issue, run, image, evidence>>

BuildEnds(r) ==
    /\ build[r] = "working"
    /\ \E s \in {"success", "failure"} : build' = [build EXCEPT ![r] = s]
    /\ UNCHANGED <<main, issue, run, image, evidence>>

\* The run hands on the id and the digest of a build that has ended with success.
HandOn(r) ==
    /\ run[r].stage = "polling"
    /\ build[run[r].build] \in {"success", "failure"}
    /\ IF build[run[r].build] = "success"
       THEN run' = [run EXCEPT ![r].stage = "done", ![r].result = run[r].build]
       ELSE Fails(r)
    /\ UNCHANGED <<main, issue, build, image, evidence>>

\* A call fails, polling is given up, the job is cancelled, or its runner is lost; a run
\* that is run again, successful or not, fails at the check of its attempt.
Fail(r) ==
    /\ run[r].stage \notin {"idle", "failed"}
    /\ Fails(r)
    /\ UNCHANGED <<main, issue, build, image, evidence>>

BuildRun(r) ==
    \/ Start(r) \/ ReadInitiations(r) \/ JudgeInitiator(r) \/ Post(r) \/ VerifyInitiation(r)
    \/ RecheckMain(r) \/ ListBuilds(r) \/ Create(r) \/ Reconcile(r) \/ HandOn(r) \/ Fail(r)

Provider(r) == StoreLate(r) \/ TakeEffect(r) \/ BuildEnds(r)

-----------------------------------------------------------------------------
(* The evidence run.  Nothing serialises evidence runs.                     *)

builder == <<main, issue, run, build>>

\* The analysis of an image ends, and its findings may change at any time after.
Analyse(b) ==
    /\ build[b] = "success"
    /\ changes < MaxFindings
    /\ \E f \in Findings \ {"unscanned", findings[b]} : findings' = [findings EXCEPT ![b] = f]
    /\ changes' = changes + 1
    /\ UNCHANGED <<builder, evidence>>

ReviewTo(e, stage) == review' = [review EXCEPT ![e].stage = stage]

\* The owner dispatches a run with the id of a build.
Dispatch(e, b) ==
    /\ review[e].stage = "idle"
    /\ build[b] \in {"working", "success", "failure"}
    /\ review' = [review EXCEPT ![e].stage = "input", ![e].build = b]
    /\ UNCHANGED <<builder, image, sbom, releases, records>>

\* The build must have succeeded; whether a run has handed it on is not asked.
FetchBuild(e) ==
    /\ review[e].stage = "input"
    /\ ReviewTo(e, IF build[review[e].build] = "success" THEN "scan" ELSE "failed")
    /\ UNCHANGED <<builder, image, sbom, releases, records>>

\* The scan is read until it has ended; a HIGH or CRITICAL finding ends the run.
ReadFindings(e) ==
    /\ review[e].stage = "scan"
    /\ LET f == findings[review[e].build] IN
         /\ f # "unscanned"
         /\ review' = [review EXCEPT ![e].stage = IF f = "high" THEN "failed" ELSE "sbom",
                                     ![e].findings = f]
    /\ UNCHANGED <<builder, image, sbom, releases, records>>

\* Mutant: the SBOM object is replaced.
Writable_Always(b) == TRUE

\* ifGenerationMatch=0: an object is written only where there is none.
Writable(b) == sbom[b] = None

\* The SBOM differs from run to run: it is named by the run that made it.  The object may be
\* written although the answer is lost; nobody reads it by name, so a write that takes effect
\* later cannot be told from one that was refused or one that took effect at once.
UploadSbom(e) ==
    /\ review[e].stage = "sbom"
    /\ \/ /\ Writable(review[e].build)
          /\ sbom' = [sbom EXCEPT ![review[e].build] = e]
          /\ \E s \in {"release", "failed"} : ReviewTo(e, s)
       \/ UNCHANGED sbom /\ ReviewTo(e, "failed")
    /\ UNCHANGED <<builder, image, releases, records>>

\* The envelope: its hash is its name.
Envelope(e) == [build |-> review[e].build, findings |-> review[e].findings, sbom |-> e]

UploadRelease(e) ==
    /\ review[e].stage = "release"
    /\ \/ /\ Envelope(e) \notin releases
          /\ releases' = releases \cup {Envelope(e)}
          /\ \E s \in {"record", "failed"} : ReviewTo(e, s)
       \/ UNCHANGED releases /\ ReviewTo(e, "failed")
    /\ UNCHANGED <<builder, image, sbom, records>>

\* The comment is posted once and read back by its id.
PublishRelease(e) ==
    /\ review[e].stage = "record"
    /\ \/ /\ records' = records \cup {Envelope(e)}
          /\ \E s \in {"done", "failed"} : ReviewTo(e, s)
       \/ UNCHANGED records /\ ReviewTo(e, "failed")
    /\ UNCHANGED <<builder, image, sbom, releases>>

\* A call fails or the runner is lost; a run that is run again fails at once.
FailReview(e) ==
    /\ review[e].stage \notin {"idle", "failed"}
    /\ ReviewTo(e, "failed")
    /\ UNCHANGED <<builder, image, sbom, releases, records>>

EvidenceRun(e) ==
    \/ \E b \in BuildRuns : Dispatch(e, b)
    \/ FetchBuild(e) \/ ReadFindings(e) \/ UploadSbom(e) \/ UploadRelease(e)
    \/ PublishRelease(e) \/ FailReview(e)

-----------------------------------------------------------------------------
Next ==
    \/ MainMoves
    \/ \E r \in BuildRuns : BuildRun(r) \/ Provider(r) \/ Analyse(r)
    \/ \E e \in EvidenceRuns : EvidenceRun(e)

Spec == Init /\ [][Next]_vars

-----------------------------------------------------------------------------
(* Properties.                                                              *)

\* Every variable keeps its type; a run polls a build it has, an evidence run works on a
\* build it was given, and a run is past its first step only with a commit.
TypeOK ==
    /\ main \in Commits
    /\ initiations \subseteq BuildRuns /\ late \subseteq BuildRuns
    /\ run \in [BuildRuns -> RunStates]
    /\ build \in [BuildRuns -> BuildStates]
    /\ findings \in [BuildRuns -> Findings] /\ changes \in 0..MaxFindings
    /\ sbom \in [BuildRuns -> EvidenceRuns \cup {None}]
    /\ releases \subseteq Releases /\ records \subseteq Releases
    /\ review \in [EvidenceRuns -> Reviews]
    /\ \A r \in BuildRuns :
         /\ run[r].stage # "idle" => run[r].source # None
         /\ run[r].stage = "initiated" => run[r].initiator # None
         /\ run[r].stage \in {"polling", "done"} => run[r].build # None
    /\ \A e \in EvidenceRuns : review[e].stage # "idle" => review[e].build # None

\* A commit is built at most once, whatever becomes of records, requests and runs: Cloud Build
\* is asked for a build of it by one run only, and every run of the commit that succeeds hands
\* on that build, which has succeeded (phase5-build-reusable.yml, "Reuse or create the one
\* exact source/control build").
OneBuild ==
    /\ \A r, q \in BuildRuns :
         build[r] # "none" /\ build[q] # "none" /\ run[r].source = run[q].source => r = q
    /\ \A r \in BuildRuns :
         run[r].result # None =>
           build[run[r].result] = "success" /\ run[run[r].result].source = run[r].source

\* A commit is released at most once, though evidence runs race and the findings change between
\* their readings: no two release objects are of one commit, what
\* is published is such an object, and it holds the SBOM stored for its build and no HIGH finding.
OneRelease ==
    /\ records \subseteq releases
    /\ \A x \in releases :
         /\ build[x.build] = "success"
         /\ sbom[x.build] = x.sbom
         /\ x.findings \in {"none", "below_high"}
         /\ \A y \in releases : run[y.build].source = run[x.build].source => y = x

=============================================================================
