-------------------------- MODULE ProductReleaseProofs --------------------------
(***************************************************************************)
(* A commit is built once and released once, for any number of runs and     *)
(* commits.                                                                 *)
(*                                                                         *)
(* A run that may create has its record on the issue and saw no other of    *)
(* the commit; records stay and a run keeps its commit, so that of two such *)
(* runs the later would have seen the record of the earlier (BuildInv).  An *)
(* SBOM is written once, by the run whose envelope names it (ReviewInv).    *)
(***************************************************************************)
EXTENDS ProductRelease, TLAPS

-----------------------------------------------------------------------------
(* Types.                                                                   *)

LEMMA InitType == Init => TypeOK
  BY CommitsAreNumbers, MaxFindingsIsNumber
  DEF Init, TypeOK, RunStates, Stages, BuildStates, Findings, Reviews, Releases, NewRun, NewReview

\* A run state with another stage, commit, initiator, build or result is a run state.
LEMMA RunStateEdits ==
  ASSUME NEW s \in RunStates
  PROVE  /\ \A x \in Stages : [s EXCEPT !.stage = x] \in RunStates
         /\ \A x \in Stages, c \in Commits : [s EXCEPT !.stage = x, !.source = c] \in RunStates
         /\ \A x \in Stages, q \in BuildRuns : [s EXCEPT !.stage = x, !.initiator = q] \in RunStates
         /\ \A x \in Stages : [s EXCEPT !.stage = x, !.create = TRUE] \in RunStates
         /\ \A x \in Stages, q \in BuildRuns : [s EXCEPT !.stage = x, !.build = q] \in RunStates
         /\ \A x \in Stages, q \in BuildRuns : [s EXCEPT !.stage = x, !.result = q] \in RunStates
  BY DEF RunStates

\* What a step of a build run does to run.
RunStep(r) ==
    \/ \E x \in Stages \ {"idle", "source", "initiated", "polling", "done"} : To(r, x)
    \/ \E c \in Commits : run' = [run EXCEPT ![r].stage = "source", ![r].source = c]
    \/ \E q \in BuildRuns : run' = [run EXCEPT ![r].stage = "initiated", ![r].initiator = q]
    \/ run' = [run EXCEPT ![r].stage = "ready", ![r].create = TRUE]
    \/ \E q \in BuildRuns : run' = [run EXCEPT ![r].stage = "polling", ![r].build = q]
    \/ /\ run[r].build \in BuildRuns
       /\ run' = [run EXCEPT ![r].stage = "done", ![r].result = run[r].build]

\* A run is given a state that is in order.
InOrder(s) ==
    /\ s.stage # "idle" => s.source # None
    /\ s.stage = "initiated" => s.initiator # None
    /\ s.stage \in {"polling", "done"} => s.build # None

LEMMA RunIsGiven ==
  ASSUME TypeOK, NEW r \in BuildRuns, NEW s \in RunStates, InOrder(s), run' = [run EXCEPT ![r] = s]
  PROVE  /\ run' \in [BuildRuns -> RunStates]
         /\ \A q \in BuildRuns : InOrder(run'[q])
  <1>1. run \in [BuildRuns -> RunStates]
    BY DEF TypeOK
  <1>2. ASSUME NEW q \in BuildRuns PROVE run'[q] = IF q = r THEN s ELSE run[q]
    BY <1>1
  <1>3. ASSUME NEW q \in BuildRuns PROVE InOrder(run[q])
    BY DEF TypeOK, InOrder
  <1> QED  BY <1>1, <1>2, <1>3

LEMMA RunStepType ==
  ASSUME TypeOK, NEW r \in BuildRuns, RunStep(r), run[r].source # None \/ run'[r].source # None
  PROVE  /\ run' \in [BuildRuns -> RunStates]
         /\ \A q \in BuildRuns : InOrder(run'[q])
  <1> DEFINE o == run[r]
  <1>1. run \in [BuildRuns -> RunStates] /\ o \in RunStates
    BY DEF TypeOK
  <1>2. CASE \E x \in Stages \ {"idle", "source", "initiated", "polling", "done"} : To(r, x)
    <2>1. PICK x \in Stages \ {"idle", "source", "initiated", "polling", "done"} : To(r, x)
      BY <1>2
    <2> DEFINE s == [o EXCEPT !.stage = x]
    <2>2. run' = [run EXCEPT ![r] = s]
      BY <2>1, <1>1 DEF To
    <2>3. run'[r] = s /\ s \in RunStates
      BY <2>2, <1>1, RunStateEdits
    <2>4. s.stage = x /\ s.source = o.source
      BY <1>1 DEF RunStates
    <2>5. InOrder(s)
      BY <2>1, <2>3, <2>4 DEF InOrder
    <2> QED  BY <2>2, <2>3, <2>5, RunIsGiven
  <1>3. CASE \E c \in Commits : run' = [run EXCEPT ![r].stage = "source", ![r].source = c]
    <2>1. PICK c \in Commits : run' = [run EXCEPT ![r].stage = "source", ![r].source = c]
      BY <1>3
    <2> DEFINE s == [o EXCEPT !.stage = "source", !.source = c]
    <2>2. run' = [run EXCEPT ![r] = s]
      BY <2>1, <1>1
    <2>3. s \in RunStates
      BY <1>1, RunStateEdits DEF Stages
    <2>4. InOrder(s)
      BY <1>1, NoneIsNothing DEF InOrder, RunStates
    <2> QED  BY <2>2, <2>3, <2>4, RunIsGiven
  <1>4. CASE \E q \in BuildRuns : run' = [run EXCEPT ![r].stage = "initiated", ![r].initiator = q]
    <2>1. PICK q \in BuildRuns : run' = [run EXCEPT ![r].stage = "initiated", ![r].initiator = q]
      BY <1>4
    <2> DEFINE s == [o EXCEPT !.stage = "initiated", !.initiator = q]
    <2>2. run' = [run EXCEPT ![r] = s]
      BY <2>1, <1>1
    <2>3. s \in RunStates /\ run'[r] = s
      BY <2>2, <1>1, RunStateEdits DEF Stages
    <2>4. InOrder(s)
      BY <2>3, <1>1, NoneIsNothing DEF InOrder, RunStates
    <2> QED  BY <2>2, <2>3, <2>4, RunIsGiven
  <1>5. CASE run' = [run EXCEPT ![r].stage = "ready", ![r].create = TRUE]
    <2> DEFINE s == [o EXCEPT !.stage = "ready", !.create = TRUE]
    <2>2. run' = [run EXCEPT ![r] = s]
      BY <1>5, <1>1
    <2>3. s \in RunStates /\ run'[r] = s
      BY <2>2, <1>1, RunStateEdits DEF Stages
    <2>4. InOrder(s)
      BY <2>3, <1>1 DEF InOrder, RunStates
    <2> QED  BY <2>2, <2>3, <2>4, RunIsGiven
  <1>6. CASE \E q \in BuildRuns : run' = [run EXCEPT ![r].stage = "polling", ![r].build = q]
    <2>1. PICK q \in BuildRuns : run' = [run EXCEPT ![r].stage = "polling", ![r].build = q]
      BY <1>6
    <2> DEFINE s == [o EXCEPT !.stage = "polling", !.build = q]
    <2>2. run' = [run EXCEPT ![r] = s]
      BY <2>1, <1>1
    <2>3. s \in RunStates /\ run'[r] = s
      BY <2>2, <1>1, RunStateEdits DEF Stages
    <2>4. InOrder(s)
      BY <2>3, <1>1, NoneIsNothing DEF InOrder, RunStates
    <2> QED  BY <2>2, <2>3, <2>4, RunIsGiven
  <1>7. CASE /\ o.build \in BuildRuns
             /\ run' = [run EXCEPT ![r].stage = "done", ![r].result = o.build]
    <2> DEFINE s == [o EXCEPT !.stage = "done", !.result = o.build]
    <2>2. run' = [run EXCEPT ![r] = s]
      BY <1>7, <1>1
    <2>3. s \in RunStates /\ run'[r] = s
      BY <2>2, <1>7, <1>1, RunStateEdits DEF Stages
    <2>4. InOrder(s)
      BY <2>3, <1>7, <1>1, NoneIsNothing DEF InOrder, RunStates
    <2> QED  BY <2>2, <2>3, <2>4, RunIsGiven
  <1> QED
    BY <1>2, <1>3, <1>4, <1>5, <1>6, <1>7 DEF RunStep

LEMMA SelectIsStep ==
  ASSUME TypeOK, NEW r \in BuildRuns, NEW none, none => RunStep(r), Select(r, none)
  PROVE  RunStep(r)
  <1> DEFINE listed == Listed(run[r].source)
  <1>1. CASE \E q \in BuildRuns : listed = {q}
    <2>1. (CHOOSE q \in BuildRuns : listed = {q}) \in BuildRuns
      BY <1>1
    <2> QED  BY <1>1, <2>1 DEF Select, RunStep
  <1>2. CASE ~ \E q \in BuildRuns : listed = {q}
    BY <1>2 DEF Select, RunStep, Fails, Stages
  <1> QED  BY <1>1, <1>2

\* Every step of a build run is one of those, of a run that has its commit or gets it.
LEMMA BuildRunIsStep ==
  ASSUME TypeOK, NEW r \in BuildRuns, BuildRun(r)
  PROVE  RunStep(r) /\ (run[r].source # None \/ run'[r].source # None)
  <1>1. run[r] \in RunStates /\ (run[r].stage # "idle" => run[r].source # None)
    BY DEF TypeOK
  <1>2. CASE Start(r)
    <2>1. main \in Commits /\ main # None
      BY NoneIsNothing DEF TypeOK
    <2>2. run'[r].source = main
      BY <1>2, <1>1 DEF Start, TypeOK, RunStates
    <2> QED  BY <1>2, <2>1, <2>2 DEF Start, RunStep
  <1>3. CASE ReadInitiations(r)
    <2> DEFINE found == Initiators(run[r].source)
    <2>1. CASE found # {} /\ \E q \in BuildRuns : found = {q}
      <3>1. (CHOOSE q \in BuildRuns : found = {q}) \in BuildRuns
        BY <2>1
      <3> QED  BY <1>1, <1>3, <2>1, <3>1 DEF ReadInitiations, RunStep
    <2>2. CASE ~ (found # {} /\ \E q \in BuildRuns : found = {q})
      BY <1>1, <1>3, <2>2 DEF ReadInitiations, RunStep, To, Fails, Stages
    <2> QED  BY <2>1, <2>2
  <1>4. CASE JudgeInitiator(r)
    BY <1>1, <1>4 DEF JudgeInitiator, RunStep, Fails, Stages
  <1>5. CASE Post(r)
    BY <1>1, <1>5 DEF Post, RunStep, Stages
  <1>6. CASE VerifyInitiation(r)
    BY <1>1, <1>6 DEF VerifyInitiation, RunStep, Fails, Stages
  <1>7. CASE RecheckMain(r)
    BY <1>1, <1>7 DEF RecheckMain, RunStep, Fails, Stages
  <1>8. CASE ListBuilds(r)
    <2>1. To(r, "creating") \/ Fails(r) => RunStep(r)
      BY DEF RunStep, Fails, Stages
    <2> QED  BY <1>1, <1>8, <2>1, SelectIsStep DEF ListBuilds
  <1>9. CASE Create(r)
    BY <1>1, <1>9 DEF Create, RunStep, Fails, Stages
  <1>10. CASE Reconcile(r)
    <2>1. Fails(r) => RunStep(r)
      BY DEF RunStep, Fails, Stages
    <2> QED  BY <1>1, <1>10, <2>1, SelectIsStep DEF Reconcile
  <1>11. CASE HandOn(r)
    <2>1. run[r].build \in BuildRuns
      BY <1>1, <1>11 DEF HandOn, TypeOK, RunStates
    <2> QED  BY <1>1, <1>11, <2>1 DEF HandOn, RunStep, Fails, Stages
  <1>12. CASE Fail(r)
    BY <1>1, <1>12 DEF Fail, RunStep, Fails, Stages
  <1> QED
    BY <1>2, <1>3, <1>4, <1>5, <1>6, <1>7, <1>8, <1>9, <1>10, <1>11, <1>12 DEF BuildRun

\* What an evidence run may become.
LEMMA ReviewEdits ==
  ASSUME NEW v \in Reviews
  PROVE  /\ \A x \in {"scan", "sbom", "release", "record", "done", "failed"} :
              [v EXCEPT !.stage = x] \in Reviews
         /\ \A b \in BuildRuns : [v EXCEPT !.stage = "input", !.build = b] \in Reviews
         /\ \A x \in {"sbom", "failed"}, f \in Findings :
              [v EXCEPT !.stage = x, !.findings = f] \in Reviews
  BY DEF Reviews

LEMMA ReviewIsGiven ==
  ASSUME TypeOK, NEW e \in EvidenceRuns, NEW v \in Reviews, v.build # None,
         review' = [review EXCEPT ![e] = v]
  PROVE  /\ review' \in [EvidenceRuns -> Reviews]
         /\ \A d \in EvidenceRuns : review'[d].stage # "idle" => review'[d].build # None
  BY DEF TypeOK

\* An evidence run that only goes on, or fails.
LEMMA ReviewGoesOn ==
  ASSUME TypeOK, NEW e \in EvidenceRuns, review[e].stage # "idle",
         NEW x \in {"scan", "sbom", "release", "record", "done", "failed"}, ReviewTo(e, x)
  PROVE  /\ review' \in [EvidenceRuns -> Reviews]
         /\ \A d \in EvidenceRuns : review'[d].stage # "idle" => review'[d].build # None
  <1> DEFINE v == [review[e] EXCEPT !.stage = x]
  <1>1. review[e] \in Reviews /\ review[e].build # None
    BY DEF TypeOK
  <1>4. v \in Reviews
    BY <1>1, ReviewEdits
  <1>5. v.build # None
    BY <1>1 DEF Reviews
  <1>2. v \in Reviews /\ v.build # None
    BY <1>4, <1>5
  <1>3. review' = [review EXCEPT ![e] = v]
    BY DEF ReviewTo, TypeOK
  <1> QED  BY <1>2, <1>3, ReviewIsGiven

LEMMA EnvelopeType ==
  ASSUME TypeOK, NEW e \in EvidenceRuns, review[e].stage # "idle"
  PROVE  Envelope(e) \in Releases
  BY DEF TypeOK, Reviews, Releases, Envelope

LEMMA EvidenceRunType ==
  ASSUME TypeOK, NEW e \in EvidenceRuns, EvidenceRun(e)
  PROVE  TypeOK'
  <1>1. review[e] \in Reviews /\ (review[e].stage # "idle" => review[e].build \in BuildRuns)
    BY DEF TypeOK, Reviews
  <1>2. /\ sbom' \in [BuildRuns -> EvidenceRuns \cup {None}]
        /\ releases' \subseteq Releases /\ records' \subseteq Releases
        /\ review' \in [EvidenceRuns -> Reviews]
        /\ \A d \in EvidenceRuns : review'[d].stage # "idle" => review'[d].build # None
    <2>1. CASE \E b \in BuildRuns : Dispatch(e, b)
      <3>1. PICK b \in BuildRuns : Dispatch(e, b)
        BY <2>1
      <3> DEFINE v == [review[e] EXCEPT !.stage = "input", !.build = b]
      <3>4. v \in Reviews
        BY <1>1, ReviewEdits
      <3>5. v.build = b
        BY <1>1 DEF Reviews
      <3>2. v \in Reviews /\ v.build # None
        BY <3>4, <3>5, NoneIsNothing
      <3>3. review' = [review EXCEPT ![e] = v]
        BY <3>1, <1>1 DEF Dispatch, TypeOK
      <3> QED  BY <3>1, <3>2, <3>3, ReviewIsGiven DEF Dispatch, TypeOK
    <2>2. CASE FetchBuild(e)
      BY <2>2, ReviewGoesOn DEF FetchBuild, TypeOK
    <2>3. CASE ReadFindings(e)
      <3> DEFINE f == findings[review[e].build]
                 v == [review[e] EXCEPT !.stage = IF f = "high" THEN "failed" ELSE "sbom",
                                        !.findings = f]
      <3>1. f \in Findings
        BY <2>3, <1>1 DEF ReadFindings, TypeOK
      <3>4. v \in Reviews
        BY <1>1, <3>1, ReviewEdits
      <3>5. v.build = review[e].build /\ review[e].stage # "idle"
        BY <1>1, <2>3 DEF Reviews, ReadFindings
      <3>2. v \in Reviews /\ v.build # None
        BY <1>1, <3>4, <3>5, NoneIsNothing
      <3>3. review' = [review EXCEPT ![e] = v]
        BY <2>3, <1>1 DEF ReadFindings, TypeOK
      <3> QED  BY <2>3, <3>2, <3>3, ReviewIsGiven DEF ReadFindings, TypeOK
    <2>4. CASE UploadSbom(e)
      BY <2>4, <1>1, ReviewGoesOn DEF UploadSbom, TypeOK
    <2>5. CASE UploadRelease(e)
      BY <2>5, ReviewGoesOn, EnvelopeType DEF UploadRelease, TypeOK
    <2>6. CASE PublishRelease(e)
      BY <2>6, ReviewGoesOn, EnvelopeType DEF PublishRelease, TypeOK
    <2>7. CASE FailReview(e)
      BY <2>7, ReviewGoesOn DEF FailReview, TypeOK
    <2> QED  BY <2>1, <2>2, <2>3, <2>4, <2>5, <2>6, <2>7 DEF EvidenceRun
  <1>3. UNCHANGED <<main, initiations, late, run, build, findings, changes>>
    BY DEF EvidenceRun, Dispatch, FetchBuild, ReadFindings, UploadSbom, UploadRelease,
           PublishRelease, FailReview, builder, issue, image
  <1> QED  BY <1>2, <1>3 DEF TypeOK

LEMMA BuildRunType ==
  ASSUME TypeOK, NEW r \in BuildRuns, BuildRun(r)
  PROVE  TypeOK'
  <1>1. run' \in [BuildRuns -> RunStates] /\ \A q \in BuildRuns : InOrder(run'[q])
    BY BuildRunIsStep, RunStepType
  <1>2. /\ initiations' \subseteq BuildRuns /\ late' \subseteq BuildRuns
        /\ build' \in [BuildRuns -> BuildStates]
    BY DEF BuildRun, Start, ReadInitiations, JudgeInitiator, Post, VerifyInitiation, RecheckMain,
           ListBuilds, Create, Reconcile, HandOn, Fail, TypeOK, BuildStates, issue
  <1>3. UNCHANGED <<main, findings, changes, sbom, releases, records, review>>
    BY DEF BuildRun, Start, ReadInitiations, JudgeInitiator, Post, VerifyInitiation, RecheckMain,
           ListBuilds, Create, Reconcile, HandOn, Fail, image, evidence
  <1> QED  BY <1>1, <1>2, <1>3 DEF TypeOK, InOrder

LEMMA StepType == TypeOK /\ [Next]_vars => TypeOK'
  <1> SUFFICES ASSUME TypeOK, [Next]_vars PROVE TypeOK'
    OBVIOUS
  <1>1. CASE MainMoves
    BY <1>1 DEF MainMoves, TypeOK, issue, image, evidence
  <1>2. ASSUME NEW r \in BuildRuns, Provider(r) PROVE TypeOK'
    BY <1>2 DEF Provider, StoreLate, TakeEffect, BuildEnds, TypeOK, BuildStates, issue, image, evidence
  <1>3. ASSUME NEW r \in BuildRuns, Analyse(r) PROVE TypeOK'
    <2>1. findings' \in [BuildRuns -> Findings]
      BY <1>3 DEF Analyse, TypeOK
    <2>2. changes' \in 0..MaxFindings
      BY <1>3, MaxFindingsIsNumber DEF Analyse, TypeOK
    <2> QED  BY <1>3, <2>1, <2>2 DEF Analyse, TypeOK, builder, issue, evidence
  <1>4. CASE UNCHANGED vars
    BY <1>4 DEF vars, TypeOK
  <1> QED
    BY <1>1, <1>2, <1>3, <1>4, BuildRunType, EvidenceRunType DEF Next

\* Every variable keeps its type, a run that polls has a build, and an evidence run has one.
THEOREM TypeCorrect == Spec => []TypeOK
  BY InitType, StepType, PTL DEF Spec

-----------------------------------------------------------------------------
(* A commit is built once.                                                  *)

\* What the stage and the outputs of a run say.
RunInv(r) ==
    /\ run[r].stage = "idle" =>
         /\ ~run[r].create /\ r \notin initiations \cup late
         /\ run[r].build = None /\ run[r].result = None
    /\ run[r].create => r \in initiations
    /\ run[r].stage \in {"creating", "reconciling"} => run[r].create
    /\ build[r] # "none" =>
         run[r].create /\ run[r].stage \in {"reconciling", "polling", "done", "failed"}
    /\ run[r].build # None =>
         build[run[r].build] # "none" /\ run[run[r].build].source = run[r].source
    /\ run[r].result # None =>
         build[run[r].result] = "success" /\ run[run[r].result].source = run[r].source

\* No two runs of a commit may create.
OneCreator ==
    \A r, q \in BuildRuns :
      run[r].create /\ run[q].create /\ run[r].source = run[q].source => r = q

BuildInv == (\A r \in BuildRuns : RunInv(r)) /\ OneCreator

LEMMA InitBuild == Init => BuildInv
  BY DEF Init, BuildInv, RunInv, OneCreator, NewRun

\* What was read of runs, records and builds stays as it was.
Grows ==
    /\ initiations \subseteq initiations'
    /\ \A q \in BuildRuns :
         /\ run[q].stage # "idle" => run'[q].stage # "idle" /\ run'[q].source = run[q].source
         /\ run[q].create => run'[q].create
         /\ build[q] # "none" => build'[q] # "none"
         /\ build[q] = "success" => build'[q] = "success"

\* A run that has a build, or is counted as an initiator, has started.
LEMMA Started ==
  ASSUME TypeOK, BuildInv
  PROVE  /\ \A q \in BuildRuns : run[q].create \/ build[q] # "none" => run[q].stage # "idle"
         /\ \A q \in initiations \cup late : run[q].stage # "idle"
  BY DEF BuildInv, RunInv, TypeOK


\* A step of one run, or of GitHub and Cloud Build for it, leaves the others alone.
Alone(r) ==
    /\ initiations \subseteq initiations' /\ initiations' \cup late' \subseteq initiations \cup late \cup {r}
    /\ \A q \in BuildRuns \ {r} : run'[q] = run[q] /\ build'[q] = build[q]

LEMMA StepIsAlone ==
  ASSUME TypeOK, NEW r \in BuildRuns, BuildRun(r) \/ Provider(r)
  PROVE  Alone(r)
  <1>1. ASSUME BuildRun(r) PROVE \A q \in BuildRuns \ {r} : run'[q] = run[q]
    <2>1. RunStep(r)
      BY <1>1, BuildRunIsStep
    <2> QED  BY <2>1 DEF RunStep, To, TypeOK
  <1>2. ASSUME BuildRun(r)
        PROVE  /\ initiations \subseteq initiations'
               /\ initiations' \cup late' \subseteq initiations \cup late \cup {r}
               /\ \A q \in BuildRuns \ {r} : build'[q] = build[q]
    BY <1>2 DEF BuildRun, Start, ReadInitiations, JudgeInitiator, Post, VerifyInitiation, RecheckMain,
           ListBuilds, Create, Reconcile, HandOn, Fail, TypeOK, issue
  <1>3. ASSUME Provider(r) PROVE Alone(r)
    BY <1>3 DEF Alone, Provider, StoreLate, TakeEffect, BuildEnds, TypeOK, issue
  <1> QED  BY <1>1, <1>2, <1>3 DEF Alone

\* What a step does to the run itself.
OwnGrows(r) ==
    /\ run[r].stage # "idle" => run'[r].stage # "idle" /\ run'[r].source = run[r].source
    /\ run[r].create => run'[r].create
    /\ build[r] # "none" => build'[r] # "none"
    /\ build[r] = "success" => build'[r] = "success"

LEMMA RunStepGrows ==
  ASSUME TypeOK, NEW r \in BuildRuns, RunStep(r),
         Start(r) \/ run'[r].source = run[r].source
  PROVE  /\ run[r].stage # "idle" => run'[r].stage # "idle" /\ run'[r].source = run[r].source
         /\ run[r].create => run'[r].create
  <1>1. run[r] \in RunStates /\ run \in [BuildRuns -> RunStates]
    BY DEF TypeOK
  <1>2. run'[r].stage # "idle" /\ (run[r].create => run'[r].create)
    BY <1>1 DEF RunStep, To, RunStates
  <1>3. Start(r) => run[r].stage = "idle"
    BY DEF Start
  <1> QED  BY <1>2, <1>3

LEMMA BuildRunSource ==
  ASSUME TypeOK, NEW r \in BuildRuns, BuildRun(r)
  PROVE  Start(r) \/ run'[r].source = run[r].source
  <1>1. run[r] \in RunStates /\ run \in [BuildRuns -> RunStates]
    BY DEF TypeOK
  <1> QED
    BY <1>1 DEF BuildRun, ReadInitiations, JudgeInitiator, Post, VerifyInitiation, RecheckMain, Select,
           ListBuilds, Create, Reconcile, HandOn, Fail, To, Fails, RunStates

LEMMA StepGrows ==
  ASSUME TypeOK, BuildInv, NEW r \in BuildRuns, BuildRun(r) \/ Provider(r)
  PROVE  Grows
  <1>1. ASSUME BuildRun(r) PROVE OwnGrows(r)
    <2>1. /\ run[r].stage # "idle" => run'[r].stage # "idle" /\ run'[r].source = run[r].source
          /\ run[r].create => run'[r].create
      BY <1>1, BuildRunIsStep, BuildRunSource, RunStepGrows
    <2>2. build[r] # "none" => build'[r] # "none"
      BY <1>1 DEF BuildRun, Start, ReadInitiations, JudgeInitiator, Post, VerifyInitiation, RecheckMain,
           ListBuilds, Create, Reconcile, HandOn, Fail, TypeOK
    <2>3. build'[r] = build[r] \/ Create(r)
      BY <1>1 DEF BuildRun, Start, ReadInitiations, JudgeInitiator, Post, VerifyInitiation, RecheckMain,
           ListBuilds, Reconcile, HandOn, Fail
    <2>4. Create(r) => build[r] = "none"
      BY DEF BuildInv, RunInv, Create
    <2> QED  BY <2>1, <2>2, <2>3, <2>4 DEF OwnGrows
  <1>2. ASSUME Provider(r) PROVE OwnGrows(r)
    BY <1>2 DEF OwnGrows, Provider, StoreLate, TakeEffect, BuildEnds, TypeOK, issue
  <1> QED  BY <1>1, <1>2, StepIsAlone DEF Grows, Alone, OwnGrows


\* The other runs keep their invariant.
LEMMA OthersKeep ==
  ASSUME TypeOK, BuildInv, NEW r \in BuildRuns, Alone(r), Grows,
         NEW q \in BuildRuns \ {r}
  PROVE  RunInv(q)'
  <1>1. RunInv(q) /\ run'[q] = run[q] /\ build'[q] = build[q]
    BY DEF BuildInv, Alone
  <1>2. run[q] \in RunStates
    BY DEF TypeOK
  <1>3. q \notin initiations \cup late => q \notin initiations' \cup late'
    BY DEF Alone
  <1>4. q \in initiations => q \in initiations'
    BY DEF Alone
  <1>5. ASSUME NEW b \in BuildRuns, build[b] # "none"
        PROVE  run'[b].source = run[b].source /\ build'[b] # "none"
                 /\ (build[b] = "success" => build'[b] = "success")
    BY <1>5, Started DEF Grows
  <1>6. (run[q].build # None => run[q].build \in BuildRuns) /\ (run[q].result # None => run[q].result \in BuildRuns)
    BY <1>2 DEF RunStates
  <1>7. run[q].build # None => build'[run[q].build] # "none" /\ run'[run[q].build].source = run[q].source
    BY <1>1, <1>5, <1>6 DEF RunInv
  <1>8. run[q].result # None => build'[run[q].result] = "success" /\ run'[run[q].result].source = run[q].source
    BY <1>1, <1>5, <1>6 DEF RunInv
  <1> QED  BY <1>1, <1>3, <1>4, <1>7, <1>8 DEF RunInv

\* A listed build is of the commit.
LEMMA SelectOwn ==
  ASSUME TypeOK, BuildInv, NEW r \in BuildRuns, run[r].stage # "idle", UNCHANGED <<initiations, late, build>>,
         Grows, RunInv(r), \E q \in BuildRuns : Listed(run[r].source) = {q},
         run' = [run EXCEPT ![r].stage = "polling",
                            ![r].build = CHOOSE q \in BuildRuns : Listed(run[r].source) = {q}]
  PROVE  RunInv(r)'
  <1> DEFINE b == CHOOSE q \in BuildRuns : Listed(run[r].source) = {q}
  <1>1. b \in BuildRuns /\ b \in Listed(run[r].source)
    OBVIOUS
  <1>2. build[b] # "none" /\ run[b].source = run[r].source
    BY <1>1 DEF Listed
  <1>3. run[r] \in RunStates /\ run \in [BuildRuns -> RunStates]
    BY DEF TypeOK
  <1>4. /\ run'[r].stage = "polling" /\ run'[r].build = b
        /\ \A f \in {"source", "create", "result"} : run'[r][f] = run[r][f]
    BY <1>3 DEF RunStates
  <1>5. run'[b].source = run[b].source
    BY <1>1, <1>2, Started DEF Grows
  <1>6. run[r].result # None =>
          build'[run[r].result] = "success" /\ run'[run[r].result].source = run[r].source
    <2>1. run[r].result # None => run[r].result \in BuildRuns /\ run[run[r].result].stage # "idle"
      BY <1>3, Started DEF RunStates, RunInv
    <2> QED  BY <2>1 DEF Grows, RunInv
  <1>7. build'[r] # "none" => run'[r].create
    BY <1>4 DEF RunInv
  <1> HIDE DEF b
  <1> QED  BY <1>1, <1>2, <1>4, <1>5, <1>6, <1>7 DEF RunInv

\* A run whose stage alone changes, and not to one that may create.
LEMMA StageOwn ==
  ASSUME TypeOK, BuildInv, NEW r \in BuildRuns, run[r].stage # "idle",
         UNCHANGED build, initiations \subseteq initiations', Grows, RunInv(r),
         NEW x \in Stages \ {"idle"}, To(r, x),
         x \in {"creating", "reconciling"} => run[r].create,
         build[r] # "none" => x \in {"reconciling", "polling", "done", "failed"}
  PROVE  RunInv(r)'
  <1>1. run[r] \in RunStates /\ run \in [BuildRuns -> RunStates]
    BY DEF TypeOK
  <1>2. /\ run'[r].stage = x
        /\ \A f \in {"source", "create", "build", "result"} : run'[r][f] = run[r][f]
    BY <1>1 DEF RunStates, To
  <1>3. ASSUME NEW b \in BuildRuns, build[b] # "none"
        PROVE  run'[b].source = run[b].source
    BY <1>3, Started DEF Grows
  <1>4. (run[r].build # None => run[r].build \in BuildRuns) /\ (run[r].result # None => run[r].result \in BuildRuns)
    BY <1>1 DEF RunStates
  <1>5. run[r].build # None => build'[run[r].build] # "none" /\ run'[run[r].build].source = run[r].source
    BY <1>3, <1>4 DEF RunInv
  <1>6. run[r].result # None => build'[run[r].result] = "success" /\ run'[run[r].result].source = run[r].source
    BY <1>3, <1>4 DEF RunInv
  <1> QED  BY <1>2, <1>5, <1>6 DEF RunInv


\* The acting run keeps its invariant.
LEMMA OwnKeeps ==
  ASSUME TypeOK, BuildInv, NEW r \in BuildRuns, BuildRun(r)
  PROVE  RunInv(r)'
  <1>1. run[r] \in RunStates /\ run \in [BuildRuns -> RunStates] /\ build \in [BuildRuns -> BuildStates]
    BY DEF TypeOK
  <1>2. RunInv(r) /\ Grows
    BY StepGrows DEF BuildInv
  <1>3. CASE Start(r)
    <2>1. /\ run'[r].stage = "source"
          /\ \A f \in {"create", "build", "result"} : run'[r][f] = run[r][f]
      BY <1>1, <1>3 DEF Start, RunStates
    <2>2. build[r] = "none" /\ ~run[r].create /\ r \notin initiations
      BY <1>2, <1>3 DEF RunInv, Start
    <2>3. run[r].build = None /\ run[r].result = None
      BY <1>2, <2>2, <1>3 DEF RunInv, Start
    <2> QED  BY <1>3, <2>1, <2>2, <2>3 DEF RunInv, Start, issue
  <1>4. CASE ReadInitiations(r)
    <2> DEFINE found == Initiators(run[r].source)
    <2>1. CASE found # {} /\ \E q \in BuildRuns : found = {q}
      <3>1. /\ run'[r].stage = "initiated"
            /\ \A f \in {"source", "create", "build", "result"} : run'[r][f] = run[r][f]
        BY <1>1, <1>4, <2>1 DEF ReadInitiations, RunStates
      <3>2. UNCHANGED <<initiations, late, build>> /\ build[r] = "none"
        BY <1>2, <1>4 DEF ReadInitiations, issue, RunInv
      <3>3. (run[r].build # None => run[r].build \in BuildRuns) /\ (run[r].result # None => run[r].result \in BuildRuns)
        BY <1>1 DEF RunStates
      <3>4. \A b \in BuildRuns : build[b] # "none" => run'[b].source = run[b].source
        BY <1>2, Started DEF Grows
      <3> QED  BY <1>2, <3>1, <3>2, <3>3, <3>4 DEF RunInv
    <2>2. CASE ~ (found # {} /\ \E q \in BuildRuns : found = {q})
      <3>1. To(r, "none") \/ To(r, "failed")
        BY <1>4, <2>2 DEF ReadInitiations, Fails
      <3> QED  BY <1>2, <1>4, <3>1, StageOwn DEF ReadInitiations, issue, Stages, RunInv
    <2> QED  BY <2>1, <2>2
  <1>5. CASE JudgeInitiator(r)
    BY <1>2, <1>5, StageOwn DEF JudgeInitiator, Fails, issue, Stages, RunInv
  <1>6. CASE Post(r)
    BY <1>2, <1>6, StageOwn DEF Post, Stages, RunInv
  <1>7. CASE VerifyInitiation(r)
    <2>1. CASE Initiators(run[r].source) = {r}
      <3>1. /\ run'[r].stage = "ready" /\ run'[r].create
            /\ \A f \in {"source", "build", "result"} : run'[r][f] = run[r][f]
        BY <1>1, <1>7, <2>1 DEF VerifyInitiation, RunStates
      <3>2. UNCHANGED <<initiations, late, build>> /\ build[r] = "none" /\ r \in initiations
        BY <1>2, <1>7, <2>1 DEF VerifyInitiation, issue, RunInv, Initiators
      <3>3. (run[r].build # None => run[r].build \in BuildRuns) /\ (run[r].result # None => run[r].result \in BuildRuns)
        BY <1>1 DEF RunStates
      <3>4. \A b \in BuildRuns : build[b] # "none" => run'[b].source = run[b].source
        BY <1>2, Started DEF Grows
      <3> QED  BY <1>2, <3>1, <3>2, <3>3, <3>4 DEF RunInv
    <2>2. CASE Initiators(run[r].source) # {r}
      BY <1>2, <1>7, <2>2, StageOwn DEF VerifyInitiation, Fails, issue, Stages, RunInv
    <2> QED  BY <2>1, <2>2
  <1>8. CASE RecheckMain(r)
    BY <1>2, <1>8, StageOwn DEF RecheckMain, Fails, issue, Stages, RunInv
  <1>9. CASE ListBuilds(r)
    <2>1. run[r].stage = "bound" /\ UNCHANGED <<initiations, late, build>>
      BY <1>9 DEF ListBuilds, issue
    <2>2. CASE To(r, "creating") /\ run[r].create
      BY <1>2, <2>1, <2>2, StageOwn DEF Stages, RunInv
    <2>3. CASE Fails(r)
      BY <1>2, <2>1, <2>3, StageOwn DEF Stages, RunInv, Fails
    <2>4. CASE ~Fails(r) /\ ~(To(r, "creating") /\ run[r].create)
      BY <1>2, <1>9, <2>1, <2>4, SelectOwn DEF ListBuilds, Select
    <2> QED  BY <2>2, <2>3, <2>4
  <1>10. CASE Create(r)
    <2>1. run[r].create /\ r \in initiations /\ build[r] = "none"
      BY <1>2, <1>10 DEF Create, RunInv
    <2>2. (run[r].result # None => run[r].result \in BuildRuns) /\ (run[r].build # None => run[r].build \in BuildRuns)
      BY <1>1 DEF RunStates
    <2>3. \A b \in BuildRuns : build[b] # "none" => run'[b].source = run[b].source /\ build'[b] # "none"
      BY <1>2, Started DEF Grows
    <2>4. \A b \in BuildRuns : build[b] = "success" => build'[b] = "success"
      BY <1>2 DEF Grows
    <2>5. initiations' = initiations
      BY <1>10 DEF Create, issue
    <2>6. run[r].result # None => build'[run[r].result] = "success" /\ run'[run[r].result].source = run[r].source
      BY <1>2, <2>2, <2>3, <2>4 DEF RunInv
    <2>7. run[r].build # None => build'[run[r].build] # "none" /\ run'[run[r].build].source = run[r].source
      BY <1>2, <2>2, <2>3 DEF RunInv
    <2>8. CASE build' = [build EXCEPT ![r] = "working"] /\ run' = [run EXCEPT ![r].stage = "polling", ![r].build = r]
      <3>1. /\ run'[r].stage = "polling" /\ run'[r].build = r /\ build'[r] = "working"
            /\ \A f \in {"source", "create", "result"} : run'[r][f] = run[r][f]
        BY <1>1, <2>8 DEF RunStates
      <3> QED  BY <2>1, <2>5, <2>6, <3>1 DEF RunInv
    <2>9. CASE Fails(r) \/ To(r, "reconciling")
      <3>1. /\ run'[r].stage \in {"failed", "reconciling"}
            /\ \A f \in {"source", "create", "build", "result"} : run'[r][f] = run[r][f]
        BY <1>1, <2>9 DEF RunStates, Fails, To
      <3> QED  BY <2>1, <2>5, <2>6, <2>7, <3>1 DEF RunInv
    <2> QED  BY <1>10, <2>8, <2>9 DEF Create
  <1>11. CASE Reconcile(r)
    <2>1. run[r].stage = "reconciling" /\ UNCHANGED <<initiations, late, build>>
      BY <1>11 DEF Reconcile, issue
    <2>2. CASE Fails(r)
      BY <1>2, <2>1, <2>2, StageOwn DEF Stages, RunInv, Fails
    <2>3. CASE ~Fails(r)
      BY <1>2, <1>11, <2>1, <2>3, SelectOwn DEF Reconcile, Select
    <2> QED  BY <2>2, <2>3
  <1>12. CASE HandOn(r)
    <2>1. run[r].build \in BuildRuns /\ UNCHANGED <<initiations, late, build>>
      BY <1>1, <1>12 DEF HandOn, TypeOK, RunStates, issue
    <2>2. CASE build[run[r].build] = "success"
      <3>1. /\ run'[r].stage = "done" /\ run'[r].result = run[r].build
            /\ \A f \in {"source", "create", "build"} : run'[r][f] = run[r][f]
        BY <1>1, <1>12, <2>2 DEF HandOn, RunStates
      <3>2. run'[run[r].build].source = run[run[r].build].source
        BY <1>2, <2>1, <2>2, Started DEF Grows
      <3>3. run[run[r].build].source = run[r].source
        BY <1>2, <2>1, NoneIsNothing DEF RunInv
      <3> QED  BY <1>2, <2>1, <2>2, <3>1, <3>2, <3>3 DEF RunInv
    <2>3. CASE build[run[r].build] # "success"
      BY <1>2, <1>12, <2>1, <2>3, StageOwn DEF HandOn, Fails, Stages
    <2> QED  BY <2>2, <2>3
  <1>13. CASE Fail(r)
    BY <1>2, <1>13, StageOwn DEF Fail, Fails, issue, Stages, RunInv
  <1> QED
    BY <1>3, <1>4, <1>5, <1>6, <1>7, <1>8, <1>9, <1>10, <1>11, <1>12, <1>13 DEF BuildRun

\* GitHub and Cloud Build keep the invariant of the run they act for.
LEMMA ProviderKeeps ==
  ASSUME TypeOK, BuildInv, NEW r \in BuildRuns, Provider(r)
  PROVE  RunInv(r)'
  <1>1. RunInv(r) /\ run' = run
    BY DEF BuildInv, Provider, StoreLate, TakeEffect, BuildEnds
  <1>2. run[r] \in RunStates
    BY DEF TypeOK
  <1>3. \A b \in BuildRuns : (build[b] # "none" => build'[b] # "none")
                            /\ (build[b] = "success" => build'[b] = "success")
    BY StepGrows DEF Grows
  <1>4. build'[r] # "none" => build[r] # "none"
    BY DEF Provider, StoreLate, TakeEffect, BuildEnds, TypeOK
  <1>5. initiations \subseteq initiations' /\ initiations' \cup late' = initiations \cup late
    BY DEF Provider, StoreLate, TakeEffect, BuildEnds, issue
  <1> QED  BY <1>1, <1>2, <1>3, <1>4, <1>5 DEF RunInv, RunStates

\* Of two runs of a commit that may create, the later saw the record of the earlier.
LEMMA OneCreatorKept ==
  ASSUME TypeOK, BuildInv, NEW r \in BuildRuns, BuildRun(r) \/ Provider(r)
  PROVE  OneCreator'
  <1>1. run \in [BuildRuns -> RunStates] /\ Alone(r) /\ Grows
    BY StepIsAlone, StepGrows DEF TypeOK
  <1>2. CASE VerifyInitiation(r) /\ Initiators(run[r].source) = {r}
    <2>1. ASSUME NEW q \in BuildRuns \ {r}, run'[q].create, run'[q].source = run'[r].source
          PROVE  FALSE
      <3>1. run[q].create /\ run[q].source = run[r].source
        <4>1. run'[r].source = run[r].source
          BY <1>1, <1>2 DEF VerifyInitiation, RunStates
        <4> QED  BY <2>1, <1>1, <4>1 DEF Alone
      <3>2. q \in initiations
        BY <3>1 DEF BuildInv, RunInv
      <3> QED  BY <1>2, <3>1, <3>2 DEF Initiators
    <2>2. ASSUME NEW q \in BuildRuns \ {r}, NEW t \in BuildRuns \ {r},
                 run'[q].create, run'[t].create, run'[q].source = run'[t].source
          PROVE  q = t
      BY <1>1, <2>2 DEF Alone, BuildInv, OneCreator
    <2> QED  BY <2>1, <2>2 DEF OneCreator
  <1>3. CASE ~(VerifyInitiation(r) /\ Initiators(run[r].source) = {r})
    <2>1. run'[r].create => run[r].create
      <3>1. run[r] \in RunStates
        BY <1>1
      <3> QED
        BY <1>1, <1>3, <3>1 DEF BuildRun, Start, ReadInitiations, JudgeInitiator, Post, VerifyInitiation,
           RecheckMain, ListBuilds, Select, Create, Reconcile, HandOn, Fail, To, Fails, RunStates,
           Provider, StoreLate, TakeEffect, BuildEnds
    <2>2. \A q \in BuildRuns : run'[q].create => run[q].create /\ run'[q].source = run[q].source
      BY <1>1, <2>1, Started DEF Alone, Grows
    <2> QED  BY <2>2 DEF OneCreator, BuildInv
  <1> QED  BY <1>2, <1>3

LEMMA StepBuild == TypeOK /\ BuildInv /\ [Next]_vars => BuildInv'
  <1> SUFFICES ASSUME TypeOK, BuildInv, [Next]_vars PROVE BuildInv'
    OBVIOUS
  <1>1. ASSUME NEW r \in BuildRuns, BuildRun(r) \/ Provider(r) PROVE BuildInv'
    <2>1. \A q \in BuildRuns \ {r} : RunInv(q)'
      BY <1>1, OthersKeep, StepIsAlone, StepGrows
    <2>2. RunInv(r)'
      BY <1>1, OwnKeeps, ProviderKeeps
    <2> QED  BY <1>1, <2>1, <2>2, OneCreatorKept DEF BuildInv
  <1>2. ASSUME UNCHANGED <<initiations, late, run, build>> PROVE BuildInv'
    BY <1>2 DEF BuildInv, RunInv, OneCreator
  <1>3. CASE MainMoves
    BY <1>2, <1>3 DEF MainMoves, issue
  <1>4. ASSUME NEW r \in BuildRuns, Analyse(r) PROVE BuildInv'
    BY <1>2, <1>4 DEF Analyse, builder, issue
  <1>5. ASSUME NEW e \in EvidenceRuns, EvidenceRun(e) PROVE BuildInv'
    BY <1>2, <1>5 DEF EvidenceRun, Dispatch, FetchBuild, ReadFindings, UploadSbom, UploadRelease,
       PublishRelease, FailReview, builder, issue
  <1>6. CASE UNCHANGED vars
    BY <1>2, <1>6 DEF vars
  <1> QED  BY <1>1, <1>3, <1>4, <1>5, <1>6 DEF Next

LEMMA BuildIsOne == BuildInv => OneBuild
  BY DEF BuildInv, RunInv, OneCreator, OneBuild

LEMMA BuildCorrect == Spec => [](TypeOK /\ BuildInv)
  BY InitType, StepType, InitBuild, StepBuild, PTL DEF Spec

\* Cloud Build is asked for one build of a commit at most, and whatever is handed on is it.
THEOREM BuiltOnce == Spec => []OneBuild
  BY BuildCorrect, BuildIsOne, PTL


-----------------------------------------------------------------------------
(* A commit is released once.                                               *)

\* What an evidence run has written by the stage it is at.
EvidenceInv(e) ==
    /\ review[e].stage \in {"scan", "sbom", "release", "record", "done"} =>
         build[review[e].build] = "success"
    /\ review[e].stage \in {"sbom", "release", "record", "done"} =>
         review[e].findings \in {"none", "below_high"}
    /\ review[e].stage \in {"release", "record", "done"} => sbom[review[e].build] = e
    /\ review[e].stage \in {"record", "done"} => Envelope(e) \in releases

\* An SBOM and a release stay those of the run that wrote them, which has done with both.
StoreInv ==
    /\ \A b \in BuildRuns : sbom[b] # None =>
         review[sbom[b]].build = b /\ review[sbom[b]].stage \in {"release", "record", "done", "failed"}
    /\ \A x \in releases :
         /\ x = Envelope(x.sbom)
         /\ review[x.sbom].stage \in {"record", "done", "failed"}
         /\ sbom[x.build] = x.sbom
         /\ build[x.build] = "success"
         /\ x.findings \in {"none", "below_high"}
    /\ records \subseteq releases

ReviewInv == (\A e \in EvidenceRuns : EvidenceInv(e)) /\ StoreInv

LEMMA InitReview == Init => ReviewInv
  BY DEF Init, ReviewInv, EvidenceInv, StoreInv, NewReview

\* Build runs and their providers leave the evidence alone and no build loses its success.
LEMMA BuildStepReview ==
  ASSUME TypeOK, ReviewInv, UNCHANGED <<sbom, releases, records, review>>,
         \A b \in BuildRuns : build[b] = "success" => build'[b] = "success"
  PROVE  ReviewInv'
  <1>1. \A e \in EvidenceRuns : review[e].stage # "idle" => review[e].build \in BuildRuns
    BY DEF TypeOK, Reviews
  <1>2. \A x \in releases : x.build \in BuildRuns
    BY DEF TypeOK, Releases
  <1>3. \A e \in EvidenceRuns : EvidenceInv(e)'
    BY <1>1 DEF ReviewInv, EvidenceInv, Envelope
  <1>4. StoreInv'
    BY <1>2 DEF ReviewInv, StoreInv, Envelope
  <1> QED  BY <1>3, <1>4 DEF ReviewInv

LEMMA EnvelopeFields ==
  ASSUME NEW e PROVE /\ Envelope(e).build = review[e].build /\ Envelope(e).sbom = e
                     /\ Envelope(e).findings = review[e].findings
  BY DEF Envelope

\* An evidence run whose stage alone changes, with nothing written.
LEMMA GoesOnReview ==
  ASSUME TypeOK, ReviewInv, NEW e \in EvidenceRuns, review[e].stage # "idle",
         UNCHANGED <<build, sbom, releases, records>>,
         NEW x \in {"scan", "failed"}, ReviewTo(e, x),
         x = "scan" => review[e].stage = "input" /\ build[review[e].build] = "success"
  PROVE  ReviewInv'
  <1>1. review[e] \in Reviews /\ review \in [EvidenceRuns -> Reviews]
    BY DEF TypeOK
  <1>2. /\ review'[e].stage = x /\ review'[e].build = review[e].build
        /\ review'[e].findings = review[e].findings
        /\ \A d \in EvidenceRuns \ {e} : review'[d] = review[d]
    BY <1>1 DEF ReviewTo, Reviews
  <1>3. \A d \in EvidenceRuns : Envelope(d)' = Envelope(d)
    BY <1>2 DEF Envelope
  <1>4. \A d \in EvidenceRuns : EvidenceInv(d)'
    BY <1>2, <1>3 DEF ReviewInv, EvidenceInv
  <1>5. ASSUME NEW b \in BuildRuns, sbom[b] # None
        PROVE  review'[sbom[b]].build = b /\ review'[sbom[b]].stage \in {"release", "record", "done", "failed"}
    <2>1. sbom[b] \in EvidenceRuns
      BY <1>5 DEF TypeOK
    <2> QED  BY <1>2, <1>5, <2>1 DEF ReviewInv, StoreInv
  <1>6. ASSUME NEW z \in releases
        PROVE  /\ z = Envelope(z.sbom)'
               /\ review'[z.sbom].stage \in {"record", "done", "failed"}
    <2>1. z.sbom \in EvidenceRuns
      BY <1>6 DEF TypeOK, Releases
    <2> QED  BY <1>2, <1>3, <1>6, <2>1 DEF ReviewInv, StoreInv
  <1>7. StoreInv'
    BY <1>5, <1>6 DEF ReviewInv, StoreInv
  <1> QED  BY <1>4, <1>7 DEF ReviewInv


\* An evidence run that has not written its SBOM has written nothing.
LEMMA NothingWritten ==
  ASSUME TypeOK, ReviewInv, NEW e \in EvidenceRuns,
         review[e].stage \in {"idle", "input", "scan", "sbom"}
  PROVE  /\ \A b \in BuildRuns : sbom[b] # e
         /\ \A x \in releases : x.sbom # e
  <1>1. e # None
    BY NoneIsNothing
  <1>2. \A x \in releases : x.build \in BuildRuns
    BY DEF TypeOK, Releases
  <1> QED  BY <1>1, <1>2 DEF ReviewInv, StoreInv

\* Dispatch and the reading of the findings.
LEMMA BeforeWriting ==
  ASSUME TypeOK, ReviewInv, NEW e \in EvidenceRuns,
         review[e].stage \in {"idle", "scan"}, NEW v \in Reviews,
         UNCHANGED <<build, sbom, releases, records>>, review' = [review EXCEPT ![e] = v],
         \/ v.stage \in {"input", "failed"}
         \/ v.stage = "sbom" /\ v.findings \in {"none", "below_high"} /\ build[v.build] = "success"
  PROVE  ReviewInv'
  <1>1. review' \in [EvidenceRuns -> Reviews] /\ review'[e] = v
        /\ \A d \in EvidenceRuns \ {e} : review'[d] = review[d]
    BY DEF TypeOK
  <1>2. \A d \in EvidenceRuns \ {e} : Envelope(d)' = Envelope(d)
    BY <1>1 DEF Envelope
  <1>3. ASSUME NEW d \in EvidenceRuns PROVE EvidenceInv(d)'
    <2>1. CASE d = e
      BY <1>1, <2>1 DEF EvidenceInv
    <2>2. CASE d # e
      BY <1>1, <1>2, <2>2 DEF EvidenceInv, ReviewInv
    <2> QED  BY <2>1, <2>2
  <1>4. ASSUME NEW b \in BuildRuns, sbom[b] # None
        PROVE  review'[sbom[b]].build = b /\ review'[sbom[b]].stage \in {"release", "record", "done", "failed"}
    <2>1. sbom[b] \in EvidenceRuns \ {e}
      BY <1>4, NothingWritten DEF TypeOK
    <2> QED  BY <1>1, <1>4, <2>1 DEF ReviewInv, StoreInv
  <1>5. ASSUME NEW z \in releases
        PROVE  z = Envelope(z.sbom)' /\ review'[z.sbom].stage \in {"record", "done", "failed"}
    <2>1. z.sbom \in EvidenceRuns \ {e}
      BY <1>5, NothingWritten DEF TypeOK, Releases
    <2> QED  BY <1>1, <1>2, <1>5, <2>1 DEF ReviewInv, StoreInv
  <1>6. StoreInv'
    BY <1>4, <1>5 DEF ReviewInv, StoreInv
  <1> QED  BY <1>3, <1>6 DEF ReviewInv

\* The SBOM, the release and the record are written by a run at its turn.
LEMMA UploadSbomReview ==
  ASSUME TypeOK, ReviewInv, NEW e \in EvidenceRuns, UploadSbom(e),
         sbom' = [sbom EXCEPT ![review[e].build] = e], Writable(review[e].build)
  PROVE  ReviewInv'
  <1> DEFINE b == review[e].build
  <1>1. b \in BuildRuns /\ build[b] = "success" /\ sbom[b] = None /\ e # None
    BY NoneIsNothing DEF UploadSbom, Writable, ReviewInv, EvidenceInv, TypeOK, Reviews
  <1>2. PICK s \in {"release", "failed"} : ReviewTo(e, s)
    BY DEF UploadSbom
  <1>3. review[e] \in Reviews /\ review \in [EvidenceRuns -> Reviews] /\ review[e].stage = "sbom"
    BY DEF TypeOK, UploadSbom
  <1>4. /\ review'[e].stage = s /\ review'[e].build = b /\ review'[e].findings = review[e].findings
        /\ \A d \in EvidenceRuns \ {e} : review'[d] = review[d]
    BY <1>2, <1>3 DEF ReviewTo, Reviews
  <1>5. UNCHANGED <<build, releases, records>>
    BY DEF UploadSbom, builder
  <1>6. sbom'[b] = e /\ \A c \in BuildRuns \ {b} : sbom'[c] = sbom[c]
    BY <1>1 DEF TypeOK
  <1>7. \A d \in EvidenceRuns : Envelope(d)' = Envelope(d)
    BY <1>4 DEF Envelope
  <1>8. \A c \in BuildRuns : sbom[c] # e
    BY <1>3, NothingWritten
  <1>9. ASSUME NEW d \in EvidenceRuns PROVE EvidenceInv(d)'
    <2>1. CASE d = e
      BY <1>1, <1>2, <1>3, <1>4, <1>5, <1>6, <2>1 DEF EvidenceInv, ReviewInv
    <2>2. CASE d # e
      <3>1. d # None
        BY NoneIsNothing
      <3>2. review[d].stage # "idle" => review[d].build \in BuildRuns
        BY DEF TypeOK, Reviews
      <3>3. review[d].stage \in {"release", "record", "done"} => sbom'[review[d].build] = d
        BY <1>1, <1>6, <3>1, <3>2 DEF ReviewInv, EvidenceInv
      <3> QED  BY <1>4, <1>5, <1>7, <2>2, <3>3 DEF EvidenceInv, ReviewInv
    <2> QED  BY <2>1, <2>2
  <1>10. ASSUME NEW c \in BuildRuns, sbom'[c] # None
         PROVE  review'[sbom'[c]].build = c /\ review'[sbom'[c]].stage \in {"release", "record", "done", "failed"}
    <2>1. CASE c = b
      BY <1>2, <1>4, <1>6, <2>1
    <2>2. CASE c # b
      <3>1. sbom'[c] = sbom[c] /\ sbom[c] \in EvidenceRuns \ {e}
        BY <1>6, <1>8, <1>10, <2>2 DEF TypeOK
      <3> QED  BY <1>4, <1>10, <3>1 DEF ReviewInv, StoreInv
    <2> QED  BY <2>1, <2>2
  <1>11. ASSUME NEW z \in releases
         PROVE  /\ z = Envelope(z.sbom)' /\ review'[z.sbom].stage \in {"record", "done", "failed"}
                /\ sbom'[z.build] = z.sbom
    <2>1. z.sbom \in EvidenceRuns \ {e} /\ z.build \in BuildRuns /\ sbom[z.build] = z.sbom
      BY <1>3, <1>11, NothingWritten DEF TypeOK, Releases, ReviewInv, StoreInv
    <2>2. z.build # b
      BY <1>1, <2>1, NoneIsNothing
    <2> QED  BY <1>4, <1>6, <1>7, <1>11, <2>1, <2>2 DEF ReviewInv, StoreInv
  <1>12. StoreInv'
    BY <1>5, <1>10, <1>11 DEF ReviewInv, StoreInv
  <1> QED  BY <1>9, <1>12 DEF ReviewInv

LEMMA UploadReleaseReview ==
  ASSUME TypeOK, ReviewInv, NEW e \in EvidenceRuns, review[e].stage \in {"release", "record"},
         NEW s \in {"record", "done", "failed"}, ReviewTo(e, s), UNCHANGED <<build, sbom>>,
         releases' = releases \cup {Envelope(e)}, records' \subseteq records \cup {Envelope(e)}
  PROVE  ReviewInv'
  <1>1. /\ review[e].build \in BuildRuns /\ build[review[e].build] = "success"
        /\ sbom[review[e].build] = e /\ review[e].findings \in {"none", "below_high"}
    BY DEF ReviewInv, EvidenceInv, TypeOK, Reviews
  <1>2. review[e] \in Reviews /\ review \in [EvidenceRuns -> Reviews]
    BY DEF TypeOK
  <1>3. /\ review'[e].stage = s /\ review'[e].build = review[e].build
        /\ review'[e].findings = review[e].findings
        /\ \A d \in EvidenceRuns \ {e} : review'[d] = review[d]
    BY <1>2 DEF ReviewTo, Reviews
  <1>4. \A d \in EvidenceRuns : Envelope(d)' = Envelope(d)
    BY <1>3 DEF Envelope
  <1>5. \A d \in EvidenceRuns : EvidenceInv(d)'
    BY <1>1, <1>3, <1>4 DEF ReviewInv, EvidenceInv
  <1>6. ASSUME NEW b \in BuildRuns, sbom[b] # None
        PROVE  review'[sbom[b]].build = b /\ review'[sbom[b]].stage \in {"release", "record", "done", "failed"}
    <2>1. sbom[b] \in EvidenceRuns
      BY <1>6 DEF TypeOK
    <2> QED  BY <1>3, <1>6, <2>1 DEF ReviewInv, StoreInv
  <1>7. ASSUME NEW z \in releases'
        PROVE  /\ z = Envelope(z.sbom)' /\ review'[z.sbom].stage \in {"record", "done", "failed"}
               /\ sbom[z.build] = z.sbom /\ build[z.build] = "success"
               /\ z.findings \in {"none", "below_high"}
    <2>1. CASE z \in releases
      <3>1. z.sbom \in EvidenceRuns
        BY <2>1 DEF TypeOK, Releases
      <3> QED  BY <1>3, <1>4, <2>1, <3>1 DEF ReviewInv, StoreInv
    <2>2. CASE z = Envelope(e)
      BY <1>1, <1>3, <1>4, <2>2, EnvelopeFields
    <2> QED  BY <2>1, <2>2
  <1>8. StoreInv'
    BY <1>6, <1>7 DEF ReviewInv, StoreInv
  <1> QED  BY <1>5, <1>8 DEF ReviewInv

LEMMA EvidenceStepReview ==
  ASSUME TypeOK, ReviewInv, NEW e \in EvidenceRuns, EvidenceRun(e)
  PROVE  ReviewInv'
  <1>1. build' = build
    BY DEF EvidenceRun, Dispatch, FetchBuild, ReadFindings, UploadSbom, UploadRelease,
       PublishRelease, FailReview, builder
  <1>2. review \in [EvidenceRuns -> Reviews] /\ review[e] \in Reviews
        /\ (review[e].stage # "idle" => review[e].build \in BuildRuns)
    BY DEF TypeOK, Reviews
  <1>3. CASE \E b \in BuildRuns : Dispatch(e, b)
    <2>1. PICK b \in BuildRuns : Dispatch(e, b)
      BY <1>3
    <2> DEFINE v == [review[e] EXCEPT !.stage = "input", !.build = b]
    <2>2. v \in Reviews
      BY <1>2, ReviewEdits
    <2>3. v.stage = "input"
      BY <1>2 DEF Reviews
    <2>4. review' = [review EXCEPT ![e] = v]
      BY <2>1, <1>2 DEF Dispatch
    <2> QED  BY <1>1, <2>1, <2>2, <2>3, <2>4, BeforeWriting DEF Dispatch
  <1>4. CASE FetchBuild(e)
    BY <1>1, <1>4, GoesOnReview DEF FetchBuild
  <1>5. CASE ReadFindings(e)
    <2> DEFINE f == findings[review[e].build]
               x == IF f = "high" THEN "failed" ELSE "sbom"
               v == [review[e] EXCEPT !.stage = x, !.findings = f]
    <2>1. f \in Findings /\ f # "unscanned" /\ review[e].stage = "scan"
      BY <1>2, <1>5 DEF ReadFindings, TypeOK
    <2>2. x \in {"sbom", "failed"} /\ v \in Reviews
      BY <1>2, <2>1, ReviewEdits
    <2>3. v.stage = x /\ v.findings = f /\ v.build = review[e].build
      BY <1>2 DEF Reviews
    <2>4. review' = [review EXCEPT ![e] = v]
      BY <1>2, <1>5 DEF ReadFindings
    <2>5. build[review[e].build] = "success"
      BY <2>1 DEF ReviewInv, EvidenceInv
    <2>6. \/ v.stage \in {"input", "failed"}
          \/ v.stage = "sbom" /\ v.findings \in {"none", "below_high"} /\ build[v.build] = "success"
      BY <2>1, <2>2, <2>3, <2>5 DEF Findings
    <2>7. UNCHANGED <<sbom, releases, records>>
      BY <1>5 DEF ReadFindings
    <2> HIDE DEF v
    <2> QED  BY <1>1, <2>1, <2>2, <2>4, <2>6, <2>7, BeforeWriting
  <1>6. CASE UploadSbom(e)
    <2>1. CASE UNCHANGED sbom /\ ReviewTo(e, "failed")
      BY <1>1, <1>6, <2>1, GoesOnReview DEF UploadSbom
    <2> QED  BY <1>6, <2>1, UploadSbomReview DEF UploadSbom
  <1>7. CASE UploadRelease(e)
    <2>1. CASE UNCHANGED releases /\ ReviewTo(e, "failed")
      BY <1>1, <1>7, <2>1, GoesOnReview DEF UploadRelease
    <2>2. CASE releases' = releases \cup {Envelope(e)} /\ \E s \in {"record", "failed"} : ReviewTo(e, s)
      BY <1>1, <1>7, <2>2, UploadReleaseReview DEF UploadRelease
    <2> QED  BY <1>7, <2>1, <2>2 DEF UploadRelease
  <1>8. CASE PublishRelease(e)
    <2>1. CASE UNCHANGED records /\ ReviewTo(e, "failed")
      BY <1>1, <1>8, <2>1, GoesOnReview DEF PublishRelease
    <2>2. CASE records' = records \cup {Envelope(e)} /\ \E s \in {"done", "failed"} : ReviewTo(e, s)
      <3>1. releases' = releases \cup {Envelope(e)}
        BY <1>8 DEF PublishRelease, ReviewInv, EvidenceInv
      <3> QED  BY <1>1, <1>8, <2>2, <3>1, UploadReleaseReview DEF PublishRelease
    <2> QED  BY <1>8, <2>1, <2>2 DEF PublishRelease
  <1>9. CASE FailReview(e)
    BY <1>1, <1>9, GoesOnReview DEF FailReview
  <1> QED  BY <1>3, <1>4, <1>5, <1>6, <1>7, <1>8, <1>9 DEF EvidenceRun

LEMMA StepReview == TypeOK /\ BuildInv /\ ReviewInv /\ [Next]_vars => ReviewInv'
  <1> SUFFICES ASSUME TypeOK, BuildInv, ReviewInv, [Next]_vars PROVE ReviewInv'
    OBVIOUS
  <1>1. ASSUME NEW r \in BuildRuns, BuildRun(r) \/ Provider(r) PROVE ReviewInv'
    <2>1. UNCHANGED <<sbom, releases, records, review>>
      BY <1>1 DEF BuildRun, Start, ReadInitiations, JudgeInitiator, Post, VerifyInitiation, RecheckMain,
         ListBuilds, Create, Reconcile, HandOn, Fail, Provider, StoreLate, TakeEffect, BuildEnds, evidence
    <2> QED  BY <1>1, <2>1, StepGrows, BuildStepReview DEF Grows
  <1>2. CASE MainMoves
    BY <1>2, BuildStepReview DEF MainMoves, evidence
  <1>3. ASSUME NEW r \in BuildRuns, Analyse(r) PROVE ReviewInv'
    BY <1>3, BuildStepReview DEF Analyse, builder, evidence
  <1>4. CASE UNCHANGED vars
    BY <1>4, BuildStepReview DEF vars
  <1> QED  BY <1>1, <1>2, <1>3, <1>4, EvidenceStepReview DEF Next

\* Two releases of a commit would be of its one build, and so of its one SBOM.
LEMMA ReleaseIsOne == TypeOK /\ BuildInv /\ ReviewInv => OneRelease
  <1> SUFFICES ASSUME TypeOK, BuildInv, ReviewInv PROVE OneRelease
    OBVIOUS
  <1>1. ASSUME NEW x \in releases, NEW y \in releases, run[y.build].source = run[x.build].source
        PROVE  y = x
    <2>1. x.build \in BuildRuns /\ y.build \in BuildRuns
      BY DEF TypeOK, Releases
    <2>2. build[x.build] # "none" /\ build[y.build] # "none"
      BY DEF ReviewInv, StoreInv
    <2>3. y.build = x.build
      BY <1>1, <2>1, <2>2, BuildIsOne DEF OneBuild
    <2> QED  BY <2>3 DEF ReviewInv, StoreInv
  <1> QED  BY <1>1 DEF OneRelease, ReviewInv, StoreInv

\* A commit has one release, of its one build, with the stored SBOM and findings that passed.
THEOREM ReleasedOnce == Spec => []OneRelease
  BY InitType, StepType, InitBuild, StepBuild, InitReview, StepReview, ReleaseIsOne, PTL DEF Spec


=============================================================================
