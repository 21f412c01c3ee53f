------------------------ MODULE HighAcceptanceProofs ------------------------
(***************************************************************************)
(* Proofs about HighAcceptance, for any number of runs, comments, builds   *)
(* and findings, with and without the concurrency group: the safety of an  *)
(* acceptance rests on the uniqueness that verify-consumed demands.        *)
(***************************************************************************)
EXTENDS HighAcceptance, TLAPS

\* The consumption a run posts is one.
LEMMA BodyType ==
  ASSUME TypeOK, NEW r \in Runs, run[r].token # None, run[r].build # None,
         run[r].gate \in Findings
  PROVE  ConsumptionBody(r) \in Consumptions
<1> QED
  BY NoneIsNothing DEF TypeOK, RunStates, ConsumptionBody, Consumptions, Build

\* What the invariant says of a run in the middle of the consumption.
LEMMA AtConsumption ==
  ASSUME TypeOK, NEW r \in Runs, RunInv(r), run[r].stage \in {"post", "reconcile"}
  PROVE  /\ run[r].token \in Cids /\ run[r].build \in Builds /\ run[r].gate \in Findings
         /\ ConsumptionBody(r) \in Consumptions
<1>1. run[r].token \in Cids /\ run[r].build \in Builds /\ run[r].gate \in Findings
  BY DEF TypeOK, RunStates, RunInv, Gates
<1> QED
  BY <1>1, BodyType, NoneIsNothing

\* A change of one run's state.
LEMMA RunTypes ==
  ASSUME TypeOK, NEW r \in Runs, NEW s \in RunStates, run' = [run EXCEPT ![r] = s]
  PROVE  run' \in [Runs -> RunStates]
<1> QED
  BY DEF TypeOK

\* A stage entered, and a failed run, are states of a run.
LEMMA StageTypes ==
  ASSUME TypeOK, NEW r \in Runs
  PROVE  /\ \A stage \in Stages : Enter(r, stage) => run' \in [Runs -> RunStates]
         /\ Stop(r) => run' \in [Runs -> RunStates]
         /\ RerunFailedJobs(r) => run' \in [Runs -> RunStates]
         /\ Restarted(r) \in RunStates
<1>1. run[r] \in RunStates
  BY DEF TypeOK
<1>2. \A stage \in Stages : [run[r] EXCEPT !.stage = stage] \in RunStates
  BY <1>1 DEF RunStates
<1>3. Failed(run[r]) \in RunStates
  BY <1>1 DEF RunStates, Failed, JobOf, Jobs, Stages
<1>4. \A stage \in Stages : Enter(r, stage) => run' \in [Runs -> RunStates]
  BY <1>2 DEF Enter, TypeOK
<1>5. Stop(r) => run' \in [Runs -> RunStates]
  BY <1>3 DEF Stop, TypeOK
<1>6. run[r].failed \in Stages
  BY <1>1 DEF RunStates, Jobs, Stages
<1>7. RerunFailedJobs(r) => run' \in [Runs -> RunStates]
  BY <1>4, <1>6 DEF RerunFailedJobs
<1>8. Restarted(r) \in RunStates
  BY <1>1 DEF Restarted, NewRun, RunStates, Stages, Jobs
<1> QED
  BY <1>4, <1>5, <1>7, <1>8

\* A comment that is added is one that was not there.
LEMMA AddType ==
  ASSUME TypeOK, NEW c \in Comments, Add(c)
  PROVE  /\ comments' \in [Cids -> Comments \cup {None}]
         /\ \A id \in Cids : comments[id] # None => comments'[id] = comments[id]
         /\ \E id \in Cids : comments'[id] = c
<1>1. PICK id \in Cids : /\ comments[id] = None
                         /\ comments' = [comments EXCEPT ![id] = c]
  BY DEF Add
<1> QED
  BY <1>1 DEF TypeOK

----------------------------------------------------------------------------
\* Type correctness.

\* The initial state is well typed.
LEMMA InitType == ASSUME Init PROVE TypeOK
<1>1. NewRun \in RunStates
  BY DEF NewRun, RunStates, Stages, Jobs
<1>2. 0 \in 0..MaxMain
  BY ConstantsOK
<1> QED
  BY <1>1, <1>2, ConstantsOK DEF Init, TypeOK

\* Every step of a run keeps every variable in its type.
LEMMA WorkType ==
  ASSUME TypeOK, NEW r \in Runs, RunInv(r), Work(r)
  PROVE  TypeOK'
<1>1. run[r] \in RunStates
  BY DEF TypeOK
<1>2. ASSUME NEW b \in Builds, Start(r, b) PROVE TypeOK'
  <2>1. [run[r] EXCEPT !.stage = "adjudicate", !.build = b] \in RunStates
    BY <1>1 DEF RunStates, Stages
  <2>2. run' = [run EXCEPT ![r] = [run[r] EXCEPT !.stage = "adjudicate", !.build = b]]
    BY <1>2 DEF Start, TypeOK
  <2> QED
    BY <1>2, <2>1, <2>2, RunTypes DEF Start, TypeOK, objects
<1>3. ASSUME NEW d \in Dispositions, Adjudicate(r, d) PROVE TypeOK'
  <2> DEFINE next == IF d = "PASS" THEN "sbom" ELSE "prepare"
  <2>1. [run[r] EXCEPT !.stage = next, !.gate = d] \in RunStates
    BY <1>1, <1>3 DEF RunStates, Stages, Adjudicate, LetsThrough
  <2>2. run' = [run EXCEPT ![r] = [run[r] EXCEPT !.stage = next, !.gate = d]]
    BY <1>3 DEF Adjudicate, TypeOK
  <2> QED
    BY <1>3, <2>1, <2>2, RunTypes DEF Adjudicate, TypeOK, objects
<1>4. ASSUME Prepare(r) PROVE TypeOK'
  <2>1. PICK t \in Cids : run' = [run EXCEPT ![r].stage = "post", ![r].token = t]
    BY <1>4 DEF Prepare
  <2>2. [run[r] EXCEPT !.stage = "post", !.token = t] \in RunStates
    BY <1>1 DEF RunStates, Stages
  <2>3. run' = [run EXCEPT ![r] = [run[r] EXCEPT !.stage = "post", !.token = t]]
    BY <2>1 DEF TypeOK
  <2> QED
    BY <1>4, <2>2, <2>3, RunTypes DEF Prepare, TypeOK, objects
<1>5. ASSUME Post(r) \/ PostLate(r) \/ PostLost(r) PROVE TypeOK'
  <2>1. ConsumptionBody(r) \in Consumptions /\ ConsumptionBody(r) \in Comments
    BY <1>5, AtConsumption DEF Post, PostLate, PostLost, At, Comments
  <2>2. run' \in [Runs -> RunStates]
    BY <1>5, StageTypes DEF Post, PostLate, PostLost, Stages
  <2>3. Add(ConsumptionBody(r)) \/ comments' = comments
    BY <1>5 DEF Post, PostLate, PostLost
  <2>4. comments' \in [Cids -> Comments \cup {None}]
    BY <2>1, <2>3, AddType DEF TypeOK
  <2>5. late' \subseteq Consumptions
    BY <1>5, <2>1 DEF Post, PostLate, PostLost, TypeOK
  <2> QED
    BY <1>5, <2>2, <2>4, <2>5 DEF Post, PostLate, PostLost, TypeOK, objects
<1>6. ASSUME Verify(r) PROVE TypeOK'
  <2>1. run[r].token \in Cids
    BY <1>6, AtConsumption DEF Verify, At
  <2>2. run' \in [Runs -> RunStates]
    BY <1>6, StageTypes DEF Verify, Stages
  <2> QED
    BY <1>6, <2>1, <2>2 DEF Verify, TypeOK, objects
<1>7. ASSUME StoreSbom(r) \/ StoreSbomAnswerLost(r) PROVE TypeOK'
  <2>1. run' \in [Runs -> RunStates]
    BY <1>7, StageTypes DEF StoreSbom, StoreSbomAnswerLost, Stages
  <2>2. CommitSbom(r)
    BY <1>7 DEF StoreSbom, StoreSbomAnswerLost
  <2> QED
    BY <2>1, <2>2 DEF CommitSbom, TypeOK
<1>8. ASSUME StoreTransition(r) \/ StoreTransitionAnswerLost(r) PROVE TypeOK'
  <2>1. run' \in [Runs -> RunStates]
    BY <1>8, StageTypes DEF StoreTransition, StoreTransitionAnswerLost, Stages
  <2>2. CommitTransition(r) /\ At(r, "transition")
    BY <1>8 DEF StoreTransition, StoreTransitionAnswerLost, CommitTransition
  <2>3. [run |-> r, gate |-> run[r].gate, token |-> run[r].token, sbom |-> r] \in Manifests
    BY <2>2, <1>1 DEF Manifests, RunInv, RunStates, At
  <2> QED
    BY <2>1, <2>2, <2>3 DEF CommitTransition, TypeOK
<1>9. ASSUME Fail(r) \/ RerunFailedJobs(r) \/ RerunAllJobs(r) PROVE TypeOK'
  <2>1. run' \in [Runs -> RunStates]
    BY <1>9, StageTypes, RunTypes DEF Fail, RerunAllJobs
  <2> QED
    BY <1>9, <2>1 DEF Fail, RerunFailedJobs, RerunAllJobs, TypeOK, objects
<1> QED
  BY <1>2, <1>3, <1>4, <1>5, <1>6, <1>7, <1>8, <1>9 DEF Work

\* Every step keeps every variable in its type.
LEMMA TypeStep ==
  ASSUME TypeOK, \A r \in Runs : RunInv(r), [Next]_vars
  PROVE  TypeOK'
<1>1. CASE UNCHANGED vars
  BY <1>1 DEF TypeOK, vars
<1>2. CASE MainMoves
  BY <1>2, ConstantsOK DEF MainMoves, TypeOK, objects
<1>3. ASSUME NEW c \in OwnerWrites, OwnerComments(c) PROVE TypeOK'
  BY <1>3, AddType, ConstantsOK DEF OwnerComments, TypeOK, objects
<1>4. ASSUME NEW c \in late, LateArrival(c) PROVE TypeOK'
  BY <1>4, AddType DEF LateArrival, TypeOK, objects, Comments
<1>5. ASSUME NEW r \in Runs, Work(r) PROVE TypeOK'
  BY <1>5, WorkType
<1> QED
  BY <1>1, <1>2, <1>3, <1>4, <1>5 DEF Next

----------------------------------------------------------------------------
\* Comments, verified uses and objects only come to be.

Growing ==
    /\ \A c \in Cids : comments[c] # None => comments'[c] = comments[c]
    /\ uses \subseteq uses'
    /\ \A b \in Builds : sbom[b] # None => sbom'[b] = sbom[b]
    /\ \A b \in Builds : transitions[b] # None => transitions'[b] = transitions[b]

\* No step edits a comment, takes back a use or overwrites an object.
LEMMA StepGrows ==
  ASSUME TypeOK, \A r \in Runs : RunInv(r), [Next]_vars
  PROVE  Growing
<1>1. CASE UNCHANGED vars
  BY <1>1 DEF Growing, vars
<1>2. CASE MainMoves
  BY <1>2 DEF MainMoves, Growing, objects
<1>3. ASSUME NEW c \in OwnerWrites, OwnerComments(c) PROVE Growing
  BY <1>3, AddType, ConstantsOK DEF OwnerComments, Growing, objects
<1>4. ASSUME NEW c \in late, LateArrival(c) PROVE Growing
  BY <1>4, AddType DEF LateArrival, Growing, objects, TypeOK, Comments
<1>5. ASSUME NEW r \in Runs, Work(r) PROVE Growing
  <2>1. ASSUME Post(r) PROVE Growing
    BY <2>1, AtConsumption, AddType DEF Post, At, Growing, objects, Comments
  <2>2. ASSUME StoreSbom(r) \/ StoreSbomAnswerLost(r) PROVE Growing
    BY <2>2 DEF StoreSbom, StoreSbomAnswerLost, CommitSbom, Creatable, Growing, TypeOK
  <2>3. ASSUME StoreTransition(r) \/ StoreTransitionAnswerLost(r) PROVE Growing
    BY <2>3 DEF StoreTransition, StoreTransitionAnswerLost, CommitTransition, Creatable,
                Growing, TypeOK
  <2>4. ASSUME \/ \E b \in Builds : Start(r, b)
               \/ \E d \in Dispositions : Adjudicate(r, d)
               \/ Prepare(r) \/ PostLate(r) \/ PostLost(r) \/ Verify(r)
               \/ Fail(r) \/ RerunFailedJobs(r) \/ RerunAllJobs(r)
        PROVE  Growing
    BY <2>4 DEF Start, Adjudicate, Prepare, PostLate, PostLost, Verify, Fail,
                RerunFailedJobs, RerunAllJobs, Growing, objects
  <2> QED
    BY <1>5, <2>1, <2>2, <2>3, <2>4 DEF Work
<1> QED
  BY <1>1, <1>2, <1>3, <1>4, <1>5 DEF Next

----------------------------------------------------------------------------
\* The parts of the invariant.

\* An acceptance stays as it is.
LEMMA AcceptancesStay ==
  ASSUME Growing, NEW t \in Cids, IsKind(t, "acceptance")
  PROVE  comments[t] # None /\ comments'[t] = comments[t]
<1> QED
  BY DEF Growing, IsKind

\* A run that does not move keeps what it relies on.
LEMMA RunStays ==
  ASSUME TypeOK, Growing, NEW q \in Runs, RunInv(q), run'[q] = run[q]
  PROVE  RunInv(q)'
<1>1. run[q] \in RunStates
  BY DEF TypeOK
<1>2. run[q].token # None =>
          /\ run[q].token \in Cids
          /\ comments[run[q].token] # None
          /\ comments'[run[q].token] = comments[run[q].token]
  BY <1>1, AcceptancesStay DEF RunStates, RunInv
<1>3. run[q].stage = "transition" => sbom'[run[q].build] = q
  <2>1. run[q].stage = "transition" => run[q].build \in Builds /\ sbom[run[q].build] = q
    BY <1>1 DEF RunStates, RunInv
  <2> QED
    BY <2>1, NoneIsNothing DEF Growing
<1>4. uses \subseteq uses'
  BY DEF Growing
<1> QED
  BY <1>2, <1>3, <1>4 DEF RunInv, IsKind

\* What a run hands on when it enters a stage, and when it fails.
LEMMA Handed ==
  ASSUME TypeOK, NEW r \in Runs
  PROVE  /\ \A stage \in Stages : Enter(r, stage) =>
                /\ run'[r].stage = stage
                /\ run'[r].build = run[r].build /\ run'[r].gate = run[r].gate
                /\ run'[r].token = run[r].token /\ run'[r].failed = run[r].failed
         /\ Stop(r) =>
                /\ run'[r].stage = "failed" /\ run'[r].failed = JobOf(run[r].stage)
                /\ run'[r].build = run[r].build /\ run'[r].gate = run[r].gate
                /\ run'[r].token = run[r].token
<1> QED
  BY DEF TypeOK, RunStates, Enter, Stop, Failed

\* A failed job can be run again: what it needs is still there.
LEMMA StopKeeps ==
  ASSUME TypeOK, Growing, NEW r \in Runs, RunInv(r), run[r].stage \in Working, Stop(r)
  PROVE  RunInv(r)'
<1>1. run[r] \in RunStates
  BY DEF TypeOK
<1>2. run[r].token # None =>
          /\ comments[run[r].token] # None
          /\ comments'[run[r].token] = comments[run[r].token]
  BY <1>1, AcceptancesStay DEF RunStates, RunInv
<1>3. uses \subseteq uses'
  BY DEF Growing
<1>4. /\ run'[r].stage = "failed" /\ run'[r].failed = JobOf(run[r].stage)
      /\ run'[r].build = run[r].build /\ run'[r].gate = run[r].gate
      /\ run'[r].token = run[r].token
  BY Handed
<1>5. run[r].stage \in {"adjudicate", "prepare", "post", "reconcile", "sbom", "transition"}
  BY DEF Working, Stages
<1> QED
  BY <1>2, <1>3, <1>4, <1>5 DEF RunInv, IsKind, JobOf

\* A run that enters another stage keeps what it was handed; what the stage
\* adds is for the caller to show.
LEMMA EnterKeeps ==
  ASSUME TypeOK, Growing, NEW r \in Runs, RunInv(r), NEW stage \in Stages, Enter(r, stage),
         stage \notin {"new", "failed"}, run[r].build # None,
         stage = "adjudicate" => run[r].token = None,
         stage # "adjudicate" => run[r].gate # None,
         stage \in {"prepare", "post", "reconcile"} => run[r].gate # "PASS",
         stage \in {"post", "reconcile"} => run[r].token # None,
         run[r].gate \in Findings /\ stage \in {"sbom", "transition", "done"} =>
             run[r].token # None /\ <<run[r].token, r>> \in uses',
         stage = "transition" => sbom'[run[r].build] = r
  PROVE  RunInv(r)'
<1>1. run[r] \in RunStates
  BY DEF TypeOK
<1>2. run[r].token # None =>
          /\ comments[run[r].token] # None
          /\ comments'[run[r].token] = comments[run[r].token]
  BY <1>1, AcceptancesStay DEF RunStates, RunInv
<1>3. /\ run'[r].stage = stage
      /\ run'[r].build = run[r].build /\ run'[r].gate = run[r].gate
      /\ run'[r].token = run[r].token
  BY Handed
<1> QED
  BY <1>2, <1>3 DEF RunInv, IsKind

\* The run that moves reaches a stage whose reliances hold.
LEMMA RunMoves ==
  ASSUME TypeOK, Growing, NEW r \in Runs, RunInv(r), Work(r)
  PROVE  RunInv(r)'
<1>1. run[r] \in RunStates
  BY DEF TypeOK
<1>2. run[r].token # None =>
          /\ run[r].token \in Cids
          /\ comments[run[r].token] # None
          /\ comments'[run[r].token] = comments[run[r].token]
  BY <1>1, AcceptancesStay DEF RunStates, RunInv
<1>3. ASSUME NEW b \in Builds, Start(r, b) PROVE RunInv(r)'
  <2>1. /\ run'[r].stage = "adjudicate" /\ run'[r].build = b /\ b # None
        /\ run'[r].gate = run[r].gate /\ run'[r].token = run[r].token
    BY <1>1, <1>3, NoneIsNothing DEF Start, TypeOK, RunStates
  <2>2. run[r].stage = "new"
    BY <1>3 DEF Start, At
  <2>3. run[r].token = None
    BY <2>2 DEF RunInv
  <2> QED
    BY <2>1, <2>3 DEF RunInv
<1>4. ASSUME NEW d \in Dispositions, Adjudicate(r, d) PROVE RunInv(r)'
  <2>1. /\ run'[r].stage = IF d = "PASS" THEN "sbom" ELSE "prepare"
        /\ run'[r].build = run[r].build
        /\ run'[r].gate = d /\ run'[r].token = run[r].token
    BY <1>1, <1>4 DEF Adjudicate, TypeOK, RunStates
  <2>2. run[r].stage = "adjudicate" /\ d \in Gates
    BY <1>4 DEF Adjudicate, At, LetsThrough
  <2>3. run[r].token = None /\ d # None
    BY <2>2, NoneIsNothing DEF RunInv
  <2>4. "PASS" \notin Findings
    BY FindingsAreNotVerdicts
  <2>5. run[r].build # None
    BY <2>2 DEF RunInv
  <2> QED
    BY <2>1, <2>2, <2>3, <2>4, <2>5 DEF RunInv, Gates
<1>5. ASSUME Prepare(r) PROVE RunInv(r)'
  <2>1. PICK t \in Cids : /\ Available(t, Build(r), run[r].gate)
                          /\ run' = [run EXCEPT ![r].stage = "post", ![r].token = t]
    BY <1>5 DEF Prepare
  <2>2. /\ run'[r].stage = "post" /\ run'[r].build = run[r].build
        /\ run'[r].gate = run[r].gate /\ run'[r].token = t /\ t # None
    BY <1>1, <2>1, NoneIsNothing DEF TypeOK, RunStates
  <2>3. /\ run[r].stage = "prepare" /\ run[r].gate \in Findings /\ run[r].gate # None
        /\ run[r].gate # "PASS" /\ run[r].build # None
    BY <1>1, <1>5 DEF Prepare, At, RunInv, RunStates, Gates
  <2>4. /\ IsKind(t, "acceptance") /\ comments[t].version = 2
        /\ comments[t].build = run[r].build /\ comments[t].findings = run[r].gate
    BY <2>1 DEF Available, Accepted, Matches, Build
  <2>5. comments[t] # None /\ comments'[t] = comments[t]
    BY <2>4, AcceptancesStay
  <2> QED
    BY <2>2, <2>3, <2>4, <2>5 DEF RunInv, IsKind
<1>6. ASSUME Post(r) \/ PostLate(r) \/ PostLost(r) PROVE RunInv(r)'
  <2>1. run[r].stage = "post" /\ Enter(r, "reconcile") /\ "reconcile" \in Stages
    BY <1>6 DEF Post, PostLate, PostLost, At, Stages
  <2> QED
    BY <2>1, EnterKeeps DEF RunInv
<1>7. ASSUME Verify(r) PROVE RunInv(r)'
  <2>1. /\ run[r].stage = "reconcile" /\ Enter(r, "sbom") /\ "sbom" \in Stages
        /\ <<run[r].token, r>> \in uses'
    BY <1>7 DEF Verify, At, Stages
  <2> QED
    BY <2>1, EnterKeeps DEF RunInv
<1>8. ASSUME StoreSbom(r) PROVE RunInv(r)'
  <2>1. run[r].stage = "sbom" /\ Enter(r, "transition") /\ "transition" \in Stages
    BY <1>8 DEF StoreSbom, CommitSbom, At, Stages
  <2>2. run[r].build \in Builds
    BY <1>1, <2>1 DEF RunInv, RunStates
  <2>3. sbom'[run[r].build] = r
    BY <1>8, <2>2 DEF StoreSbom, CommitSbom, Build, TypeOK
  <2>4. uses' = uses
    BY <1>8 DEF StoreSbom, CommitSbom
  <2> QED
    BY <2>1, <2>3, <2>4, EnterKeeps DEF RunInv
<1>9. ASSUME StoreTransition(r) PROVE RunInv(r)'
  <2>1. /\ run[r].stage = "transition" /\ Enter(r, "done") /\ "done" \in Stages
        /\ uses' = uses
    BY <1>9 DEF StoreTransition, CommitTransition, At, Stages
  <2> QED
    BY <2>1, EnterKeeps DEF RunInv
<1>10. ASSUME StoreSbomAnswerLost(r) \/ StoreTransitionAnswerLost(r) \/ Fail(r)
       PROVE  RunInv(r)'
  <2>1. run[r].stage \in Working /\ Stop(r)
    BY <1>10 DEF StoreSbomAnswerLost, StoreTransitionAnswerLost, Fail, CommitSbom,
                 CommitTransition, At, Working, Stages
  <2> QED
    BY <2>1, StopKeeps
<1>11. ASSUME RerunFailedJobs(r) PROVE RunInv(r)'
  <2>1. /\ run[r].stage = "failed" /\ Enter(r, run[r].failed) /\ uses' = uses
        /\ run[r].failed \in {"adjudicate", "prepare", "sbom"}
    BY <1>1, <1>11 DEF RerunFailedJobs, At, RunStates, Jobs
  <2>2. run[r].failed \in Stages /\ run[r].build # None
    BY <2>1 DEF Stages, RunInv
  <2> QED
    BY <2>1, <2>2, EnterKeeps DEF RunInv
<1>12. ASSUME RerunAllJobs(r) PROVE RunInv(r)'
  <2>1. /\ run'[r].stage = "adjudicate" /\ run'[r].build = run[r].build
        /\ run'[r].gate = None /\ run'[r].token = None
    BY <1>12 DEF RerunAllJobs, Restarted, NewRun, TypeOK
  <2>2. run[r].build # None
    BY <1>12 DEF RerunAllJobs, RunInv
  <2> QED
    BY <2>1, <2>2 DEF RunInv
<1> QED
  BY <1>3, <1>4, <1>5, <1>6, <1>7, <1>8, <1>9, <1>10, <1>11, <1>12 DEF Work

\* A verified use keeps its consumption comment.
LEMMA UseStep ==
  ASSUME TypeOK, UseInv, Growing, [Next]_vars
  PROVE  UseInv'
<1> SUFFICES ASSUME NEW u \in uses'
             PROVE  \E c \in ConsumptionsOf(u[1])' : comments'[c].run = u[2]
  BY DEF UseInv
<1>1. ASSUME NEW c \in Cids, c \in ConsumptionsOf(u[1])
      PROVE  c \in ConsumptionsOf(u[1])' /\ comments'[c] = comments[c]
  BY <1>1 DEF ConsumptionsOf, IsKind, Growing
<1>2. CASE u \in uses
  BY <1>1, <1>2 DEF UseInv, ConsumptionsOf
<1>3. ASSUME NEW r \in Runs, Verify(r), u = <<run[r].token, r>>
      PROVE  \E c \in ConsumptionsOf(u[1])' : comments'[c].run = u[2]
  <2>1. PICK c \in Cids : c \in ConsumptionsOf(u[1]) /\ comments[c].run = r
    BY <1>3 DEF Verify, ConsumedBy
  <2> QED
    BY <1>1, <1>3, <2>1
<1>4. u \in uses \/ \E r \in Runs : Verify(r) /\ u = <<run[r].token, r>>
  BY DEF Next, Work, MainMoves, OwnerComments, LateArrival, Start, Adjudicate, Prepare,
         Post, PostLate, PostLost, Verify, StoreSbom, StoreSbomAnswerLost, CommitSbom,
         StoreTransition, StoreTransitionAnswerLost, CommitTransition, Fail,
         RerunFailedJobs, RerunAllJobs, vars
<1> QED
  BY <1>2, <1>3, <1>4

\* The argument of the component: the run that verified a use has its comment
\* there for good, so that no other run finds its own to be the only one.
LEMMA OneRunStep ==
  ASSUME TypeOK, UseInv, OneRunPerToken, [Next]_vars
  PROVE  OneRunPerToken'
<1>1. CASE uses' = uses
  BY <1>1 DEF OneRunPerToken
<1>2. ASSUME NEW r \in Runs, Verify(r)
      PROVE  OneRunPerToken'
  <2> DEFINE t == run[r].token
  <2>1. PICK c \in Cids : ConsumptionsOf(t) = {c} /\ comments[c].run = r
    BY <1>2 DEF Verify, ConsumedBy
  <2>2. \A u \in uses : u[1] = t => u[2] = r
    BY <2>1 DEF UseInv
  <2>3. uses' = uses \cup {<<t, r>>}
    BY <1>2 DEF Verify
  <2> QED
    BY <2>2, <2>3 DEF OneRunPerToken
<1>3. uses' = uses \/ \E r \in Runs : Verify(r)
  BY DEF Next, Work, MainMoves, OwnerComments, LateArrival, Start, Adjudicate, Prepare,
         Post, PostLate, PostLost, StoreSbom, StoreSbomAnswerLost, CommitSbom,
         StoreTransition, StoreTransitionAnswerLost, CommitTransition, Fail,
         RerunFailedJobs, RerunAllJobs, vars
<1> QED
  BY <1>1, <1>2, <1>3

\* A manifest that comes to be, and the run that stores it.
LEMMA NewManifest ==
  ASSUME TypeOK, [Next]_vars, NEW b \in Builds, transitions'[b] # transitions[b]
  PROVE  \E r \in Runs : CommitTransition(r) /\ Build(r) = b
<1>1. \E r \in Runs : CommitTransition(r)
  BY DEF Next, Work, MainMoves, OwnerComments, LateArrival, Start, Adjudicate, Prepare,
         Post, PostLate, PostLost, Verify, StoreSbom, StoreSbomAnswerLost, CommitSbom,
         StoreTransition, StoreTransitionAnswerLost, Fail,
         RerunFailedJobs, RerunAllJobs, vars, objects
<1> QED
  BY <1>1 DEF CommitTransition, TypeOK

\* What the manifest of a run contains.
LEMMA ManifestOf ==
  ASSUME TypeOK, NEW r \in Runs, RunInv(r), CommitTransition(r)
  PROVE  /\ Build(r) \in Builds /\ sbom[Build(r)] = r /\ sbom' = sbom
         /\ transitions'[Build(r)] = [run |-> r, gate |-> run[r].gate,
                                     token |-> run[r].token, sbom |-> r]
         /\ comments' = comments /\ uses' = uses
         /\ run[r].gate # "PASS" =>
                /\ run[r].gate \in Findings /\ run[r].token \in Cids
                /\ <<run[r].token, r>> \in uses
                /\ IsKind(run[r].token, "acceptance")
                /\ comments[run[r].token].version = 2
                /\ comments[run[r].token].build = run[r].build
                /\ comments[run[r].token].findings = run[r].gate
<1>1. run[r].stage = "transition" /\ run[r] \in RunStates
  BY DEF CommitTransition, At, TypeOK
<1>2. run[r].build \in Builds /\ run[r].gate \in Gates
  BY <1>1 DEF RunInv, RunStates
<1>3. run[r].gate # "PASS" => run[r].gate \in Findings /\ run[r].token \in Cids
  BY <1>1, <1>2 DEF RunInv, Gates, RunStates
<1> QED
  BY <1>1, <1>2, <1>3 DEF RunInv, CommitTransition, Build, TypeOK

\* A manifest on record stays authorised.
LEMMA EvidenceStep ==
  ASSUME TypeOK, \A r \in Runs : RunInv(r), EvidenceIsAuthorised, Growing, [Next]_vars
  PROVE  EvidenceIsAuthorised'
<1> SUFFICES ASSUME NEW b \in Builds, transitions'[b] # None, transitions'[b].gate # "PASS"
             PROVE  LET t == transitions'[b].token IN
                    /\ <<t, transitions'[b].run>> \in uses'
                    /\ comments'[t] # None /\ comments'[t].kind = "acceptance"
                    /\ comments'[t].version = 2
                    /\ comments'[t].build = b
                    /\ comments'[t].findings = transitions'[b].gate
  BY DEF EvidenceIsAuthorised, IsKind
<1>1. CASE transitions'[b] = transitions[b]
  <2>1. /\ <<transitions[b].token, transitions[b].run>> \in uses
        /\ IsKind(transitions[b].token, "acceptance")
        /\ comments[transitions[b].token].version = 2
        /\ comments[transitions[b].token].build = b
        /\ comments[transitions[b].token].findings = transitions[b].gate
    BY <1>1 DEF EvidenceIsAuthorised
  <2>2. transitions[b].token \in Cids
    BY <2>1 DEF TypeOK
  <2>3. /\ comments[transitions[b].token] # None
        /\ comments'[transitions[b].token] = comments[transitions[b].token]
    BY <2>1, <2>2, AcceptancesStay
  <2> QED
    BY <1>1, <2>1, <2>3 DEF Growing, IsKind
<1>2. CASE transitions'[b] # transitions[b]
  <2>1. PICK r \in Runs : CommitTransition(r) /\ Build(r) = b
    BY <1>2, NewManifest
  <2>2. RunInv(r)
    OBVIOUS
  <2>3. /\ transitions'[b] = [run |-> r, gate |-> run[r].gate,
                              token |-> run[r].token, sbom |-> r]
        /\ comments' = comments /\ uses' = uses
        /\ run[r].gate # "PASS" =>
                /\ <<run[r].token, r>> \in uses
                /\ IsKind(run[r].token, "acceptance")
                /\ comments[run[r].token].version = 2
                /\ comments[run[r].token].build = run[r].build
                /\ comments[run[r].token].findings = run[r].gate
    BY <2>1, <2>2, ManifestOf
  <2>4. /\ transitions'[b].run = r /\ transitions'[b].gate = run[r].gate
        /\ transitions'[b].token = run[r].token
    BY <2>3
  <2> QED
    BY <2>1, <2>3, <2>4 DEF IsKind, Build
<1> QED
  BY <1>1, <1>2

\* A manifest on record stays bound to the stored SBOM.
LEMMA SbomStep ==
  ASSUME TypeOK, \A r \in Runs : RunInv(r), ManifestBindsSbom, Growing, [Next]_vars
  PROVE  ManifestBindsSbom'
<1> SUFFICES ASSUME NEW b \in Builds, transitions'[b] # None
             PROVE  sbom'[b] # None /\ transitions'[b].sbom = sbom'[b]
  BY DEF ManifestBindsSbom
<1>1. CASE transitions'[b] = transitions[b]
  BY <1>1 DEF ManifestBindsSbom, Growing
<1>2. CASE transitions'[b] # transitions[b]
  <2>1. PICK r \in Runs : CommitTransition(r) /\ Build(r) = b
    BY <1>2, NewManifest
  <2>2. RunInv(r)
    OBVIOUS
  <2>3. /\ sbom'[b] = r
        /\ transitions'[b] = [run |-> r, gate |-> run[r].gate,
                              token |-> run[r].token, sbom |-> r]
    BY <2>1, <2>2, ManifestOf
  <2> QED
    BY <2>3, NoneIsNothing
<1> QED
  BY <1>1, <1>2

\* The invariant holds initially.
LEMMA InitIInv == ASSUME Init PROVE IInv
<1>1. \A r \in Runs : RunInv(r)
  BY NoneIsNothing DEF Init, RunInv, NewRun
<1> QED
  BY <1>1, InitType DEF Init, IInv, UseInv, OneRunPerToken, EvidenceIsAuthorised,
                        ManifestBindsSbom

\* Every step preserves the invariant.
LEMMA NextIInv == ASSUME IInv, [Next]_vars PROVE IInv'
<1> USE DEF IInv
<1>1. TypeOK' /\ Growing
  BY TypeStep, StepGrows
<1>2. \A q \in Runs : RunInv(q)'
  <2> SUFFICES ASSUME NEW q \in Runs PROVE RunInv(q)'
    OBVIOUS
  <2>1. run'[q] = run[q] \/ Work(q)
    <3>1. ASSUME NEW r \in Runs, Work(r), q # r PROVE run'[q] = run[q]
      BY <3>1 DEF Work, Start, Adjudicate, Prepare, Post, PostLate, PostLost, Verify,
                  StoreSbom, StoreSbomAnswerLost, StoreTransition,
                  StoreTransitionAnswerLost, Fail, RerunFailedJobs, RerunAllJobs,
                  Enter, Stop, TypeOK
    <3> QED
      BY <3>1 DEF Next, MainMoves, OwnerComments, LateArrival, vars
  <2> QED
    BY <1>1, <2>1, RunStays, RunMoves
<1>3. UseInv' /\ OneRunPerToken'
  BY <1>1, UseStep, OneRunStep
<1>4. EvidenceIsAuthorised' /\ ManifestBindsSbom'
  BY <1>1, EvidenceStep, SbomStep
<1> QED
  BY <1>1, <1>2, <1>3, <1>4

----------------------------------------------------------------------------
\* IInv is inductive, hence an invariant.
THEOREM Invariance == Spec => []IInv
<1>1. Init => IInv
  BY InitIInv
<1>2. IInv /\ [Next]_vars => IInv'
  BY NextIInv
<1> QED
  BY <1>1, <1>2, PTL DEF Spec

\* Every variable keeps its type.
THEOREM TypeCorrect == Spec => []TypeOK
<1>1. IInv => TypeOK
  BY DEF IInv
<1> QED
  BY <1>1, Invariance, PTL

\* No acceptance is good for two runs, whatever is posted late, lost or twice,
\* and whether or not the concurrency group serialises them.
THEOREM AcceptanceIsOneUse == Spec => []OneRunPerToken
<1>1. IInv => OneRunPerToken
  BY DEF IInv
<1> QED
  BY <1>1, Invariance, PTL

\* Evidence for HIGH findings exists only by a consumed acceptance of exactly
\* this build and these findings.
THEOREM EvidenceAuthorised == Spec => []EvidenceIsAuthorised
<1>1. IInv => EvidenceIsAuthorised
  BY DEF IInv
<1> QED
  BY <1>1, Invariance, PTL

\* A manifest names the SBOM that is stored.
THEOREM ManifestsBindSboms == Spec => []ManifestBindsSbom
<1>1. IInv => ManifestBindsSbom
  BY DEF IInv
<1> QED
  BY <1>1, Invariance, PTL

\* A spent acceptance is available to no run.
THEOREM SpentStaysUnavailable == Spec => []SpentIsUnavailable
<1>1. IInv => SpentIsUnavailable
  BY DEF IInv, UseInv, SpentIsUnavailable, Available
<1> QED
  BY <1>1, Invariance, PTL

----------------------------------------------------------------------------
\* The refinement: verify-consumed spends, storing the manifest uses.

SpentBy ==
    [t \in Cids |-> IF \E r \in Runs : <<t, r>> \in uses
                   THEN CHOOSE r \in Runs : <<t, r>> \in uses
                   ELSE None]

Used ==
    {t \in Cids : \E b \in Builds :
        transitions[b] # None /\ transitions[b].gate # "PASS" /\ transitions[b].token = t}

\* Who has spent a token is determined by the verified uses.
LEMMA SpentIs ==
  ASSUME OneRunPerToken, NEW t \in Cids, NEW r \in Runs, <<t, r>> \in uses
  PROVE  SpentBy[t] = r
<1>1. \E q \in Runs : <<t, q>> \in uses
  OBVIOUS
<1>2. \A q \in Runs : <<t, q>> \in uses => q = r
  BY DEF OneRunPerToken
<1>3. (CHOOSE q \in Runs : <<t, q>> \in uses) = r
  BY <1>1, <1>2
<1> QED
  BY <1>1, <1>3 DEF SpentBy

\* Passing verify-consumed spends the token, or repeats what is known.
LEMMA SpendImplemented ==
  ASSUME IInv, IInv', NEW r \in Runs, Verify(r)
  PROVE  Token!Next \/ UNCHANGED Token!vars
<1>1. PICK t \in Cids : t = run[r].token
  BY AtConsumption DEF IInv, Verify, At
<1>2. uses' = uses \cup {<<t, r>>} /\ Used' = Used
  BY <1>1 DEF Verify, Used, objects
<1>3. CASE <<t, r>> \in uses
  <2>1. uses' = uses
    BY <1>2, <1>3
  <2> QED
    BY <1>2, <2>1 DEF Token!vars, SpentBy, Used
<1>4. CASE <<t, r>> \notin uses
  <2>1. \A q \in Runs : <<t, q>> \notin uses
    BY <1>2, <1>4 DEF IInv, OneRunPerToken
  <2>2. SpentBy[t] = None
    BY <1>1, <2>1 DEF SpentBy
  <2>3. SpentBy'[t] = r
    <3>1. OneRunPerToken' /\ <<t, r>> \in uses'
      BY <1>2 DEF IInv
    <3>2. \A q \in Runs : <<t, q>> \in uses' => q = r
      BY <3>1 DEF OneRunPerToken
    <3>3. (CHOOSE q \in Runs : <<t, q>> \in uses') = r
      BY <3>1, <3>2
    <3> QED
      BY <1>1, <3>1, <3>3 DEF SpentBy
  <2>4. \A u \in Cids : u # t => SpentBy'[u] = SpentBy[u]
    <3> SUFFICES ASSUME NEW u \in Cids, u # t PROVE SpentBy'[u] = SpentBy[u]
      OBVIOUS
    <3>1. \A q \in Runs : <<u, q>> \in uses' <=> <<u, q>> \in uses
      BY <1>2
    <3>2. (\E q \in Runs : <<u, q>> \in uses') <=> (\E q \in Runs : <<u, q>> \in uses)
      BY <3>1
    <3>3. (CHOOSE q \in Runs : <<u, q>> \in uses') = (CHOOSE q \in Runs : <<u, q>> \in uses)
      BY <3>1
    <3> QED
      BY <3>2, <3>3 DEF SpentBy
  <2>5. SpentBy' = [SpentBy EXCEPT ![t] = r]
    BY <1>1, <2>3, <2>4 DEF SpentBy
  <2>6. Token!Spend(t, r)
    BY <1>2, <2>2, <2>5 DEF Token!Spend, SpentBy, Used
  <2> QED
    BY <1>1, <2>6 DEF Token!Next
<1> QED
  BY <1>3, <1>4

\* What a run stores is a manifest.
LEMMA ManifestIs ==
  ASSUME TypeOK, NEW r \in Runs, RunInv(r), CommitTransition(r)
  PROVE  [run |-> r, gate |-> run[r].gate, token |-> run[r].token, sbom |-> r] # None
<1>1. run[r] \in RunStates /\ run[r].gate # None
  BY DEF CommitTransition, At, TypeOK, RunInv
<1>2. [run |-> r, gate |-> run[r].gate, token |-> run[r].token, sbom |-> r] \in Manifests
  BY <1>1 DEF Manifests, RunStates
<1> QED
  BY <1>2, NoneIsNothing

\* Storing the manifest of reviewed findings uses the token of its run.
LEMMA UseImplemented ==
  ASSUME IInv, NEW r \in Runs, CommitTransition(r)
  PROVE  Token!Next \/ UNCHANGED Token!vars
<1> DEFINE t == run[r].token
           b == Build(r)
<1>1. /\ b \in Builds /\ uses' = uses /\ transitions[b] = None
      /\ transitions'[b] = [run |-> r, gate |-> run[r].gate, token |-> t, sbom |-> r]
      /\ \A c \in Builds : c # b => transitions'[c] = transitions[c]
      /\ run[r].gate # "PASS" =>
            /\ t \in Cids /\ <<t, r>> \in uses
            /\ comments[t].build = b
  BY ManifestOf DEF IInv, CommitTransition, Creatable, TypeOK, Build
<1>2. SpentBy' = SpentBy
  BY <1>1 DEF SpentBy
<1>3. transitions'[b].gate = run[r].gate /\ transitions'[b].token = t /\ transitions'[b] # None
  <2>1. [run |-> r, gate |-> run[r].gate, token |-> t, sbom |-> r] # None
    BY ManifestIs DEF IInv
  <2> QED
    BY <1>1, <2>1
<1>4. CASE run[r].gate = "PASS"
  <2>1. Used' = Used
    BY <1>1, <1>3, <1>4 DEF Used
  <2> QED
    BY <1>2, <2>1 DEF Token!vars, SpentBy, Used
<1>5. CASE run[r].gate # "PASS"
  <2>1. Used' = Used \cup {t}
    BY <1>1, <1>3, <1>5 DEF Used
  <2>2. t \notin Used
    <3>1. \A c \in Builds :
            transitions[c] # None /\ transitions[c].gate # "PASS" /\ transitions[c].token = t
                => c = b
      BY <1>1, <1>5 DEF IInv, EvidenceIsAuthorised
    <3> QED
      BY <1>1, <3>1 DEF Used
  <2>3. SpentBy[t] = r /\ r # None
    BY <1>1, <1>5, SpentIs, NoneIsNothing DEF IInv
  <2>4. PICK token \in Cids : token = t
    BY <1>1, <1>5
  <2>5. Token!Use(token)
    BY <1>2, <2>1, <2>2, <2>3, <2>4 DEF Token!Use, SpentBy, Used
  <2> QED
    BY <2>4, <2>5 DEF Token!Next
<1> QED
  BY <1>4, <1>5

\* Every step is a step of the one-use token or none.
LEMMA StepImplemented ==
  ASSUME IInv, IInv', [Next]_vars
  PROVE  Token!Next \/ UNCHANGED Token!vars
<1>1. ASSUME NEW r \in Runs, Verify(r) PROVE Token!Next \/ UNCHANGED Token!vars
  BY <1>1, SpendImplemented
<1>2. ASSUME NEW r \in Runs, CommitTransition(r)
      PROVE  Token!Next \/ UNCHANGED Token!vars
  BY <1>2, UseImplemented
<1>3. ASSUME uses' = uses, transitions' = transitions
      PROVE  UNCHANGED Token!vars
  BY <1>3 DEF Token!vars
<1>4. \/ \E r \in Runs : Verify(r) \/ CommitTransition(r)
      \/ uses' = uses /\ transitions' = transitions
  BY DEF Next, Work, MainMoves, OwnerComments, LateArrival, Start, Adjudicate, Prepare,
         Post, PostLate, PostLost, StoreSbom, StoreSbomAnswerLost, CommitSbom,
         StoreTransition, StoreTransitionAnswerLost, Fail,
         RerunFailedJobs, RerunAllJobs, vars, objects
<1> QED
  BY <1>1, <1>2, <1>3, <1>4

\* Runs, re-runs and comments that arrive when they like implement a token
\* that is spent by one run and used once.
THEOREM ImplementsToken == Spec => ImplementsOneUse
<1>1. Init => Token!Init
  <2> SUFFICES ASSUME Init PROVE Token!Init
    OBVIOUS
  <2>1. uses = {} /\ \A b \in Builds : transitions[b] = None
    BY DEF Init
  <2> QED
    BY <2>1 DEF Token!Init
<1>2. IInv /\ IInv' /\ [Next]_vars => [Token!Next]_(Token!vars)
  BY StepImplemented
<1> QED
  BY <1>1, <1>2, Invariance, PTL DEF Spec, ImplementsOneUse, Token!Spec

============================================================================
