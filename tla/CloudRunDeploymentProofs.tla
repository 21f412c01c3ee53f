---------------------- MODULE CloudRunDeploymentProofs ----------------------
(***************************************************************************)
(* Proofs about CloudRunDeployment, for any number of releases, runs and   *)
(* comments, and with no use of the workflows' concurrency groups.         *)
(***************************************************************************)
EXTENDS CloudRunDeployment, TLAPS

\* A run that enters a stage is a run still, and keeps what it was handed.
LEMMA EnterType ==
  ASSUME TypeOK, NEW r \in Runs, NEW stage \in Stages, Enter(r, stage)
  PROVE  /\ run' \in [Runs -> RunStates]
         /\ run'[r] = [run[r] EXCEPT !.stage = stage]
         /\ \A q \in Runs : q # r => run'[q] = run[q]
<1>1. run[r] \in RunStates
  BY DEF TypeOK
<1>2. [run[r] EXCEPT !.stage = stage] \in RunStates
  BY <1>1 DEF RunStates
<1>3. run' = [run EXCEPT ![r] = [run[r] EXCEPT !.stage = stage]]
  BY DEF Enter
<1> QED
  BY <1>2, <1>3 DEF TypeOK

\* A run that is given another state.
LEMMA MoveType ==
  ASSUME TypeOK, NEW r \in Runs, NEW s \in RunStates, run' = [run EXCEPT ![r] = s]
  PROVE  /\ run' \in [Runs -> RunStates]
         /\ run'[r] = s
         /\ \A q \in Runs : q # r => run'[q] = run[q]
<1> QED
  BY DEF TypeOK

\* A comment that is added is one that was not there.
LEMMA AddType ==
  ASSUME TypeOK, NEW c \in Comments, Add(c)
  PROVE  /\ comments' \in [Cids -> Comments \cup {None}]
         /\ \A id \in Cids : comments[id] # None => comments'[id] = comments[id]
<1>1. PICK id \in Cids : /\ comments[id] = None
                         /\ comments' = [comments EXCEPT ![id] = c]
  BY DEF Add
<1> QED
  BY <1>1 DEF TypeOK

\* The consumption a run posts is one.
LEMMA BodyType ==
  ASSUME TypeOK, NEW r \in Runs, run[r].authority # None, run[r].release # None
  PROVE  ConsumptionBody(r) \in Consumptions
<1>1. run[r] \in RunStates
  BY DEF TypeOK
<1> QED
  BY <1>1 DEF RunStates, ConsumptionBody, Consumptions

\* A stored consumption that is the run's own is a comment.
LEMMA BodyConsumed ==
  ASSUME TypeOK, NEW r \in Runs, RunInv(r), run[r].consumption # None
  PROVE  ConsumptionBody(r) \in Consumptions /\ ConsumptionBody(r) \in Comments
<1>1. run[r].stage # "new"
  BY DEF RunInv, NewRun
<1>2. run[r].authority # None /\ run[r].release # None
  BY <1>1 DEF RunInv
<1> QED
  BY <1>2, BodyType DEF Comments

\* The current revision is a number.
LEMMA RevisionType == ASSUME TypeOK PROVE CurrentRevision \in Nat
<1> QED
  BY DEF TypeOK, CurrentRevision, Services

\* The states the actions of a run give it.
LEMMA StateTypes ==
  ASSUME TypeOK, NEW r \in Runs
  PROVE  /\ \A a \in Cids, l \in Releases :
              [run[r] EXCEPT !.stage = "prepare", !.authority = a, !.release = l] \in RunStates
         /\ \A c \in Cids : [run[r] EXCEPT !.stage = "preflight", !.consumption = c] \in RunStates
         /\ \A n \in Nat : [run[r] EXCEPT !.stage = "check", !.seen = n] \in RunStates
         /\ \A b \in BOOLEAN, d \in Dispositions :
              [run[r] EXCEPT !.stage = "poll", !.named = b, !.disposition = d] \in RunStates
         /\ \A s \in Stages :
              [run[r] EXCEPT !.stage = s, !.named = FALSE, !.disposition = None] \in RunStates
         /\ \A n \in Nat :
              [run[r] EXCEPT !.stage = "verify", !.disposition = "SUCCEEDED", !.revision = n]
                  \in RunStates
         /\ [run[r] EXCEPT !.stage = "verify", !.disposition = "FAILED_KNOWN"] \in RunStates
<1>1. run[r] \in RunStates
  BY DEF TypeOK
<1>2. {"prepare", "preflight", "check", "poll", "verify"} \subseteq Stages
  BY DEF Stages
<1>3. {"SUCCEEDED", "FAILED_KNOWN"} \subseteq Dispositions
  BY DEF Dispositions
<1>4. \A a \in Cids, l \in Releases :
        [run[r] EXCEPT !.stage = "prepare", !.authority = a, !.release = l] \in RunStates
  BY <1>1, <1>2 DEF RunStates
<1>5. \A c \in Cids : [run[r] EXCEPT !.stage = "preflight", !.consumption = c] \in RunStates
  BY <1>1, <1>2 DEF RunStates
<1>6. \A n \in Nat : [run[r] EXCEPT !.stage = "check", !.seen = n] \in RunStates
  BY <1>1, <1>2 DEF RunStates
<1>7. \A b \in BOOLEAN, d \in Dispositions :
        [run[r] EXCEPT !.stage = "poll", !.named = b, !.disposition = d] \in RunStates
  BY <1>1, <1>2 DEF RunStates
<1>8. \A s \in Stages :
        [run[r] EXCEPT !.stage = s, !.named = FALSE, !.disposition = None] \in RunStates
  BY <1>1 DEF RunStates
<1>9. \A n \in Nat :
        [run[r] EXCEPT !.stage = "verify", !.disposition = "SUCCEEDED", !.revision = n]
            \in RunStates
  BY <1>1, <1>2, <1>3 DEF RunStates
<1>10. [run[r] EXCEPT !.stage = "verify", !.disposition = "FAILED_KNOWN"] \in RunStates
  BY <1>1, <1>2, <1>3 DEF RunStates
<1> QED
  BY <1>4, <1>5, <1>6, <1>7, <1>8, <1>9, <1>10

\* A request that takes effect leaves a service and an operation.
LEMMA ApplyType ==
  ASSUME TypeOK, NEW r \in Runs, Apply(r), run[r].release # None
  PROVE  /\ service' \in Services
         /\ operation' \in [Runs -> Operations \cup {None}]
         /\ operation'[r] = [revision |-> CurrentRevision + 1, over |-> CurrentRevision,
                             state |-> "pending"]
         /\ \A q \in Runs : q # r => operation'[q] = operation[q]
<1>1. CurrentRevision \in Nat /\ CurrentRevision + 1 \in Nat
  BY RevisionType
<1>2. Envelop(r).image \in Images
  <2>1. run[r].release \in Releases
    BY DEF TypeOK, RunStates
  <2> QED
    BY <2>1, ConstantsOK DEF Envelop, Envelopes
<1>3. [revision |-> CurrentRevision + 1, over |-> CurrentRevision, state |-> "pending"]
          \in Operations
  BY <1>1 DEF Operations
<1>4. service' \in Services
  BY <1>1, <1>2 DEF Apply, Services
<1> QED
  BY <1>3, <1>4 DEF Apply, TypeOK

----------------------------------------------------------------------------
\* Type correctness.

\* The initial state is well typed.
LEMMA InitType == ASSUME Init PROVE TypeOK
<1>1. NewRun \in RunStates
  BY DEF NewRun, RunStates, Stages
<1> QED
  BY <1>1, ConstantsOK DEF Init, TypeOK

\* The control job keeps every variable in its type.
LEMMA ControlType ==
  ASSUME TypeOK, NEW r \in Runs, RunInv(r), Control(r)
  PROVE  TypeOK'
<1>1. ASSUME NEW a \in Cids, Start(r, a) PROVE TypeOK'
  <2>1. comments[a].release \in Releases
    BY <1>1 DEF Start, IsKind, TypeOK, Comments, Authorities, Consumptions, Malformed
  <2>2. [run[r] EXCEPT !.stage = "prepare", !.authority = a, !.release = comments[a].release]
            \in RunStates
    BY <2>1, StateTypes
  <2>3. run' = [run EXCEPT ![r] = [run[r] EXCEPT !.stage = "prepare", !.authority = a,
                                                 !.release = comments[a].release]]
    BY <1>1 DEF Start
  <2>4. run' \in [Runs -> RunStates]
    BY <2>2, <2>3, MoveType
  <2> QED
    BY <1>1, <2>4 DEF Start, TypeOK, provider
<1>2. ASSUME Prepare(r) PROVE TypeOK'
  <2>1. run' \in [Runs -> RunStates]
    BY <1>2, EnterType DEF Prepare, Stages
  <2> QED
    BY <1>2, <2>1 DEF Prepare, TypeOK, provider
<1>3. ASSUME Post(r) \/ PostLate(r) \/ PostLost(r) PROVE TypeOK'
  <2>1. run[r].authority # None /\ run[r].release # None
    BY <1>3 DEF RunInv, Post, PostLate, PostLost, At
  <2>2. ConsumptionBody(r) \in Consumptions /\ ConsumptionBody(r) \in Comments
    BY <2>1, BodyType DEF Comments
  <2>3. run' \in [Runs -> RunStates]
    BY <1>3, EnterType DEF Post, PostLate, PostLost, Stages
  <2>4. Add(ConsumptionBody(r)) \/ comments' = comments
    BY <1>3 DEF Post, PostLate, PostLost
  <2>5. comments' \in [Cids -> Comments \cup {None}]
    BY <2>2, <2>4, AddType DEF TypeOK
  <2>6. late' \subseteq Consumptions
    BY <1>3, <2>2 DEF Post, PostLate, PostLost, TypeOK
  <2> QED
    BY <1>3, <2>3, <2>5, <2>6 DEF Post, PostLate, PostLost, TypeOK, provider
<1>4. ASSUME VerifyConsumption(r) PROVE TypeOK'
  <2>1. PICK c \in Cids : run' = [run EXCEPT ![r].stage = "preflight", ![r].consumption = c]
    BY <1>4 DEF VerifyConsumption
  <2>2. run' = [run EXCEPT ![r] = [run[r] EXCEPT !.stage = "preflight", !.consumption = c]]
    BY <2>1
  <2>3. run' \in [Runs -> RunStates]
    BY <2>2, StateTypes, MoveType
  <2> QED
    BY <1>4, <2>3 DEF VerifyConsumption, TypeOK, provider
<1> QED
  BY <1>1, <1>2, <1>3, <1>4 DEF Control

\* What the deployer's job leaves behind when it fails is a run.
LEMMA GoneType ==
  ASSUME TypeOK, NEW r \in Runs, DeployerGone(r)
  PROVE  /\ run' \in [Runs -> RunStates]
         /\ run'[r] = [run[r] EXCEPT !.stage = IF IsCreate(r) THEN "verify" ELSE "failed",
                                     !.named = FALSE, !.disposition = None]
         /\ \A q \in Runs : q # r => run'[q] = run[q]
<1> DEFINE next == IF IsCreate(r) THEN "verify" ELSE "failed"
<1>1. next \in Stages
  BY DEF Stages
<1>2. run' = [run EXCEPT ![r] = [run[r] EXCEPT !.stage = next, !.named = FALSE,
                                              !.disposition = None]]
  BY DEF DeployerGone
<1>3. [run[r] EXCEPT !.stage = next, !.named = FALSE, !.disposition = None] \in RunStates
  BY <1>1, StateTypes
<1> QED
  BY <1>2, <1>3, MoveType

\* An answer makes of a run a run that polls.
LEMMA AnsweredType ==
  ASSUME TypeOK, NEW r \in Runs, NEW b \in BOOLEAN, NEW d \in Dispositions, Answered(r, b, d)
  PROVE  /\ run' \in [Runs -> RunStates]
         /\ run'[r] = [run[r] EXCEPT !.stage = "poll", !.named = b, !.disposition = d]
         /\ \A q \in Runs : q # r => run'[q] = run[q]
<1>1. run' = [run EXCEPT ![r] = [run[r] EXCEPT !.stage = "poll", !.named = b, !.disposition = d]]
  BY DEF Answered
<1> QED
  BY <1>1, StateTypes, MoveType

\* Requests are counted.
LEMMA CountType ==
  ASSUME TypeOK, NEW r \in Runs, CountRequest(r)
  PROVE  /\ sent' \in [Runs -> Nat]
         /\ sent'[r] = sent[r] + 1
         /\ \A q \in Runs : q # r => sent'[q] = sent[q]
<1> QED
  BY DEF TypeOK, CountRequest

\* The deployer's job keeps every variable in its type.
LEMMA DeployType ==
  ASSUME TypeOK, NEW r \in Runs, RunInv(r), RequestInv(r), Deploy(r)
  PROVE  TypeOK'
<1>1. ASSUME Preflight(r) PROVE TypeOK'
  <2>1. CASE IsCreate(r)
    <3>1. run' \in [Runs -> RunStates]
      BY <1>1, <2>1, EnterType DEF Preflight, Stages
    <3> QED
      BY <1>1, <3>1 DEF Preflight, TypeOK, provider
  <2>2. CASE ~IsCreate(r)
    <3>1. service.revision \in Nat
      BY <1>1, <2>2 DEF Preflight, AtPrevious, TypeOK, Services
    <3>2. run' = [run EXCEPT ![r] = [run[r] EXCEPT !.stage = "check", !.seen = service.revision]]
      BY <1>1, <2>2 DEF Preflight
    <3>3. run' \in [Runs -> RunStates]
      BY <3>1, <3>2, StateTypes, MoveType
    <3> QED
      BY <1>1, <3>3 DEF Preflight, TypeOK, provider
  <2> QED
    BY <2>1, <2>2
<1>2. ASSUME Check(r) PROVE TypeOK'
  <2>1. run' \in [Runs -> RunStates]
    BY <1>2, EnterType DEF Check, Stages
  <2> QED
    BY <1>2, <2>1 DEF Check, TypeOK, provider
<1>3. ASSUME SendAccepted(r) PROVE TypeOK'
  <2>1. run' \in [Runs -> RunStates]
    BY <1>3, AnsweredType DEF SendAccepted, Dispositions
  <2>2. sent' \in [Runs -> Nat]
    BY <1>3, CountType DEF SendAccepted
  <2>3. run[r].release # None
    BY <1>3 DEF SendAccepted, At, RunInv
  <2>4. service' \in Services /\ operation' \in [Runs -> Operations \cup {None}]
    BY <1>3, <2>3, ApplyType DEF SendAccepted
  <2> QED
    BY <1>3, <2>1, <2>2, <2>4 DEF SendAccepted, TypeOK
<1>4. ASSUME SendRefused(r) PROVE TypeOK'
  <2>1. NonSuccess(r) \in Dispositions
    BY DEF NonSuccess, Dispositions
  <2>2. run' \in [Runs -> RunStates]
    BY <1>4, <2>1, AnsweredType DEF SendRefused
  <2>3. sent' \in [Runs -> Nat]
    BY <1>4, CountType DEF SendRefused
  <2> QED
    BY <1>4, <2>2, <2>3 DEF SendRefused, TypeOK
<1>5. ASSUME NEW d \in Dispositions, SendUnresolved(r, d) PROVE TypeOK'
  <2>1. run' \in [Runs -> RunStates]
    BY <1>5, AnsweredType DEF SendUnresolved
  <2>2. sent' \in [Runs -> Nat]
    BY <1>5, CountType DEF SendUnresolved
  <2> QED
    BY <1>5, <2>1, <2>2 DEF SendUnresolved, TypeOK
<1>6. ASSUME DeployerFails(r) PROVE TypeOK'
  BY <1>6, GoneType DEF DeployerFails, TypeOK, provider
<1>7. ASSUME DeployerLost(r) PROVE TypeOK'
  BY <1>7, GoneType, CountType DEF DeployerLost, TypeOK
<1>8. ASSUME PollSucceeded(r) PROVE TypeOK'
  <2>1. operation[r] # None
    BY <1>8 DEF PollSucceeded, RequestInv
  <2>2. operation[r].revision \in Nat
    BY <2>1 DEF TypeOK, Operations
  <2>3. run' = [run EXCEPT ![r] = [run[r] EXCEPT !.stage = "verify",
                    !.disposition = "SUCCEEDED", !.revision = operation[r].revision]]
    BY <1>8 DEF PollSucceeded, ExpectedRevision
  <2>4. run' \in [Runs -> RunStates]
    BY <2>2, <2>3, StateTypes, MoveType
  <2> QED
    BY <1>8, <2>4 DEF PollSucceeded, TypeOK, provider
<1>9. ASSUME PollFailed(r) PROVE TypeOK'
  <2>1. run' = [run EXCEPT ![r] = [run[r] EXCEPT !.stage = "verify",
                                                 !.disposition = "FAILED_KNOWN"]]
    BY <1>9 DEF PollFailed
  <2>2. run' \in [Runs -> RunStates]
    BY <2>1, StateTypes, MoveType
  <2> QED
    BY <1>9, <2>2 DEF PollFailed, TypeOK, provider
<1>10. ASSUME PollGivesUp(r) PROVE TypeOK'
  <2>1. run' \in [Runs -> RunStates]
    BY <1>10, EnterType DEF PollGivesUp, Stages
  <2> QED
    BY <1>10, <2>1 DEF PollGivesUp, TypeOK, provider
<1> QED
  BY <1>1, <1>2, <1>3, <1>4, <1>5, <1>6, <1>7, <1>8, <1>9, <1>10 DEF Deploy

\* The verifier's job keeps every variable in its type.
LEMMA VerifyType ==
  ASSUME TypeOK, NEW r \in Runs, VerifyJob(r)
  PROVE  TypeOK'
<1>1. PICK stage \in Stages : Enter(r, stage)
  BY DEF VerifyJob, VerifyAbsent, VerifyAmbiguous, VerifyService, Health, Fail,
         RerunFailedJobs, RerunStage, Stages
<1>2. run' \in [Runs -> RunStates]
  BY <1>1, EnterType
<1>3. summary' \in [Runs -> SUBSET Outcomes]
  BY DEF VerifyJob, VerifyAbsent, VerifyAmbiguous, VerifyService, Health, Fail,
         RerunFailedJobs, Conclude, Outcomes, TypeOK
<1>4. UNCHANGED <<comments, late, provider>>
  BY DEF VerifyJob, VerifyAbsent, VerifyAmbiguous, VerifyService, Health, Fail,
         RerunFailedJobs
<1> QED
  BY <1>2, <1>3, <1>4 DEF TypeOK, provider

\* The owner, late comments and the provider keep every variable in its type.
LEMMA WorldType ==
  ASSUME TypeOK, \A r \in Runs : RunInv(r) /\ RequestInv(r), World
  PROVE  TypeOK'
<1>1. ASSUME NEW c \in OwnerWrites, OwnerComments(c) PROVE TypeOK'
  BY <1>1, AddType, ConstantsOK DEF OwnerComments, TypeOK, provider
<1>2. ASSUME NEW c \in late, LateArrival(c) PROVE TypeOK'
  BY <1>2, AddType DEF LateArrival, TypeOK, provider, Comments
<1>3. ASSUME NEW image \in Images, OwnerDeploys(image) PROVE TypeOK'
  <2>1. service' \in Services
    BY <1>3, RevisionType DEF OwnerDeploys, Services
  <2> QED
    BY <1>3, <2>1 DEF OwnerDeploys, TypeOK
<1>4. ASSUME NEW r \in Runs, RequestTakesEffect(r) PROVE TypeOK'
  <2>1. run[r].release # None
    BY <1>4 DEF RequestTakesEffect, RequestInv, RunInv, NewRun
  <2>2. service' \in Services /\ operation' \in [Runs -> Operations \cup {None}]
    BY <1>4, <2>1, ApplyType DEF RequestTakesEffect
  <2> QED
    BY <1>4, <2>2 DEF RequestTakesEffect, TypeOK
<1>5. ASSUME NEW r \in Runs, NEW state \in {"ready", "failed"}, OperationEnds(r, state)
      PROVE  TypeOK'
  <2>1. operation[r] \in Operations
    BY <1>5 DEF OperationEnds, TypeOK
  <2>2. [operation[r] EXCEPT !.state = state] \in Operations
    BY <2>1 DEF Operations
  <2>3. operation' \in [Runs -> Operations \cup {None}]
    BY <1>5, <2>2 DEF OperationEnds, TypeOK
  <2>4. service \in Services
    BY <1>5 DEF OperationEnds, RequestInv, TypeOK
  <2>5. [service EXCEPT !.status = state] \in Services
    BY <2>4 DEF Services
  <2>6. service' \in Services
    BY <1>5, <2>4, <2>5 DEF OperationEnds
  <2> QED
    BY <1>5, <2>3, <2>6 DEF OperationEnds, TypeOK
<1> QED
  BY <1>1, <1>2, <1>3, <1>4, <1>5 DEF World

----------------------------------------------------------------------------
\* Comments and the service only come to be; an operation ends once.

Growing ==
    /\ \A c \in Cids : comments[c] # None => comments'[c] = comments[c]
    /\ service # None => service' # None
    /\ \A q \in Runs : operation[q] # None =>
           /\ operation'[q] # None
           /\ operation'[q].revision = operation[q].revision
           /\ operation'[q].over = operation[q].over
           /\ operation[q].state # "pending" => operation'[q].state = operation[q].state

\* A request takes effect at most once.
LEMMA ApplyGrows ==
  ASSUME TypeOK, NEW r \in Runs, Apply(r), run[r].release # None, operation[r] = None,
         UNCHANGED comments
  PROVE  Growing
<1> QED
  BY ApplyType, NoneIsNothing DEF Growing

\* No step edits a comment, removes the service or reopens an operation.
LEMMA StepGrows ==
  ASSUME TypeOK, \A r \in Runs : RunInv(r) /\ RequestInv(r), Next
  PROVE  Growing
<1>1. ASSUME NEW c \in OwnerWrites, OwnerComments(c) PROVE Growing
  BY <1>1, AddType, ConstantsOK DEF OwnerComments, Growing, provider
<1>2. ASSUME NEW c \in late, LateArrival(c) PROVE Growing
  BY <1>2, AddType DEF LateArrival, Growing, provider, TypeOK, Comments
<1>3. ASSUME NEW image \in Images, OwnerDeploys(image) PROVE Growing
  <2>1. service' \in Services
    BY <1>3, RevisionType DEF OwnerDeploys, Services
  <2> QED
    BY <1>3, <2>1, NoneIsNothing DEF OwnerDeploys, Growing
<1>4. ASSUME NEW r \in Runs, RequestTakesEffect(r) PROVE Growing
  <2>1. run[r].release # None /\ operation[r] = None
    BY <1>4 DEF RequestTakesEffect, RequestInv, RunInv, NewRun
  <2> QED
    BY <1>4, <2>1, ApplyGrows DEF RequestTakesEffect
<1>5. ASSUME NEW r \in Runs, NEW state \in {"ready", "failed"}, OperationEnds(r, state)
      PROVE  Growing
  <2>1. operation[r] \in Operations /\ service \in Services
    BY <1>5 DEF OperationEnds, RequestInv, TypeOK
  <2>2. /\ [operation[r] EXCEPT !.state = state] \in Operations
        /\ [service EXCEPT !.status = state] \in Services
    BY <2>1 DEF Operations, Services
  <2>3. operation'[r] = [operation[r] EXCEPT !.state = state]
    BY <1>5 DEF OperationEnds, TypeOK
  <2>4. \A q \in Runs : q # r => operation'[q] = operation[q]
    BY <1>5 DEF OperationEnds, TypeOK
  <2>5. operation'[r] # None /\ service' # None
    BY <1>5, <2>1, <2>2, <2>3, NoneIsNothing DEF OperationEnds
  <2>6. /\ operation'[r].revision = operation[r].revision
        /\ operation'[r].over = operation[r].over
    BY <2>1, <2>3 DEF Operations
  <2>7. operation[r].state = "pending" /\ comments' = comments
    BY <1>5 DEF OperationEnds
  <2> QED
    BY <2>4, <2>5, <2>6, <2>7 DEF Growing
<1>6. ASSUME NEW r \in Runs, Control(r) PROVE Growing
  <2>1. UNCHANGED provider
    BY <1>6 DEF Control, Start, Prepare, Post, PostLate, PostLost, VerifyConsumption
  <2>2. \A c \in Cids : comments[c] # None => comments'[c] = comments[c]
    <3>1. CASE UNCHANGED comments
      BY <3>1
    <3>2. CASE Post(r)
      <4>1. run[r].authority # None /\ run[r].release # None
        BY <3>2 DEF RunInv, Post, At
      <4>2. ConsumptionBody(r) \in Comments
        BY <4>1, BodyType DEF Comments
      <4> QED
        BY <3>2, <4>2, AddType DEF Post
    <3> QED
      BY <1>6, <3>1, <3>2 DEF Control, Start, Prepare, PostLate, PostLost, VerifyConsumption
  <2> QED
    BY <2>1, <2>2 DEF Growing, provider
<1>7. ASSUME NEW r \in Runs, SendAccepted(r) PROVE Growing
  <2>1. run[r].release # None /\ operation[r] = None
    BY <1>7 DEF SendAccepted, At, RunInv, RequestInv, Unsent
  <2> QED
    BY <1>7, <2>1, ApplyGrows DEF SendAccepted
<1>8. ASSUME NEW r \in Runs, Deploy(r), ~SendAccepted(r) PROVE Growing
  BY <1>8 DEF Deploy, Preflight, Check, SendRefused, SendUnresolved, DeployerFails, DeployerLost,
              PollSucceeded, PollFailed, PollGivesUp, Growing, provider
<1>9. ASSUME NEW r \in Runs, VerifyJob(r) PROVE Growing
  BY <1>9 DEF VerifyJob, VerifyAbsent, VerifyAmbiguous, VerifyService, Health, Fail,
              RerunFailedJobs, Growing, provider
<1> QED
  BY <1>1, <1>2, <1>3, <1>4, <1>5, <1>6, <1>7, <1>8, <1>9 DEF Next, World

----------------------------------------------------------------------------
\* The invariant of a run.

\* A run that does not move keeps what it relies on, whether or not its
\* request takes effect or its operation ends meanwhile.
LEMMA RunStays ==
  ASSUME TypeOK, Growing, NEW q \in Runs, RunInv(q), RequestInv(q),
         run'[q] = run[q], sent'[q] = sent[q], summary'[q] = summary[q],
         q \in flying' => q \in flying,
         operation[q] = None =>
             operation'[q] = None \/ (q \in flying /\ q \notin flying' /\ service' # None)
  PROVE  RunInv(q)' /\ RequestInv(q)'
<1>1. run[q].consumption # None =>
          /\ comments[run[q].consumption] = ConsumptionBody(q)
          /\ comments'[run[q].consumption] = ConsumptionBody(q)
  <2>1. run[q].consumption \in Cids \cup {None}
    BY DEF TypeOK, RunStates
  <2>2. ASSUME run[q].consumption # None
        PROVE  comments[run[q].consumption] = ConsumptionBody(q)
    BY <2>2 DEF RunInv
  <2>3. ASSUME run[q].consumption # None PROVE ConsumptionBody(q) \in Comments
    BY <2>3, BodyConsumed
  <2> QED
    BY <2>1, <2>2, <2>3, NoneIsNothing DEF Growing
<1>2. ConsumptionBody(q)' = ConsumptionBody(q) /\ Envelop(q)' = Envelop(q)
      /\ IsCreate(q)' = IsCreate(q)
  BY DEF ConsumptionBody, Envelop, IsCreate
<1>3. RunInv(q)'
  BY <1>1, <1>2 DEF RunInv
<1>4. RequestInv(q)'
  BY <1>2 DEF RequestInv, Growing
<1> QED
  BY <1>3, <1>4

\* A run that moves on with its request as it was.
LEMMA RequestStays ==
  ASSUME NEW r \in Runs, RequestInv(r), UNCHANGED provider,
         run'[r].named \in {run[r].named, FALSE},
         \/ run'[r].disposition = None
         \/ /\ run'[r].disposition = run[r].disposition
            /\ run'[r].revision = run[r].revision
            /\ run'[r].release = run[r].release,
         run'[r].consumption = run[r].consumption \/ sent[r] = 0,
         sent[r] \in Nat
  PROVE  RequestInv(r)'
<1>1. sent'[r] = sent[r] /\ operation'[r] = operation[r] /\ flying' = flying /\ service' = service
  BY DEF provider
<1>2. run'[r].disposition # None =>
          run'[r].disposition = run[r].disposition /\ IsCreate(r)' = IsCreate(r)
  BY DEF IsCreate, Envelop
<1>3. (sent[r] > 0 => run[r].consumption # None)' 
  BY <1>1 DEF RequestInv
<1>4. (run[r].named => operation[r] # None)'
  BY <1>1 DEF RequestInv
<1>5. run'[r].disposition # "SUCCEEDED" \/ (/\ run'[r].revision = run[r].revision
                                           /\ run[r].disposition = "SUCCEEDED")
  BY NoneIsNothing DEF Dispositions
<1>6. run'[r].disposition # "FAILED_KNOWN" \/ (/\ IsCreate(r)' = IsCreate(r)
                                              /\ run[r].disposition = "FAILED_KNOWN")
  BY <1>2, NoneIsNothing DEF Dispositions
<1> QED
  BY <1>1, <1>3, <1>4, <1>5, <1>6 DEF RequestInv

\* The control job.
LEMMA ControlRun ==
  ASSUME TypeOK, NEW r \in Runs, RunInv(r), RequestInv(r), Control(r)
  PROVE  RunInv(r)' /\ RequestInv(r)'
<1>1. run[r] \in RunStates /\ sent[r] \in Nat
  BY DEF TypeOK
<1>2. UNCHANGED provider /\ summary' = summary
  BY DEF Control, Start, Prepare, Post, PostLate, PostLost, VerifyConsumption
<1>3. run[r].stage \in {"new", "prepare", "post", "reconcile"}
  BY DEF Control, Start, Prepare, Post, PostLate, PostLost, VerifyConsumption, At
<1>4. /\ sent[r] = 0 /\ run[r].disposition = None /\ run[r].consumption = None
      /\ "VERIFIED" \notin summary[r]
  BY <1>3 DEF RunInv, Unsent, NewRun
<1>5. sent'[r] = 0 /\ "VERIFIED" \notin summary'[r]
  BY <1>2, <1>4 DEF provider
<1>6. ASSUME NEW a \in Cids, Start(r, a) PROVE RunInv(r)' /\ RequestInv(r)'
  <2>1. run[r] = NewRun
    BY <1>6 DEF Start, At, RunInv
  <2>2. comments[a].release \in Releases
    BY <1>6 DEF Start, IsKind, TypeOK, Comments, Authorities, Consumptions, Malformed
  <2>3. run' = [run EXCEPT ![r] = [run[r] EXCEPT !.stage = "prepare", !.authority = a,
                                                 !.release = comments[a].release]]
    BY <1>6 DEF Start
  <2>4. run'[r] = [run[r] EXCEPT !.stage = "prepare", !.authority = a,
                                 !.release = comments[a].release]
    BY <2>2, <2>3, StateTypes, MoveType
  <2>5. /\ run'[r].stage = "prepare" /\ run'[r].authority = a
        /\ run'[r].release = comments[a].release /\ run'[r].consumption = None
        /\ run'[r].seen = None /\ run'[r].named = FALSE /\ run'[r].disposition = None
    BY <2>1, <2>4 DEF NewRun
  <2>6. RunInv(r)'
    BY <1>5, <2>2, <2>5, NoneIsNothing DEF RunInv, Unsent
  <2>7. RequestInv(r)'
    BY <1>1, <1>2, <1>4, <2>5, RequestStays
  <2> QED
    BY <2>6, <2>7
<1>7. ASSUME NEW stage \in {"post", "reconcile"}, Enter(r, stage), run[r].stage # "new"
      PROVE  RunInv(r)' /\ RequestInv(r)'
  <2>1. run'[r] = [run[r] EXCEPT !.stage = stage]
    BY <1>7, EnterType DEF Stages
  <2>2. /\ run'[r].stage = stage /\ run'[r].authority = run[r].authority
        /\ run'[r].release = run[r].release /\ run'[r].consumption = None
        /\ run'[r].seen = run[r].seen /\ run'[r].named = run[r].named
        /\ run'[r].disposition = None /\ run'[r].revision = run[r].revision
    BY <1>1, <1>4, <2>1 DEF RunStates
  <2>3. Envelop(r)' = Envelop(r)
    BY <2>2 DEF Envelop
  <2>4. RunInv(r)'
    BY <1>5, <1>7, <2>2, <2>3 DEF RunInv, Unsent
  <2>5. RequestInv(r)'
    BY <1>1, <1>2, <1>4, <2>2, RequestStays
  <2> QED
    BY <2>4, <2>5
<1>8. ASSUME VerifyConsumption(r) PROVE RunInv(r)' /\ RequestInv(r)'
  <2>1. PICK c \in Cids : /\ ConsumedBy(run[r].authority, c, run[r].release, r)
                          /\ run' = [run EXCEPT ![r].stage = "preflight", ![r].consumption = c]
    BY <1>8 DEF VerifyConsumption
  <2>2. run' = [run EXCEPT ![r] = [run[r] EXCEPT !.stage = "preflight", !.consumption = c]]
    BY <2>1
  <2>3. run'[r] = [run[r] EXCEPT !.stage = "preflight", !.consumption = c]
    BY <2>2, StateTypes, MoveType
  <2>4. /\ run'[r].stage = "preflight" /\ run'[r].authority = run[r].authority
        /\ run'[r].release = run[r].release /\ run'[r].consumption = c
        /\ run'[r].seen = run[r].seen /\ run'[r].named = run[r].named
        /\ run'[r].disposition = None /\ run'[r].revision = run[r].revision
    BY <1>1, <1>4, <2>3 DEF RunStates
  <2>5. run[r].authority # None /\ run[r].release # None
    BY <1>8 DEF VerifyConsumption, At, RunInv
  <2>6. /\ c \in ConsumptionsOf(run[r].authority)
        /\ comments[c].release = run[r].release /\ comments[c].run = r
    BY <2>1 DEF ConsumedBy, UniqueConsumption
  <2>7. comments[c] # None /\ comments[c].kind = "consumption"
        /\ comments[c].authority = run[r].authority
    BY <2>6 DEF ConsumptionsOf, IsKind
  <2>8. comments[c] \in Consumptions
    BY <2>7 DEF TypeOK, Comments, Authorities, Malformed
  <2>9. comments[c] = ConsumptionBody(r)
    BY <2>6, <2>7, <2>8 DEF Consumptions, ConsumptionBody
  <2>10. ConsumptionBody(r)' = ConsumptionBody(r) /\ comments' = comments
    BY <1>8, <2>4 DEF ConsumptionBody, VerifyConsumption
  <2>11. Envelop(r)' = Envelop(r)
    BY <2>4 DEF Envelop
  <2>12. c # None
    BY NoneIsNothing
  <2>13. RunInv(r)'
    BY <1>5, <2>4, <2>5, <2>9, <2>10, <2>11, <2>12 DEF RunInv, Unsent
  <2>14. RequestInv(r)'
    BY <1>1, <1>2, <1>4, <2>4, RequestStays
  <2> QED
    BY <2>13, <2>14
<1>9. ASSUME Prepare(r) \/ Post(r) \/ PostLate(r) \/ PostLost(r)
      PROVE  RunInv(r)' /\ RequestInv(r)'
  BY <1>7, <1>9 DEF Prepare, Post, PostLate, PostLost, At
<1> QED
  BY <1>6, <1>8, <1>9 DEF Control

\* A run whose stage alone moves on, past the consumption or to failure.
LEMMA EnterRun ==
  ASSUME TypeOK, NEW r \in Runs, RunInv(r), RequestInv(r), NEW stage \in Stages,
         Enter(r, stage), run[r].stage # "new", UNCHANGED <<comments, provider>>,
         run[r].consumption # None \/ stage = "failed",
         stage \notin {"new", "prepare", "post", "reconcile"},
         stage \in {"check", "send"} => IsCreate(r) \/ run[r].seen # None,
         stage \in Unsent => sent[r] = 0 /\ run[r].disposition = None,
         stage \in {"health", "done"} => run[r].disposition = "SUCCEEDED",
         "VERIFIED" \in summary'[r] => stage = "done"
  PROVE  RunInv(r)' /\ RequestInv(r)'
<1>1. run[r] \in RunStates /\ sent[r] \in Nat
  BY DEF TypeOK
<1>2. run'[r] = [run[r] EXCEPT !.stage = stage]
  BY EnterType
<1>3. /\ run'[r].stage = stage /\ run'[r].authority = run[r].authority
      /\ run'[r].release = run[r].release /\ run'[r].consumption = run[r].consumption
      /\ run'[r].seen = run[r].seen /\ run'[r].named = run[r].named
      /\ run'[r].disposition = run[r].disposition /\ run'[r].revision = run[r].revision
  BY <1>1, <1>2 DEF RunStates
<1>4. /\ Envelop(r)' = Envelop(r) /\ IsCreate(r)' = IsCreate(r)
      /\ ConsumptionBody(r)' = ConsumptionBody(r)
  BY <1>3 DEF Envelop, IsCreate, ConsumptionBody
<1>5. sent'[r] = sent[r] /\ comments' = comments
  BY DEF provider
<1>7. run[r].authority # None /\ run[r].release # None
  BY DEF RunInv
<1>8. sent[r] > 0 => IsCreate(r) \/ run[r].seen # None
  BY DEF RunInv
<1>9. /\ run[r].consumption # None => comments[run[r].consumption] = ConsumptionBody(r)
      /\ run[r].seen # None => run[r].seen = Envelop(r).previous
  BY <1>7 DEF RunInv
<1>10. RunInv(r)'
  BY <1>3, <1>4, <1>5, <1>7, <1>8, <1>9 DEF RunInv
<1>11. RequestInv(r)'
  BY <1>1, <1>3, RequestStays
<1> QED
  BY <1>10, <1>11

\* A run that sends its request: nothing was sent before, and what it finds
\* out by the answer is given.
LEMMA SendRun ==
  ASSUME TypeOK, NEW r \in Runs, RunInv(r), RequestInv(r), At(r, "send"),
         CountRequest(r), UNCHANGED <<comments, summary>>,
         run'[r] \in RunStates,
         run'[r].stage \in {"poll", "verify", "failed"},
         run'[r].authority = run[r].authority, run'[r].release = run[r].release,
         run'[r].consumption = run[r].consumption, run'[r].seen = run[r].seen,
         run'[r].disposition # "SUCCEEDED",
         run'[r].disposition = "FAILED_KNOWN" => IsCreate(r),
         run'[r].named => operation'[r] # None,
         r \in flying' => operation'[r] = None,
         operation'[r] # None => service' # None
  PROVE  RunInv(r)' /\ RequestInv(r)'
<1>1. sent[r] = 0 /\ sent'[r] = 1
  BY CountType DEF At, RunInv, Unsent
<1>2. "VERIFIED" \notin summary'[r]
  BY DEF At, RunInv
<1>3. /\ Envelop(r)' = Envelop(r) /\ IsCreate(r)' = IsCreate(r)
      /\ ConsumptionBody(r)' = ConsumptionBody(r) /\ comments' = comments
  BY DEF Envelop, IsCreate, ConsumptionBody
<1>4. /\ run[r].authority # None /\ run[r].release # None /\ run[r].consumption # None
      /\ comments[run[r].consumption] = ConsumptionBody(r)
      /\ IsCreate(r) \/ run[r].seen # None
      /\ run[r].seen # None => run[r].seen = Envelop(r).previous
  BY DEF At, RunInv
<1>5. RunInv(r)'
  BY <1>1, <1>2, <1>3, <1>4 DEF RunInv, Unsent
<1>6. RequestInv(r)'
  BY <1>1, <1>3, <1>4 DEF RequestInv
<1> QED
  BY <1>5, <1>6

\* The deployer's job.
LEMMA DeployRun ==
  ASSUME TypeOK, NEW r \in Runs, RunInv(r), RequestInv(r), Deploy(r)
  PROVE  RunInv(r)' /\ RequestInv(r)'
<1>1. run[r] \in RunStates /\ sent[r] \in Nat
  BY DEF TypeOK
<1>2. run[r].stage \in {"preflight", "check", "send", "poll"}
  BY DEF Deploy, Preflight, Check, SendAccepted, SendRefused, SendUnresolved, DeployerFails,
         DeployerLost, PollSucceeded, PollFailed, PollGivesUp, At
<1>3. /\ run[r].consumption # None /\ run[r].authority # None /\ run[r].release # None
      /\ comments[run[r].consumption] = ConsumptionBody(r)
      /\ run[r].seen # None => run[r].seen = Envelop(r).previous
      /\ "VERIFIED" \notin summary[r] /\ run[r].stage # "new"
  BY <1>2 DEF RunInv
<1>4. summary' = summary /\ comments' = comments
  BY DEF Deploy, Preflight, Check, SendAccepted, SendRefused, SendUnresolved, DeployerFails,
         DeployerLost, PollSucceeded, PollFailed, PollGivesUp
<1>5. ASSUME Preflight(r) PROVE RunInv(r)' /\ RequestInv(r)'
  <2>1. sent[r] = 0 /\ run[r].disposition = None
    BY <1>5 DEF Preflight, At, RunInv, Unsent
  <2>2. CASE IsCreate(r)
    <3>1. Enter(r, "check")
      BY <1>5, <2>2 DEF Preflight
    <3> QED
      BY <1>3, <1>4, <1>5, <2>1, <2>2, <3>1, EnterRun DEF Preflight, Stages
  <2>3. CASE ~IsCreate(r)
    <3>1. service.revision \in Nat /\ service.revision = Envelop(r).previous
      BY <1>5, <2>3 DEF Preflight, AtPrevious, TypeOK, Services
    <3>2. run' = [run EXCEPT ![r] = [run[r] EXCEPT !.stage = "check", !.seen = service.revision]]
      BY <1>5, <2>3 DEF Preflight
    <3>3. run'[r] = [run[r] EXCEPT !.stage = "check", !.seen = service.revision]
      BY <3>1, <3>2, StateTypes, MoveType
    <3>4. /\ run'[r].stage = "check" /\ run'[r].authority = run[r].authority
          /\ run'[r].release = run[r].release /\ run'[r].consumption = run[r].consumption
          /\ run'[r].seen = service.revision /\ run'[r].named = run[r].named
          /\ run'[r].disposition = None /\ run'[r].revision = run[r].revision
      BY <1>1, <2>1, <3>3 DEF RunStates
    <3>5. Envelop(r)' = Envelop(r) /\ ConsumptionBody(r)' = ConsumptionBody(r)
      BY <3>4 DEF Envelop, ConsumptionBody
    <3>6. UNCHANGED provider
      BY <1>5 DEF Preflight
    <3>7. sent'[r] = 0 /\ run'[r].seen # None
      BY <2>1, <3>1, <3>4, <3>6, NoneIsNothing DEF provider
    <3>8. RunInv(r)'
      BY <1>3, <1>4, <3>1, <3>4, <3>5, <3>7 DEF RunInv, Unsent
    <3>9. RequestInv(r)'
      BY <1>1, <3>4, <3>6, RequestStays
    <3> QED
      BY <3>8, <3>9
  <2> QED
    BY <2>2, <2>3
<1>6. ASSUME Check(r) PROVE RunInv(r)' /\ RequestInv(r)'
  <2>1. /\ sent[r] = 0 /\ run[r].disposition = None
        /\ IsCreate(r) \/ run[r].seen # None
    BY <1>6 DEF Check, At, RunInv, Unsent
  <2> QED
    BY <1>3, <1>4, <1>6, <2>1, EnterRun DEF Check, Stages
<1>7. ASSUME SendAccepted(r) PROVE RunInv(r)' /\ RequestInv(r)'
  <2>1. /\ run'[r] = [run[r] EXCEPT !.stage = "poll", !.named = TRUE,
                                    !.disposition = "OUTCOME_UNKNOWN"]
        /\ run' \in [Runs -> RunStates]
    BY <1>7, AnsweredType DEF SendAccepted, Dispositions
  <2>2. run'[r] \in RunStates
    BY <2>1
  <2>3. /\ run'[r].stage = "poll" /\ run'[r].authority = run[r].authority
        /\ run'[r].release = run[r].release /\ run'[r].consumption = run[r].consumption
        /\ run'[r].seen = run[r].seen /\ run'[r].disposition = "OUTCOME_UNKNOWN"
    BY <1>1, <2>1 DEF RunStates
  <2>4. operation'[r] # None /\ service' # None
    <3>1. /\ service' \in Services
          /\ operation'[r] = [revision |-> CurrentRevision + 1, over |-> CurrentRevision,
                              state |-> "pending"]
      BY <1>3, <1>7, ApplyType DEF SendAccepted
    <3>2. operation'[r] \in Operations
      BY <3>1, RevisionType DEF Operations
    <3> QED
      BY <3>1, <3>2, NoneIsNothing
  <2>5. r \notin flying'
    BY <1>7 DEF SendAccepted, At, RequestInv, RunInv, Unsent
  <2> QED
    BY <1>4, <1>7, <2>2, <2>3, <2>4, <2>5, SendRun DEF SendAccepted
<1>8. ASSUME NEW d \in Dispositions, Answered(r, FALSE, d), CountRequest(r), At(r, "send"),
             d \in {NonSuccess(r), "OUTCOME_UNKNOWN"}, UNCHANGED <<service, operation>>
      PROVE  RunInv(r)' /\ RequestInv(r)'
  <2>1. /\ run'[r] = [run[r] EXCEPT !.stage = "poll", !.named = FALSE, !.disposition = d]
        /\ run' \in [Runs -> RunStates]
    BY <1>8, AnsweredType
  <2>2. run'[r] \in RunStates
    BY <2>1
  <2>3. /\ run'[r].stage = "poll" /\ run'[r].authority = run[r].authority
        /\ run'[r].release = run[r].release /\ run'[r].consumption = run[r].consumption
        /\ run'[r].seen = run[r].seen /\ run'[r].disposition = d /\ run'[r].named = FALSE
    BY <1>1, <2>1 DEF RunStates
  <2>4. operation'[r] = None
    BY <1>8 DEF At, RunInv, RequestInv, Unsent
  <2>5. d # "SUCCEEDED" /\ (d = "FAILED_KNOWN" => IsCreate(r))
    BY <1>8 DEF NonSuccess
  <2> QED
    BY <1>4, <1>8, <2>2, <2>3, <2>4, <2>5, SendRun
<1>9. ASSUME SendRefused(r) PROVE RunInv(r)' /\ RequestInv(r)'
  <2>1. NonSuccess(r) \in Dispositions
    BY DEF NonSuccess, Dispositions
  <2> QED
    BY <1>8, <1>9, <2>1 DEF SendRefused
<1>10. ASSUME NEW d \in Dispositions, SendUnresolved(r, d) PROVE RunInv(r)' /\ RequestInv(r)'
  BY <1>8, <1>10 DEF SendUnresolved
<1>11. ASSUME DeployerGone(r)
       PROVE  /\ run'[r] \in RunStates /\ run'[r].stage \in {"verify", "failed"}
              /\ run'[r].authority = run[r].authority
              /\ run'[r].release = run[r].release /\ run'[r].consumption = run[r].consumption
              /\ run'[r].seen = run[r].seen /\ run'[r].disposition = None
              /\ run'[r].named = FALSE /\ run'[r].revision = run[r].revision
  <2> DEFINE next == IF IsCreate(r) THEN "verify" ELSE "failed"
  <2>1. /\ run' \in [Runs -> RunStates]
        /\ run'[r] = [run[r] EXCEPT !.stage = next, !.named = FALSE, !.disposition = None]
    BY <1>11, GoneType
  <2>2. run'[r] \in RunStates
    BY <2>1
  <2> QED
    BY <1>1, <2>1, <2>2 DEF RunStates
<1>12. ASSUME DeployerFails(r) PROVE RunInv(r)' /\ RequestInv(r)'
  <2>1. DeployerGone(r) /\ UNCHANGED provider
    BY <1>12 DEF DeployerFails
  <2>2. Envelop(r)' = Envelop(r) /\ ConsumptionBody(r)' = ConsumptionBody(r)
        /\ IsCreate(r)' = IsCreate(r)
    BY <1>11, <2>1 DEF Envelop, IsCreate, ConsumptionBody
  <2>3. sent'[r] = sent[r] /\ (sent[r] > 0 => IsCreate(r) \/ run[r].seen # None)
    BY <2>1 DEF RunInv, provider
  <2>4. RunInv(r)'
    BY <1>3, <1>4, <1>11, <2>1, <2>2, <2>3 DEF RunInv, Unsent
  <2>5. RequestInv(r)'
    BY <1>1, <1>11, <2>1, RequestStays
  <2> QED
    BY <2>4, <2>5
<1>13. ASSUME DeployerLost(r) PROVE RunInv(r)' /\ RequestInv(r)'
  <2>1. operation'[r] = None
    BY <1>13 DEF DeployerLost, At, RunInv, RequestInv, Unsent
  <2>2. run'[r].disposition = None /\ run'[r].stage \in {"poll", "verify", "failed"}
    BY <1>11, <1>13 DEF DeployerLost
  <2>3. run'[r].disposition \notin {"SUCCEEDED", "FAILED_KNOWN"}
    BY <2>2, NoneIsNothing DEF Dispositions
  <2> QED
    BY <1>4, <1>11, <1>13, <2>1, <2>2, <2>3, SendRun DEF DeployerLost
<1>14. ASSUME PollSucceeded(r) PROVE RunInv(r)' /\ RequestInv(r)'
  <2>1. operation[r] # None /\ operation[r].state = "ready"
    BY <1>14 DEF PollSucceeded, RequestInv
  <2>2. operation[r].revision \in Nat
    BY <2>1 DEF TypeOK, Operations
  <2>3. run' = [run EXCEPT ![r] = [run[r] EXCEPT !.stage = "verify",
                    !.disposition = "SUCCEEDED", !.revision = operation[r].revision]]
    BY <1>14 DEF PollSucceeded, ExpectedRevision
  <2>4. run'[r] = [run[r] EXCEPT !.stage = "verify", !.disposition = "SUCCEEDED",
                                 !.revision = operation[r].revision]
    BY <2>2, <2>3, StateTypes, MoveType
  <2>5. /\ run'[r].stage = "verify" /\ run'[r].authority = run[r].authority
        /\ run'[r].release = run[r].release /\ run'[r].consumption = run[r].consumption
        /\ run'[r].seen = run[r].seen /\ run'[r].named = run[r].named
        /\ run'[r].disposition = "SUCCEEDED" /\ run'[r].revision = operation[r].revision
    BY <1>1, <2>4 DEF RunStates
  <2>6. UNCHANGED provider
    BY <1>14 DEF PollSucceeded
  <2>7. Envelop(r)' = Envelop(r) /\ ConsumptionBody(r)' = ConsumptionBody(r)
        /\ IsCreate(r)' = IsCreate(r)
    BY <2>5 DEF Envelop, IsCreate, ConsumptionBody
  <2>8. /\ sent'[r] = sent[r] /\ operation'[r] = operation[r] /\ flying' = flying
        /\ service' = service
        /\ sent[r] > 0 => IsCreate(r) \/ run[r].seen # None
    BY <2>6 DEF RunInv, provider
  <2>9. RunInv(r)'
    BY <1>3, <1>4, <2>5, <2>7, <2>8 DEF RunInv, Unsent
  <2>10. RequestInv(r)'
    BY <2>1, <2>5, <2>8 DEF RequestInv
  <2> QED
    BY <2>9, <2>10
<1>15. ASSUME PollFailed(r) PROVE RunInv(r)' /\ RequestInv(r)'
  <2>1. operation[r] # None /\ operation[r].state = "failed"
    BY <1>15 DEF PollFailed, RequestInv
  <2>2. run' = [run EXCEPT ![r] = [run[r] EXCEPT !.stage = "verify",
                                                 !.disposition = "FAILED_KNOWN"]]
    BY <1>15 DEF PollFailed
  <2>3. run'[r] = [run[r] EXCEPT !.stage = "verify", !.disposition = "FAILED_KNOWN"]
    BY <2>2, StateTypes, MoveType
  <2>4. /\ run'[r].stage = "verify" /\ run'[r].authority = run[r].authority
        /\ run'[r].release = run[r].release /\ run'[r].consumption = run[r].consumption
        /\ run'[r].seen = run[r].seen /\ run'[r].named = run[r].named
        /\ run'[r].disposition = "FAILED_KNOWN"
    BY <1>1, <2>3 DEF RunStates
  <2>5. UNCHANGED provider
    BY <1>15 DEF PollFailed
  <2>6. Envelop(r)' = Envelop(r) /\ ConsumptionBody(r)' = ConsumptionBody(r)
        /\ IsCreate(r)' = IsCreate(r)
    BY <2>4 DEF Envelop, IsCreate, ConsumptionBody
  <2>7. /\ sent'[r] = sent[r] /\ operation'[r] = operation[r] /\ flying' = flying
        /\ service' = service
        /\ sent[r] > 0 => IsCreate(r) \/ run[r].seen # None
    BY <2>5 DEF RunInv, provider
  <2>8. RunInv(r)'
    BY <1>3, <1>4, <2>4, <2>6, <2>7 DEF RunInv, Unsent
  <2>9. RequestInv(r)'
    BY <2>1, <2>4, <2>7 DEF RequestInv
  <2> QED
    BY <2>8, <2>9
<1>16. ASSUME PollGivesUp(r) PROVE RunInv(r)' /\ RequestInv(r)'
  BY <1>3, <1>4, <1>16, EnterRun DEF PollGivesUp, Stages, Unsent
<1> QED
  BY <1>5, <1>6, <1>7, <1>9, <1>10, <1>12, <1>13, <1>14, <1>15, <1>16 DEF Deploy

\* The verifier's job.
LEMMA VerifyRun ==
  ASSUME TypeOK, NEW r \in Runs, RunInv(r), RequestInv(r), VerifyJob(r)
  PROVE  RunInv(r)' /\ RequestInv(r)'
<1>1. run[r].stage # "new" /\ UNCHANGED <<comments, provider>>
  BY DEF VerifyJob, VerifyAbsent, VerifyAmbiguous, VerifyService, Health, Fail,
         RerunFailedJobs, At
<1>2. ASSUME VerifyAbsent(r) \/ VerifyAmbiguous(r) PROVE RunInv(r)' /\ RequestInv(r)'
  <2>1. /\ Enter(r, "verify_failed") /\ "VERIFIED" \notin summary[r]
        /\ run[r].consumption # None
    BY <1>2 DEF VerifyAbsent, VerifyAmbiguous, At, RunInv
  <2>2. "VERIFIED" \notin summary'[r]
    BY <1>2, <2>1 DEF VerifyAbsent, VerifyAmbiguous, Conclude, TypeOK
  <2> QED
    BY <1>1, <2>1, <2>2, EnterRun DEF Stages, Unsent
<1>3. ASSUME VerifyService(r) PROVE RunInv(r)' /\ RequestInv(r)'
  <2>1. /\ Enter(r, "health") /\ "VERIFIED" \notin summary'[r]
        /\ run[r].disposition = "SUCCEEDED" /\ run[r].consumption # None
    BY <1>3 DEF VerifyService, At, RunInv
  <2> QED
    BY <1>1, <2>1, EnterRun DEF Stages, Unsent
<1>4. ASSUME Health(r) PROVE RunInv(r)' /\ RequestInv(r)'
  <2>1. /\ Enter(r, "done") /\ run[r].disposition = "SUCCEEDED"
        /\ run[r].consumption # None
    BY <1>4 DEF Health, At, RunInv
  <2> QED
    BY <1>1, <2>1, EnterRun DEF Stages, Unsent
<1>5. ASSUME Fail(r) \/ RerunFailedJobs(r) PROVE RunInv(r)' /\ RequestInv(r)'
  <2>1. PICK stage \in {"failed", "verify_failed", "verify"} :
            Enter(r, stage) /\ (run[r].consumption # None \/ stage = "failed")
    BY <1>5 DEF Fail, RerunFailedJobs, RerunStage, At, RunInv
  <2>2. "VERIFIED" \notin summary'[r]
    BY <1>5 DEF Fail, RerunFailedJobs, At, RunInv
  <2> QED
    BY <1>1, <2>1, <2>2, EnterRun DEF Stages, Unsent
<1> QED
  BY <1>2, <1>3, <1>4, <1>5 DEF VerifyJob

----------------------------------------------------------------------------
\* The invariant of the system.

\* A step of one run leaves what the other runs know as it is.
LEMMA OthersStay ==
  ASSUME TypeOK, NEW r \in Runs, Control(r) \/ Deploy(r) \/ VerifyJob(r),
         NEW q \in Runs, q # r
  PROVE  /\ run'[q] = run[q] /\ sent'[q] = sent[q] /\ summary'[q] = summary[q]
         /\ operation'[q] = operation[q] /\ (q \in flying' => q \in flying)
<1>1. run'[q] = run[q]
  BY DEF TypeOK, Control, Start, Prepare, Post, PostLate, PostLost, VerifyConsumption, Deploy,
         Preflight, Check, SendAccepted, SendRefused, SendUnresolved, DeployerFails, DeployerLost,
         PollSucceeded, PollFailed, PollGivesUp, VerifyJob, VerifyAbsent, VerifyAmbiguous,
         VerifyService, Health, Fail, RerunFailedJobs, Enter, Answered, DeployerGone
<1>2. CASE Control(r)
  BY <1>1, <1>2 DEF Control, Start, Prepare, Post, PostLate, PostLost, VerifyConsumption, provider
<1>3. CASE Deploy(r)
  BY <1>1, <1>3 DEF TypeOK, Deploy, Preflight, Check, SendAccepted, SendRefused, SendUnresolved,
         DeployerFails, DeployerLost, PollSucceeded, PollFailed, PollGivesUp, provider, Apply,
         CountRequest
<1>4. CASE VerifyJob(r)
  BY <1>1, <1>4 DEF TypeOK, VerifyJob, VerifyAbsent, VerifyAmbiguous, VerifyService, Health, Fail,
         RerunFailedJobs, Conclude, provider
<1> QED
  BY <1>2, <1>3, <1>4

\* The world does not touch the runs.  Where it gives a run an operation, the
\* run's request was on its way.
LEMMA WorldStays ==
  ASSUME TypeOK, \A r \in Runs : RunInv(r) /\ RequestInv(r), World, NEW q \in Runs
  PROVE  /\ UNCHANGED <<run, sent, summary>>
         /\ q \in flying' => q \in flying
         /\ operation[q] = None =>
                operation'[q] = None \/ (q \in flying /\ q \notin flying' /\ service' # None)
<1>1. ASSUME NEW r \in Runs, RequestTakesEffect(r)
      PROVE  operation[q] = None =>
                 operation'[q] = None \/ (q \in flying /\ q \notin flying' /\ service' # None)
  <2>1. run[r].release # None
    BY <1>1 DEF RequestTakesEffect, RequestInv, RunInv, NewRun
  <2>2. service' \in Services /\ (q # r => operation'[q] = operation[q])
    BY <1>1, <2>1, ApplyType DEF RequestTakesEffect
  <2> QED
    BY <1>1, <2>2, NoneIsNothing DEF RequestTakesEffect
<1>2. ASSUME NEW r \in Runs, NEW state \in {"ready", "failed"}, OperationEnds(r, state)
      PROVE  operation[q] = None => operation'[q] = None
  BY <1>2 DEF OperationEnds, TypeOK
<1> QED
  BY <1>1, <1>2 DEF World, OwnerComments, LateArrival, OwnerDeploys, RequestTakesEffect,
         OperationEnds, provider

\* What runs rely on, and what becomes of their requests, after any step.
LEMMA StepRuns ==
  ASSUME TypeOK, \A r \in Runs : RunInv(r) /\ RequestInv(r), Next, NEW q \in Runs
  PROVE  RunInv(q)' /\ RequestInv(q)'
<1>1. Growing
  BY StepGrows
<1>2. CASE World
  BY <1>1, <1>2, WorldStays, RunStays
<1>3. ASSUME NEW r \in Runs, Control(r) \/ Deploy(r) \/ VerifyJob(r), r # q
      PROVE  RunInv(q)' /\ RequestInv(q)'
  BY <1>1, <1>3, OthersStay, RunStays
<1>4. CASE Control(q)
  BY <1>4, ControlRun
<1>5. CASE Deploy(q)
  BY <1>5, DeployRun
<1>6. CASE VerifyJob(q)
  BY <1>6, VerifyRun
<1> QED
  BY <1>2, <1>3, <1>4, <1>5, <1>6 DEF Next

\* Every step keeps every variable in its type.
LEMMA StepType ==
  ASSUME TypeOK, \A r \in Runs : RunInv(r) /\ RequestInv(r), Next
  PROVE  TypeOK'
<1> QED
  BY ControlType, DeployType, VerifyType, WorldType DEF Next

\* What a run was started for stays.
LEMMA HandedStays ==
  ASSUME TypeOK, \A r \in Runs : RunInv(r) /\ RequestInv(r), Next,
         NEW q \in Runs, run[q].stage # "new"
  PROVE  run'[q].authority = run[q].authority /\ run'[q].release = run[q].release
<1>1. CASE World
  BY <1>1, WorldStays
<1>2. ASSUME NEW r \in Runs, Control(r) \/ Deploy(r) \/ VerifyJob(r), r # q
      PROVE  run'[q] = run[q]
  BY <1>2, OthersStay
<1>3. ASSUME Control(q) \/ Deploy(q) \/ VerifyJob(q), \A a \in Cids : ~Start(q, a)
      PROVE  run'[q].authority = run[q].authority /\ run'[q].release = run[q].release
  BY <1>3 DEF TypeOK, RunStates, Control, Prepare, Post, PostLate, PostLost,
       VerifyConsumption, Deploy, Preflight, Check, SendAccepted, SendRefused, SendUnresolved,
       DeployerFails, DeployerLost, PollSucceeded, PollFailed, PollGivesUp, VerifyJob,
       VerifyAbsent, VerifyAmbiguous, VerifyService, Health, Fail, RerunFailedJobs, Enter,
       Answered, DeployerGone
<1> QED
  BY <1>1, <1>2, <1>3 DEF Next, Start, At

\* A run gets a consumption by VerifyConsumption alone.
LEMMA ConsumptionStays ==
  ASSUME TypeOK, \A r \in Runs : RunInv(r) /\ RequestInv(r), Next,
         NEW q \in Runs, ~VerifyConsumption(q)
  PROVE  /\ run'[q].consumption = run[q].consumption
         /\ run[q].consumption # None => run'[q].authority = run[q].authority
<1>1. CASE World
  BY <1>1, WorldStays
<1>2. ASSUME NEW r \in Runs, Control(r) \/ Deploy(r) \/ VerifyJob(r), r # q
      PROVE  run'[q] = run[q]
  BY <1>2, OthersStay
<1>3. ASSUME Control(q) \/ Deploy(q) \/ VerifyJob(q)
      PROVE  run'[q].consumption = run[q].consumption
  <2>1. run[q] \in RunStates
    BY DEF TypeOK
  <2>2. CASE Control(q)
    <3>1. ASSUME NEW a \in Cids, Start(q, a) PROVE run'[q].consumption = run[q].consumption
      BY <2>1, <3>1 DEF TypeOK, RunStates, Start
    <3>2. ASSUME Prepare(q) \/ Post(q) \/ PostLate(q) \/ PostLost(q)
          PROVE  run'[q].consumption = run[q].consumption
      BY <2>1, <3>2 DEF TypeOK, RunStates, Prepare, Post, PostLate, PostLost, Enter
    <3> QED
      BY <2>2, <3>1, <3>2 DEF Control
  <2>3. CASE Deploy(q)
    BY <2>1, <2>3 DEF TypeOK, RunStates, Deploy, Preflight, Check, SendAccepted, SendRefused,
         SendUnresolved, DeployerFails, DeployerLost, PollSucceeded, PollFailed, PollGivesUp,
         Enter, Answered, DeployerGone
  <2>4. CASE VerifyJob(q)
    BY <2>1, <2>4 DEF TypeOK, RunStates, VerifyJob, VerifyAbsent, VerifyAmbiguous,
         VerifyService, Health, Fail, RerunFailedJobs, Enter
  <2> QED
    BY <1>3, <2>2, <2>3, <2>4
<1>4. run[q].consumption # None => run[q].stage # "new"
  BY DEF RunInv, NewRun
<1> QED
  BY <1>1, <1>2, <1>3, <1>4, HandedStays DEF Next

\* A run gets an operation by its own request alone.
LEMMA OperationAppears ==
  ASSUME IInv, Next, NEW q \in Runs, operation[q] = None, operation'[q] # None
  PROVE  RequestTakesEffect(q) \/ SendAccepted(q)
<1>1. TypeOK
  BY DEF IInv
<1>2. ASSUME World, ~RequestTakesEffect(q) PROVE FALSE
  <2>1. ASSUME NEW r \in Runs, RequestTakesEffect(r), r # q PROVE operation'[q] = operation[q]
    BY <1>1, <2>1 DEF RequestTakesEffect, Apply, TypeOK
  <2>2. ASSUME NEW r \in Runs, NEW state \in {"ready", "failed"}, OperationEnds(r, state)
        PROVE  operation'[q] = operation[q]
    BY <1>1, <2>2 DEF OperationEnds, TypeOK
  <2> QED
    BY <1>2, <2>1, <2>2 DEF World, OwnerComments, LateArrival, OwnerDeploys, provider
<1>3. ASSUME NEW r \in Runs, Control(r) \/ Deploy(r) \/ VerifyJob(r), r # q PROVE FALSE
  BY <1>1, <1>3, OthersStay
<1>4. ASSUME Control(q) \/ Deploy(q) \/ VerifyJob(q), ~SendAccepted(q) PROVE FALSE
  BY <1>4 DEF Control, Start, Prepare, Post, PostLate, PostLost, VerifyConsumption,
     Deploy, Preflight, Check, SendRefused, SendUnresolved, DeployerFails, DeployerLost,
     PollSucceeded, PollFailed, PollGivesUp, VerifyJob, VerifyAbsent, VerifyAmbiguous,
     VerifyService, Health, Fail, RerunFailedJobs, provider
<1> QED
  BY <1>2, <1>3, <1>4 DEF Next

\* The read-back lets one run pass for an authority: it finds the run's own
\* consumption and no other, and a run that passed before left its own there.
LEMMA StepOneRun ==
  ASSUME IInv, Next
  PROVE  OneRunPerAuthority'
<1>1. ASSUME NEW r \in Runs, NEW q \in Runs, VerifyConsumption(r), r # q,
             run'[q].consumption # None, run'[q].authority = run'[r].authority
      PROVE  FALSE
  <2>1. PICK c \in Cids : /\ ConsumedBy(run[r].authority, c, run[r].release, r)
                          /\ run' = [run EXCEPT ![r].stage = "preflight", ![r].consumption = c]
    BY <1>1 DEF VerifyConsumption
  <2>2. run'[q] = run[q] /\ run'[r].authority = run[r].authority
    BY <1>1, <2>1 DEF IInv, TypeOK, RunStates
  <2>3. run[q].consumption \in Cids
    BY <1>1, <2>2 DEF IInv, TypeOK, RunStates
  <2>4. comments[run[q].consumption] = ConsumptionBody(q)
    BY <1>1, <2>2 DEF IInv, RunInv
  <2>5. ConsumptionBody(q) # None
    BY <1>1, <2>2, BodyConsumed, NoneIsNothing DEF IInv
  <2>6. run[q].consumption \in ConsumptionsOf(run[r].authority)
    BY <1>1, <2>2, <2>3, <2>4, <2>5 DEF ConsumptionsOf, IsKind, ConsumptionBody
  <2>7. run[q].consumption = c
    BY <2>1, <2>6 DEF ConsumedBy, UniqueConsumption
  <2> QED
    BY <1>1, <2>1, <2>4, <2>7 DEF ConsumedBy, ConsumptionBody
<1>2. ASSUME NEW r \in Runs, NEW q \in Runs, ~VerifyConsumption(r), ~VerifyConsumption(q),
             run'[r].consumption # None, run'[q].consumption # None,
             run'[q].authority = run'[r].authority
      PROVE  r = q
  BY <1>2, ConsumptionStays DEF IInv, OneRunPerAuthority
<1> QED
  BY <1>1, <1>2 DEF OneRunPerAuthority

\* What a request replaces is what the run's envelope says, because the
\* provider looks at the etag, or for a service, when the request takes effect.
LEMMA ApplyReplaces ==
  ASSUME TypeOK, NEW r \in Runs, RunInv(r), run[r].release # None, Apply(r),
         sent[r] > 0 \/ At(r, "send")
  PROVE  operation'[r].over = Envelop(r).previous
<1>1. operation'[r].over = CurrentRevision
  BY ApplyType
<1>2. run[r].release \in Releases
  BY DEF TypeOK, RunStates
<1>3. CASE IsCreate(r)
  <2>1. CurrentRevision = 0
    BY <1>3 DEF Apply, Applicable, CurrentRevision
  <2> QED
    BY <1>1, <1>2, <1>3, <2>1, ConstantsOK DEF IsCreate, Envelop
<1>4. CASE ~IsCreate(r)
  <2>1. CurrentRevision = run[r].seen
    BY <1>4 DEF Apply, Applicable, CurrentRevision
  <2>2. run[r].seen # None
    BY <1>4 DEF RunInv, At
  <2> QED
    BY <1>1, <2>1, <2>2 DEF RunInv
<1> QED
  BY <1>3, <1>4

\* No step makes a request replace anything else.
LEMMA StepReplaces ==
  ASSUME IInv, Next
  PROVE  ReplacesOnlyPrevious'
<1> SUFFICES ASSUME NEW q \in Runs, operation'[q] # None
             PROVE  operation'[q].over = Envelop(q)'.previous
  BY DEF ReplacesOnlyPrevious
<1>1. TypeOK /\ RunInv(q) /\ RequestInv(q)
  BY DEF IInv
<1>3. ASSUME run[q].release # None PROVE Envelop(q)' = Envelop(q)
  <2>1. run[q].stage # "new"
    BY <1>1, <1>3 DEF RunInv, NewRun
  <2> QED
    BY <2>1, HandedStays DEF IInv, Envelop
<1>4. CASE operation[q] # None
  <2>1. run[q].release # None
    BY <1>1, <1>4 DEF RequestInv, RunInv, NewRun
  <2>2. operation'[q].over = operation[q].over
    BY <1>4, StepGrows DEF IInv, Growing
  <2> QED
    BY <1>3, <1>4, <2>1, <2>2 DEF IInv, ReplacesOnlyPrevious
<1>5. CASE operation[q] = None
  <2>1. RequestTakesEffect(q) \/ SendAccepted(q)
    BY <1>5, OperationAppears
  <2>2. Apply(q) /\ (sent[q] > 0 \/ At(q, "send"))
    BY <1>1, <2>1 DEF RequestTakesEffect, SendAccepted, RequestInv
  <2>3. run[q].release # None
    BY <1>1, <2>2 DEF RequestInv, RunInv, At, NewRun
  <2> QED
    BY <1>1, <1>3, <2>2, <2>3, ApplyReplaces
<1> QED
  BY <1>4, <1>5

\* The initial state has the invariant.
LEMMA InitIInv == ASSUME Init PROVE IInv
<1>1. TypeOK
  BY InitType
<1>2. /\ \A r \in Runs : run[r] = NewRun /\ sent[r] = 0 /\ operation[r] = None
      /\ \A r \in Runs : summary[r] = {}
      /\ flying = {}
  BY DEF Init
<1>3. \A r \in Runs : RunInv(r)
  <2> SUFFICES ASSUME NEW r \in Runs PROVE RunInv(r)
    OBVIOUS
  <2>1. run[r] = NewRun
    BY <1>2
  <2>2. sent[r] = 0 /\ ~(sent[r] > 0) /\ "VERIFIED" \notin summary[r]
    BY <1>2
  <2>3. /\ NewRun.stage = "new" /\ NewRun.consumption = None /\ NewRun.release = None
        /\ NewRun.disposition = None
    BY DEF NewRun
  <2> QED
    BY <2>1, <2>2, <2>3 DEF RunInv, Unsent
<1>4. \A r \in Runs : RequestInv(r)
  BY <1>2, NoneIsNothing DEF RequestInv, NewRun, Dispositions
<1>5. OneRunPerAuthority /\ ReplacesOnlyPrevious
  BY <1>2 DEF OneRunPerAuthority, ReplacesOnlyPrevious, NewRun
<1> QED
  BY <1>1, <1>3, <1>4, <1>5 DEF IInv

\* Every step keeps it.
LEMMA NextIInv == ASSUME IInv, [Next]_vars PROVE IInv'
<1>1. CASE Next
  <2>1. TypeOK'
    BY <1>1, StepType DEF IInv
  <2>2. \A q \in Runs : RunInv(q)' /\ RequestInv(q)'
    BY <1>1, StepRuns DEF IInv
  <2>3. OneRunPerAuthority' /\ ReplacesOnlyPrevious'
    BY <1>1, StepOneRun, StepReplaces
  <2> QED
    BY <2>1, <2>2, <2>3 DEF IInv
<1>2. CASE UNCHANGED vars
  <2>1. TypeOK'
    BY <1>2 DEF IInv, TypeOK, vars
  <2>2. ASSUME NEW q \in Runs PROVE RunInv(q)' /\ RequestInv(q)'
    BY <1>2 DEF IInv, RunInv, RequestInv, vars, ConsumptionBody, IsCreate, Envelop
  <2>3. OneRunPerAuthority' /\ ReplacesOnlyPrevious'
    BY <1>2 DEF IInv, OneRunPerAuthority, ReplacesOnlyPrevious, vars, Envelop
  <2> QED
    BY <2>1, <2>2, <2>3 DEF IInv
<1> QED
  BY <1>1, <1>2

\* The invariant holds: a run between two of its calls can rely on what it
\* has read back, and a request on what it replaces.
THEOREM Invariance == Spec => []IInv
<1>1. Init => IInv
  BY InitIInv
<1>2. IInv /\ [Next]_vars => IInv'
  BY NextIInv
<1> QED
  BY <1>1, <1>2, PTL DEF Spec

\* Every variable keeps its type.
THEOREM TypeCorrect == Spec => []TypeOK
<1>1. IInv => TypeOK
  BY DEF IInv
<1> QED
  BY <1>1, Invariance, PTL

\* An authority is good for one run, without the concurrency groups.
THEOREM AuthorityIsOneUse == Spec => []OneRunPerAuthority
<1>1. IInv => OneRunPerAuthority
  BY DEF IInv
<1> QED
  BY <1>1, Invariance, PTL

\* At most one mutation request is sent under one authority, whatever is
\* re-run, lost or late.
THEOREM SingleAttempt == Spec => []SingleMutationAttempt
<1>1. ASSUME IInv PROVE SingleMutationAttempt
  <2> SUFFICES ASSUME NEW r \in Runs, NEW q \in Runs, sent[r] > 0, sent[q] > 0,
                      run[r].authority = run[q].authority
               PROVE  r = q /\ sent[r] = 1
    BY DEF SingleMutationAttempt
  <2>1. run[r].consumption # None /\ run[q].consumption # None /\ sent[r] <= 1
    BY <1>1 DEF IInv, RequestInv
  <2>2. sent[r] \in Nat
    BY <1>1 DEF IInv, TypeOK
  <2> QED
    BY <1>1, <2>1, <2>2 DEF IInv, OneRunPerAuthority
<1> QED
  BY <1>1, Invariance, PTL

\* A request takes effect on what its envelope names or not at all, however
\* late.
THEOREM ReplacesPrevious == Spec => []ReplacesOnlyPrevious
<1>1. IInv => ReplacesOnlyPrevious
  BY DEF IInv
<1> QED
  BY <1>1, Invariance, PTL

\* What is recorded as verified is the run's own revision.
THEOREM VerifiedOwn == Spec => []VerifiedIsOwn
<1>1. ASSUME IInv PROVE VerifiedIsOwn
  <2> SUFFICES ASSUME NEW r \in Runs, "VERIFIED" \in summary[r]
               PROVE  /\ operation[r] # None /\ operation[r].state = "ready"
                      /\ operation[r].revision = run[r].revision
    BY DEF VerifiedIsOwn
  <2>1. run[r].disposition = "SUCCEEDED"
    BY <1>1 DEF IInv, RunInv
  <2> QED
    BY <1>1, <2>1 DEF IInv, RequestInv
<1> QED
  BY <1>1, Invariance, PTL

\* A failure that a transition calls known is final.
THEOREM TransitionFailuresKnown == Spec => []TransitionFailureIsKnown
<1>1. IInv => TransitionFailureIsKnown
  BY DEF IInv, RequestInv, TransitionFailureIsKnown, FailureIsKnown
<1> QED
  BY <1>1, Invariance, PTL

----------------------------------------------------------------------------
\* The refinement: VerifyConsumption spends, a request's effect uses.

Holds(q, a) == run[q].consumption # None /\ run[q].authority = a

Acted(q, a) == operation[q] # None /\ run[q].authority = a

SpentBy ==
    [a \in Cids |-> IF \E r \in Runs : run[r].consumption # None /\ run[r].authority = a
                   THEN CHOOSE r \in Runs : run[r].consumption # None /\ run[r].authority = a
                   ELSE None]

Used == {a \in Cids : \E r \in Runs : operation[r] # None /\ run[r].authority = a}

\* The run that holds an authority is the one that spent it.
LEMMA SpentIs ==
  ASSUME OneRunPerAuthority, NEW a \in Cids, NEW r \in Runs, Holds(r, a)
  PROVE  SpentBy[a] = r
<1>1. \E q \in Runs : run[q].consumption # None /\ run[q].authority = a
  BY DEF Holds
<1>2. \A q \in Runs : run[q].consumption # None /\ run[q].authority = a => q = r
  BY DEF OneRunPerAuthority, Holds
<1>3. (CHOOSE q \in Runs : run[q].consumption # None /\ run[q].authority = a) = r
  BY <1>1, <1>2
<1> QED
  BY <1>1, <1>3 DEF SpentBy

\* Who holds an authority changes by VerifyConsumption alone.
LEMMA SpentStays ==
  ASSUME IInv, Next, NEW a \in Cids,
         \A q \in Runs : VerifyConsumption(q) => run[q].authority # a
  PROVE  SpentBy'[a] = SpentBy[a]
<1>1. ASSUME NEW q \in Runs
      PROVE  (run'[q].consumption # None /\ run'[q].authority = a)
                 <=> (run[q].consumption # None /\ run[q].authority = a)
  <2>1. CASE VerifyConsumption(q)
    <3>1. run[q].stage # "new" /\ run[q].consumption = None
      BY <2>1 DEF VerifyConsumption, At, IInv, RunInv
    <3>2. run'[q].authority = run[q].authority
      BY <3>1, HandedStays DEF IInv
    <3> QED
      BY <2>1, <3>2
  <2>2. CASE ~VerifyConsumption(q)
    BY <2>2, ConsumptionStays DEF IInv
  <2> QED
    BY <2>1, <2>2
<1>2. (\E q \in Runs : run'[q].consumption # None /\ run'[q].authority = a)
          <=> (\E q \in Runs : run[q].consumption # None /\ run[q].authority = a)
  BY <1>1
<1>3. (CHOOSE q \in Runs : run'[q].consumption # None /\ run'[q].authority = a)
          = (CHOOSE q \in Runs : run[q].consumption # None /\ run[q].authority = a)
  BY <1>1
<1> QED
  BY <1>2, <1>3 DEF SpentBy

\* The authorities acted on change by an effect alone.
LEMMA UsedStays ==
  ASSUME IInv, Next, NEW a \in Cids,
         \A q \in Runs : RequestTakesEffect(q) \/ SendAccepted(q) => run[q].authority # a
  PROVE  a \in Used' <=> a \in Used
<1>1. ASSUME NEW q \in Runs PROVE Acted(q, a)' <=> Acted(q, a)
  <2>1. CASE operation[q] # None
    <3>1. run[q].stage # "new"
      BY <2>1 DEF IInv, RequestInv, RunInv, NewRun
    <3>2. operation'[q] # None
      BY <2>1, StepGrows DEF IInv, Growing
    <3> QED
      BY <2>1, <3>1, <3>2, HandedStays DEF IInv, Acted
  <2>2. CASE operation[q] = None /\ operation'[q] # None
    <3>1. RequestTakesEffect(q) \/ SendAccepted(q)
      BY <2>2, OperationAppears
    <3>2. run[q].stage # "new"
      <4>1. RunInv(q) /\ RequestInv(q)
        BY DEF IInv
      <4>2. CASE RequestTakesEffect(q)
        BY <4>1, <4>2 DEF RequestTakesEffect, RequestInv, RunInv, NewRun
      <4>3. CASE SendAccepted(q)
        BY <4>3 DEF SendAccepted, At
      <4> QED
        BY <3>1, <4>2, <4>3
    <3> QED
      BY <2>2, <3>1, <3>2, HandedStays DEF IInv, Acted
  <2> QED
    BY <2>1, <2>2 DEF Acted
<1> QED
  BY <1>1 DEF Used, Acted

\* Passing the read-back spends the authority.
LEMMA SpendImplemented ==
  ASSUME IInv, IInv', Next, NEW r \in Runs, VerifyConsumption(r)
  PROVE  Token!Next
<1>1. PICK a \in Cids : a = run[r].authority
  BY DEF VerifyConsumption, At, IInv, RunInv, TypeOK, RunStates
<1>2. run[r].stage # "new" /\ run[r].consumption = None
  BY DEF VerifyConsumption, At, IInv, RunInv
<1>3. PICK c \in Cids : /\ ConsumedBy(run[r].authority, c, run[r].release, r)
                        /\ run' = [run EXCEPT ![r].stage = "preflight", ![r].consumption = c]
  BY DEF VerifyConsumption
<1>4. run'[r].consumption # None
  BY <1>3, NoneIsNothing DEF IInv, TypeOK, RunStates
<1>5. Holds(r, a)'
  BY <1>1, <1>2, <1>4, HandedStays DEF IInv, Holds
<1>6. SpentBy'[a] = r
  <2>1. \A q \in Runs : run'[q].consumption # None /\ run'[q].authority = a => q = r
    BY <1>5 DEF IInv, OneRunPerAuthority, Holds
  <2>2. (CHOOSE q \in Runs : run'[q].consumption # None /\ run'[q].authority = a) = r
    BY <1>5, <2>1 DEF Holds
  <2> QED
    BY <1>5, <2>2 DEF SpentBy, Holds
<1>7. SpentBy[a] = None
  <2>1. ASSUME NEW q \in Runs, run[q].consumption # None, run[q].authority = a PROVE FALSE
    <3>1. q # r
      BY <1>2, <2>1
    <3>2. run'[q] = run[q]
      BY <1>3, <3>1 DEF IInv, TypeOK
    <3> QED
      BY <1>5, <2>1, <3>1, <3>2 DEF IInv, OneRunPerAuthority, Holds
  <2> QED
    BY <2>1 DEF SpentBy
<1>8. \A b \in Cids : b # a => SpentBy'[b] = SpentBy[b]
  <2> SUFFICES ASSUME NEW b \in Cids, b # a PROVE SpentBy'[b] = SpentBy[b]
    OBVIOUS
  <2>1. ASSUME NEW q \in Runs, VerifyConsumption(q) PROVE q = r
    <3>1. q # r => run'[q] = run[q]
      BY <1>3 DEF IInv, TypeOK
    <3>2. run[q].consumption = None
      BY <2>1 DEF VerifyConsumption, At, IInv, RunInv
    <3>3. run'[q].consumption # None
      BY <2>1, NoneIsNothing DEF VerifyConsumption, IInv, TypeOK, RunStates
    <3> QED
      BY <3>1, <3>2, <3>3
  <2> QED
    BY <1>1, <2>1, SpentStays
<1>9. SpentBy' = [SpentBy EXCEPT ![a] = r]
  BY <1>1, <1>6, <1>8 DEF SpentBy
<1>10. Used' = Used
  <2>1. operation' = operation
    BY DEF VerifyConsumption, provider
  <2>2. \A q \in Runs : run'[q].authority = run[q].authority
    BY <1>3 DEF IInv, TypeOK, RunStates
  <2> QED
    BY <2>1, <2>2 DEF Used
<1>11. Token!Spend(a, r)
  BY <1>7, <1>9, <1>10 DEF Token!Spend, SpentBy, Used
<1> QED
  BY <1>11 DEF Token!Next

\* A request that takes effect uses the authority of its run.
LEMMA UseImplemented ==
  ASSUME IInv, IInv', Next, NEW r \in Runs, RequestTakesEffect(r) \/ SendAccepted(r)
  PROVE  Token!Next
<1>1. /\ run[r].stage # "new" /\ operation[r] = None /\ Apply(r)
      /\ run[r].consumption # None
  <2>1. RunInv(r) /\ RequestInv(r)
    BY DEF IInv
  <2>2. CASE RequestTakesEffect(r)
    BY <2>1, <2>2 DEF RequestTakesEffect, RequestInv, RunInv, NewRun
  <2>3. CASE SendAccepted(r)
    BY <2>1, <2>3 DEF SendAccepted, At, RequestInv, RunInv, Unsent
  <2> QED
    BY <2>2, <2>3
<1>2. PICK a \in Cids : a = run[r].authority
  BY <1>1 DEF IInv, RunInv, TypeOK, RunStates
<1>3. run'[r].authority = a
  BY <1>1, <1>2, HandedStays DEF IInv
<1>4. operation'[r] # None
  <2>1. run[r].release # None
    BY <1>1 DEF IInv, RunInv
  <2>2. operation'[r] = [revision |-> CurrentRevision + 1, over |-> CurrentRevision,
                         state |-> "pending"]
    BY <1>1, <2>1, ApplyType DEF IInv
  <2>3. operation'[r] \in Operations
    BY <2>2, RevisionType DEF IInv, Operations
  <2> QED
    BY <2>3, NoneIsNothing
<1>5. \A q \in Runs : q # r => operation'[q] = operation[q]
  BY <1>1 DEF Apply, IInv, TypeOK
<1>6. a \notin Used
  <2> SUFFICES ASSUME NEW q \in Runs, operation[q] # None, run[q].authority = a PROVE FALSE
    BY DEF Used
  <2>1. run[q].consumption # None
    BY DEF IInv, RequestInv
  <2>2. q = r
    BY <1>1, <1>2, <2>1 DEF IInv, OneRunPerAuthority
  <2> QED
    BY <1>1, <2>2
<1>7. a \in Used'
  BY <1>3, <1>4 DEF Used
<1>8. \A b \in Cids : b # a => (b \in Used' <=> b \in Used)
  <2> SUFFICES ASSUME NEW b \in Cids, b # a PROVE b \in Used' <=> b \in Used
    OBVIOUS
  <2>1. ASSUME NEW q \in Runs, RequestTakesEffect(q) \/ SendAccepted(q) PROVE q = r
    <3>1. operation[q] = None /\ Apply(q)
      <4>1. RunInv(q) /\ RequestInv(q)
        BY DEF IInv
      <4>2. CASE RequestTakesEffect(q)
        BY <4>1, <4>2 DEF RequestTakesEffect, RequestInv
      <4>3. CASE SendAccepted(q)
        BY <4>1, <4>3 DEF SendAccepted, At, RequestInv, RunInv, Unsent
      <4> QED
        BY <2>1, <4>2, <4>3
    <3>2. q # r => operation'[r] = operation[r]
      BY <3>1 DEF Apply, IInv, TypeOK
    <3> QED
      BY <1>1, <1>4, <3>2
  <2> QED
    BY <1>2, <2>1, UsedStays
<1>9. Used' = Used \cup {a}
  BY <1>7, <1>8 DEF Used
<1>10. \A q \in Runs : ~VerifyConsumption(q)
  BY <1>1, <1>4 DEF VerifyConsumption, provider
<1>11. SpentBy' = SpentBy
  <2>1. \A b \in Cids : SpentBy'[b] = SpentBy[b]
    BY <1>10, SpentStays
  <2> QED
    BY <2>1 DEF SpentBy
<1>12. SpentBy[a] # None
  BY <1>1, <1>2, SpentIs, NoneIsNothing DEF IInv, Holds
<1>13. Token!Use(a)
  BY <1>6, <1>9, <1>11, <1>12 DEF Token!Use, SpentBy, Used
<1> QED
  BY <1>13 DEF Token!Next

\* Every step is a step of the one-use token or none.
LEMMA StepImplemented ==
  ASSUME IInv, IInv', [Next]_vars
  PROVE  Token!Next \/ UNCHANGED Token!vars
<1>1. CASE UNCHANGED vars
  BY <1>1 DEF vars, Token!vars
<1>2. ASSUME Next, NEW r \in Runs, VerifyConsumption(r) PROVE Token!Next
  BY <1>2, SpendImplemented
<1>3. ASSUME Next, NEW r \in Runs, RequestTakesEffect(r) \/ SendAccepted(r) PROVE Token!Next
  BY <1>3, UseImplemented
<1>4. ASSUME Next, \A q \in Runs : ~VerifyConsumption(q),
             \A q \in Runs : ~(RequestTakesEffect(q) \/ SendAccepted(q))
      PROVE  UNCHANGED Token!vars
  <2>1. SpentBy' = SpentBy
    <3>1. \A b \in Cids : SpentBy'[b] = SpentBy[b]
      BY <1>4, SpentStays
    <3> QED
      BY <3>1 DEF SpentBy
  <2>2. Used' = Used
    <3>1. \A b \in Cids : b \in Used' <=> b \in Used
      BY <1>4, UsedStays
    <3> QED
      BY <3>1 DEF Used
  <2> QED
    BY <2>1, <2>2 DEF Token!vars, SpentBy, Used
<1> QED
  BY <1>1, <1>2, <1>3, <1>4

\* Both deployment workflows, overlapping and with late comments and late
\* requests, implement a token that is spent by one run and used once.
THEOREM ImplementsToken == Spec => ImplementsOneUse
<1>1. Init => Token!Init
  <2> SUFFICES ASSUME Init PROVE Token!Init
    OBVIOUS
  <2>1. \A r \in Runs : run[r].consumption = None /\ operation[r] = None
    BY DEF Init, NewRun
  <2> QED
    BY <2>1 DEF Token!Init
<1>2. IInv /\ IInv' /\ [Next]_vars => [Token!Next]_(Token!vars)
  BY StepImplemented
<1> QED
  BY <1>1, <1>2, Invariance, PTL DEF Spec, ImplementsOneUse, Token!Spec

----------------------------------------------------------------------------
\* What the two findings leave true.

\* A run is over for the deployer: nothing sends its request from here on.
Over(r) == run[r].stage \in {"verify", "health", "verify_failed", "done", "failed"}

\* Its request is not on its way, and has had no effect.
HadNoEffect(r) == Over(r) /\ r \notin flying /\ operation[r] = None

\* A report of no mutation, or of a failure called known, that is right when
\* no request of the run is on its way any more stays right.
StaysWithoutEffect == [][\A r \in Runs : HadNoEffect(r) => HadNoEffect(r)']_vars

\* A run that is over stays so, whichever run moves.
LEMMA OverStays ==
  ASSUME TypeOK, Next, NEW q \in Runs, Over(q)
  PROVE  Over(q)'
<1>1. ASSUME UNCHANGED run PROVE Over(q)'
  BY <1>1 DEF Over
<1>2. ASSUME World PROVE UNCHANGED run
  BY <1>2 DEF World, OwnerComments, LateArrival, OwnerDeploys, RequestTakesEffect, OperationEnds
<1>3. ASSUME NEW r \in Runs, r # q, Control(r) \/ Deploy(r) \/ VerifyJob(r)
      PROVE  run'[q] = run[q]
  <2>1. ASSUME Control(r) PROVE run'[q] = run[q]
    <3>1. ASSUME NEW a \in Cids, Start(r, a) PROVE run'[q] = run[q]
      BY <1>3, <3>1 DEF TypeOK, Start
    <3>2. ASSUME VerifyConsumption(r) PROVE run'[q] = run[q]
      BY <1>3, <3>2 DEF TypeOK, VerifyConsumption
    <3>3. ASSUME NEW stage, Enter(r, stage) PROVE run'[q] = run[q]
      BY <1>3, <3>3 DEF TypeOK, Enter
    <3> QED
      BY <2>1, <3>1, <3>2, <3>3 DEF Control, Prepare, Post, PostLate, PostLost
  <2>2. ASSUME Deploy(r) PROVE run'[q] = run[q]
    BY <1>3, <2>2 DEF TypeOK, Deploy, Preflight, Check, SendAccepted, SendRefused, SendUnresolved,
       DeployerFails, DeployerLost, PollSucceeded, PollFailed, PollGivesUp, Enter, Answered, DeployerGone
  <2>3. ASSUME VerifyJob(r) PROVE run'[q] = run[q]
    BY <1>3, <2>3 DEF TypeOK, VerifyJob, VerifyAbsent, VerifyAmbiguous, VerifyService, Health, Fail,
       RerunFailedJobs, Enter
  <2> QED
    BY <1>3, <2>1, <2>2, <2>3
<1>4. ~ Control(q) /\ ~ Deploy(q)
  <2>1. ~ Prepare(q) /\ ~ Post(q) /\ ~ PostLate(q) /\ ~ PostLost(q) /\ ~ VerifyConsumption(q)
    BY DEF Over, Prepare, Post, PostLate, PostLost, VerifyConsumption, At
  <2>2. \A a \in Cids : ~ Start(q, a)
    BY DEF Over, Start, At
  <2>3. ~ Preflight(q) /\ ~ Check(q) /\ ~ DeployerFails(q)
    BY DEF Over, Preflight, Check, DeployerFails, At
  <2>4. ~ SendAccepted(q) /\ ~ SendRefused(q) /\ ~ DeployerLost(q)
    BY DEF Over, SendAccepted, SendRefused, DeployerLost, At
  <2>5. \A d \in Dispositions : ~ SendUnresolved(q, d)
    BY DEF Over, SendUnresolved, At
  <2>6. ~ PollSucceeded(q) /\ ~ PollFailed(q) /\ ~ PollGivesUp(q)
    BY DEF Over, PollSucceeded, PollFailed, PollGivesUp, At
  <2> QED
    BY <2>1, <2>2, <2>3, <2>4, <2>5, <2>6 DEF Control, Deploy
<1>5. ASSUME VerifyJob(q) PROVE Over(q)'
  <2>1. \E stage \in {"verify", "health", "verify_failed", "done"} : Enter(q, stage)
    BY <1>5 DEF Over, VerifyJob, VerifyAbsent, VerifyAmbiguous, VerifyService, Health, Fail,
       RerunFailedJobs, RerunStage
  <2>2. PICK stage \in {"verify", "health", "verify_failed", "done"} : Enter(q, stage)
    BY <2>1
  <2>3. stage \in Stages
    BY DEF Stages
  <2>4. run'[q] = [run[q] EXCEPT !.stage = stage] /\ run[q] \in RunStates
    BY <2>2, <2>3, EnterType DEF TypeOK
  <2> QED
    BY <2>4 DEF Over, RunStates
<1> QED
  BY <1>1, <1>2, <1>3, <1>4, <1>5 DEF Next, Over

\* Only a request takes effect, and only the deployer sends one.
LEMMA NoEffectStays ==
  ASSUME TypeOK, Next, NEW q \in Runs, HadNoEffect(q)
  PROVE  q \notin flying' /\ operation'[q] = None
<1>0. operation \in [Runs -> Operations \cup {None}] /\ q \notin flying /\ operation[q] = None
  BY DEF TypeOK, HadNoEffect
<1>1. ASSUME UNCHANGED <<flying, operation>> PROVE q \notin flying' /\ operation'[q] = None
  BY <1>0, <1>1
<1>2. ASSUME NEW r \in Runs, RequestTakesEffect(r) PROVE q \notin flying' /\ operation'[q] = None
  <2>1. r # q
    BY <1>0, <1>2 DEF RequestTakesEffect
  <2> QED
    BY <1>0, <1>2, <2>1 DEF RequestTakesEffect, Apply
<1>3. ASSUME NEW r \in Runs, NEW state, OperationEnds(r, state)
      PROVE  q \notin flying' /\ operation'[q] = None
  <2>1. r # q
    BY <1>0, <1>3 DEF OperationEnds
  <2> QED
    BY <1>0, <1>3, <2>1 DEF OperationEnds
<1>4. ASSUME NEW r \in Runs, At(r, "send")
      PROVE  r # q
  BY <1>4 DEF HadNoEffect, Over, At
<1>5. ASSUME NEW r \in Runs, SendAccepted(r) PROVE q \notin flying' /\ operation'[q] = None
  <2>1. r # q
    BY <1>4, <1>5 DEF SendAccepted
  <2> QED
    BY <1>0, <1>5, <2>1 DEF SendAccepted, Apply
<1>6. ASSUME NEW r \in Runs, DeployerLost(r) \/ \E d \in Dispositions : SendUnresolved(r, d)
      PROVE  q \notin flying' /\ operation'[q] = None
  <2>1. r # q
    BY <1>4, <1>6 DEF DeployerLost, SendUnresolved
  <2>2. flying' = flying \cup {r} /\ UNCHANGED operation
    BY <1>6 DEF DeployerLost, SendUnresolved
  <2> QED
    BY <1>0, <2>1, <2>2
<1>7. ASSUME World PROVE q \notin flying' /\ operation'[q] = None
  <2>1. CASE \/ \E c \in OwnerWrites : OwnerComments(c)
             \/ \E c \in late : LateArrival(c)
             \/ \E image \in Images : OwnerDeploys(image)
    BY <1>1, <2>1 DEF OwnerComments, LateArrival, OwnerDeploys, provider
  <2> QED
    BY <1>2, <1>3, <1>7, <2>1 DEF World
<1>8. ASSUME NEW r \in Runs, Control(r) \/ VerifyJob(r) PROVE UNCHANGED <<flying, operation>>
  <2>1. UNCHANGED provider
    <3>1. ASSUME NEW a \in Cids, Start(r, a) PROVE UNCHANGED provider
      BY <3>1 DEF Start
    <3>2. Prepare(r) => UNCHANGED provider
      BY DEF Prepare
    <3>3. Post(r) \/ PostLate(r) \/ PostLost(r) => UNCHANGED provider
      BY DEF Post, PostLate, PostLost
    <3>4. VerifyConsumption(r) => UNCHANGED provider
      BY DEF VerifyConsumption
    <3>5. VerifyAbsent(r) \/ VerifyAmbiguous(r) \/ VerifyService(r) => UNCHANGED provider
      BY DEF VerifyAbsent, VerifyAmbiguous, VerifyService
    <3>6. Health(r) \/ Fail(r) \/ RerunFailedJobs(r) => UNCHANGED provider
      BY DEF Health, Fail, RerunFailedJobs
    <3>7. Control(r) => UNCHANGED provider
      BY <3>1, <3>2, <3>3, <3>4 DEF Control
    <3>8. VerifyJob(r) => UNCHANGED provider
      BY <3>5, <3>6 DEF VerifyJob
    <3> QED
      BY <1>8, <3>7, <3>8
  <2> QED
    BY <2>1 DEF provider
<1>9. ASSUME NEW r \in Runs, Deploy(r) PROVE q \notin flying' /\ operation'[q] = None
  <2>1. ASSUME \/ Preflight(r) \/ Check(r) \/ SendRefused(r) \/ DeployerFails(r)
               \/ PollSucceeded(r) \/ PollFailed(r) \/ PollGivesUp(r)
        PROVE  UNCHANGED <<flying, operation>>
    BY <2>1 DEF Preflight, Check, SendRefused, DeployerFails, PollSucceeded, PollFailed, PollGivesUp,
       provider
  <2> QED
    BY <1>1, <1>5, <1>6, <1>9, <2>1 DEF Deploy
<1> QED
  BY <1>1, <1>7, <1>8, <1>9 DEF Next

\* When the deployer of a run is done, its request is not on its way and has
\* had no effect, it never has one: NO_MUTATION_CONFIRMED and
\* CREATE_FAILED_KNOWN are wrong only of a run whose request is unanswered
\* (single_mutation_attempt, and a re-run that is of the verifier alone).
THEOREM NoEffectIsFinal == Spec => StaysWithoutEffect
<1>1. IInv /\ [Next]_vars => [\A r \in Runs : HadNoEffect(r) => HadNoEffect(r)']_vars
  <2>1. ASSUME IInv, Next, NEW r \in Runs, HadNoEffect(r) PROVE HadNoEffect(r)'
    <3>1. Over(r)'
      BY <2>1, OverStays DEF IInv, HadNoEffect
    <3>2. r \notin flying' /\ operation'[r] = None
      BY <2>1, NoEffectStays DEF IInv
    <3> QED
      BY <3>1, <3>2 DEF HadNoEffect
  <2> QED
    BY <2>1
<1> QED
  BY <1>1, Invariance, PTL DEF Spec, StaysWithoutEffect

============================================================================
