----------------------- MODULE ProductTerraformProofs -----------------------
(***************************************************************************)
(* Proofs about ProductTerraform, for any number of runs, pull requests,   *)
(* commits, comments and resources.                                        *)
(***************************************************************************)
EXTENDS ProductTerraform, TLAPS

\* A candidate assembles to a configuration.
LEMMA ConfigType == ASSUME NEW c \in Candidates PROVE Config(c) \in Resources
<1>1. c.stage = "routing" => c.uri \in Uris
  BY DEF Candidates
<1>2. ASSUME NEW a \in Addresses PROVE Config(c)[a] \in Values \cup {None}
  BY <1>1 DEF Config, Values
<1>3. Config(c) = [a \in Addresses |-> Config(c)[a]]
  BY DEF Config
<1> QED
  BY <1>2, <1>3 DEF Resources

\* Nothing is a configuration, and no state and no plan are of their types.
LEMMA NothingType ==
  /\ Nothing \in Resources /\ NoState \in States /\ NoPlan \in Plans
  /\ NoState.version = 0 /\ NoState.resources = Nothing
  /\ NewRun \in RunStates
<1>1. Nothing \in Resources
  BY DEF Nothing, Resources
<1>2. 0 \in 0..MaxVersion
  BY MaxVersionOK
<1>3. NoState \in States
  BY <1>1, <1>2 DEF NoState, States
<1>4. NoPlan \in Plans
  BY <1>1, <1>2 DEF NoPlan, Plans
<1>5. NewRun \in RunStates
  BY <1>2, <1>3, <1>4 DEF NewRun, RunStates, Stages
<1> QED
  BY <1>1, <1>3, <1>4, <1>5 DEF NoState

\* What terraform plan saves is a plan.
LEMMA PlanType ==
  ASSUME NEW c \in Candidates, NEW prior \in States
  PROVE  TakePlan(c, prior) \in Plans
<1>1. Config(c) \in Resources
  BY ConfigType
<1>2. prior.resources \in Resources /\ prior.version \in 0..MaxVersion
  BY DEF States
<1>3. Drifted(prior.resources) \in BOOLEAN
  BY DEF Drifted
<1> QED
  BY <1>1, <1>2, <1>3 DEF TakePlan, Plans

\* What is pulled is a state.
LEMMA PulledType ==
  ASSUME state \in States, NEW g \in 0..MaxVersion
  PROVE  Pulled(g) \in States
<1> QED
  BY NothingType DEF Pulled

\* The fields of a run.
LEMMA Fields ==
  ASSUME TypeOK, NEW r \in Runs
  PROVE  /\ run[r] \in RunStates
         /\ run[r].stage \in Stages /\ run[r].kind \in {"plan", "apply"}
         /\ run[r].pr \in PullRequests \cup {None}
         /\ run[r].head \in Shas \cup {None} /\ run[r].base \in Shas \cup {None}
         /\ run[r].object \in Keys \cup {None}
         /\ run[r].candidate \in Candidates \cup {None}
         /\ run[r].binding \in Bindings \cup {None}
         /\ run[r].generation \in 0..MaxVersion
         /\ run[r].pulled \in States /\ run[r].plan \in Plans
         /\ run[r].reviewed \in Effects \cup {None}
         /\ run[r].created \in SUBSET Addresses
<1>1. run[r] \in RunStates
  BY DEF TypeOK
<1> QED
  BY <1>1 DEF RunStates

\* A run that is given another state.
LEMMA MoveType ==
  ASSUME TypeOK, NEW r \in Runs, NEW s \in RunStates, run' = [run EXCEPT ![r] = s]
  PROVE  /\ run' \in [Runs -> RunStates]
         /\ run'[r] = s
         /\ \A q \in Runs : q # r => run'[q] = run[q]
<1> QED
  BY DEF TypeOK

\* What a bound run records is an effect.
LEMMA EffectType ==
  ASSUME TypeOK, NEW r \in Runs, BoundInv(r), run[r].pr # None
  PROVE  Effect(r) \in Effects /\ Key(r) \in Keys
<1>1. /\ run[r].pr \in PullRequests /\ run[r].head \in Shas /\ run[r].base \in Shas
      /\ run[r].candidate \in Candidates
  BY Fields DEF BoundInv
<1>2. Creates(run[r].plan) \in SUBSET Addresses
  BY DEF Creates
<1>3. run[r].binding \in Bindings \cup {None} /\ run[r].generation \in 0..MaxVersion
      /\ run[r].pulled \in States
  BY Fields
<1>4. Effect(r) \in Effects
  BY <1>1, <1>2, <1>3 DEF Effect, Effects
<1> QED
  BY <1>1, <1>4 DEF Key, Keys

----------------------------------------------------------------------------
\* Type correctness.

\* The initial state is well typed.
LEMMA InitType == ASSUME Init PROVE TypeOK
<1>1. PICK s \in Shas, c \in [stage : {"empty", "base"}, uri : {None}, comment : {None}] :
        /\ candidateAt = [x \in Shas |-> IF x = s THEN c ELSE None]
        /\ main = s
        /\ \/ state = NoState
           \/ state = [version |-> 1, resources |-> Config(c)]
  BY DEF Init
<1>2. c \in Candidates
  BY <1>1 DEF Candidates
<1>3. candidateAt \in [Shas -> Candidates \cup {None}] /\ main \in Shas
  BY <1>1, <1>2
<1>4. state \in States
  BY <1>1, <1>2, ConfigType, NothingType, MaxVersionOK DEF States
<1>5. live \in Resources
  BY <1>4 DEF Init, States
<1>6. pr \in [PullRequests -> PrStates]
  BY DEF Init, PrStates
<1>7. run \in [Runs -> RunStates]
  BY NothingType DEF Init
<1> QED
  BY <1>3, <1>4, <1>5, <1>6, <1>7 DEF Init, TypeOK

\* The repository keeps every variable in its type.
LEMMA RepositoryType == ASSUME TypeOK, PrInv, Repository PROVE TypeOK'
<1>1. ASSUME NEW s \in Shas, NEW p \in PullRequests, NEW c \in Candidates, Open(p, s, c)
      PROVE TypeOK'
  <2>1. candidateAt' \in [Shas -> Candidates \cup {None}]
    BY <1>1 DEF Open, Commit, TypeOK
  <2>2. [status |-> "open", head |-> s, base |-> main, merge |-> None] \in PrStates
    BY DEF PrStates, TypeOK
  <2>3. pr' \in [PullRequests -> PrStates]
    BY <1>1, <2>2 DEF Open, TypeOK
  <2> QED
    BY <1>1, <2>1, <2>3 DEF Open, cloud, TypeOK
<1>2. ASSUME NEW s \in Shas, NEW p \in PullRequests, NEW c \in Candidates, PushHead(p, s, c)
      PROVE TypeOK'
  <2>1. candidateAt' \in [Shas -> Candidates \cup {None}]
    BY <1>2 DEF PushHead, Commit, TypeOK
  <2>2. PICK base \in {pr[p].base, main} :
          pr' = [pr EXCEPT ![p].head = s, ![p].base = base]
    BY <1>2 DEF PushHead
  <2>3. pr[p] \in PrStates /\ base \in Shas \cup {None}
    BY <2>2 DEF TypeOK, PrStates
  <2>4. [pr[p] EXCEPT !.head = s, !.base = base] \in PrStates
    BY <2>3 DEF PrStates
  <2>5. pr' \in [PullRequests -> PrStates]
    BY <2>2, <2>4 DEF TypeOK
  <2> QED
    BY <1>2, <2>1, <2>5 DEF PushHead, cloud, TypeOK
<1>3. ASSUME NEW s \in Shas, NEW p \in PullRequests, Merge(p, s) PROVE TypeOK'
  <2>1. PICK c \in {candidateAt[pr[p].head], candidateAt[main]} : Commit(s, c)
    BY <1>3 DEF Merge
  <2>2. pr[p].head \in Shas
    BY <1>3 DEF Merge, PrInv, TypeOK, PrStates
  <2>3. candidateAt' \in [Shas -> Candidates \cup {None}]
    BY <2>1, <2>2 DEF Commit, TypeOK
  <2>4. [pr[p] EXCEPT !.status = "merged", !.merge = s] \in PrStates
    <3>1. pr[p] \in PrStates
      BY DEF TypeOK
    <3> QED
      BY <3>1 DEF PrStates
  <2>5. pr' \in [PullRequests -> PrStates]
    BY <1>3, <2>4 DEF Merge, TypeOK
  <2> QED
    BY <1>3, <2>3, <2>5 DEF Merge, cloud, TypeOK
<1>4. ASSUME NEW s \in Shas, MainMoves(s) PROVE TypeOK'
  BY <1>4 DEF MainMoves, Commit, cloud, TypeOK
<1>5. ASSUME NEW c \in Comments, NEW b \in Bindings \cup {None}, CommentChanges(c, b)
      PROVE TypeOK'
  BY <1>5 DEF CommentChanges, cloud, TypeOK
<1> QED
  BY <1>1, <1>2, <1>3, <1>4, <1>5 DEF Repository

\* Changes by hand keep every variable in its type.
LEMMA ByHandType == ASSUME TypeOK, ByHand PROVE TypeOK'
<1>1. ASSUME NEW a \in Editable, NEW v \in {Changed, None}, ChangeLive(a, v) PROVE TypeOK'
  <2>1. a \in Addresses /\ v \in Values \cup {None}
    BY EditableOK DEF Values
  <2>2. live' \in Resources
    BY <1>1, <2>1 DEF ChangeLive, TypeOK, Resources
  <2> QED
    BY <1>1, <2>2 DEF ChangeLive, github, TypeOK
<1>2. ASSUME NEW a \in Editable, NEW v \in {live[a], None}, ChangeState(a, v) PROVE TypeOK'
  <2>1. a \in Addresses /\ v \in Values \cup {None}
    BY EditableOK DEF TypeOK, Resources
  <2>2. [state.resources EXCEPT ![a] = v] \in Resources
    BY <2>1 DEF TypeOK, States, Resources
  <2>3. state.version + 1 \in 0..MaxVersion
    BY <1>2, MaxVersionOK DEF ChangeState
  <2>4. state' \in States
    BY <1>2, <2>2, <2>3 DEF ChangeState, States
  <2> QED
    BY <1>2, <2>4 DEF ChangeState, github, TypeOK
<1>3. ASSUME ForceUnlock PROVE TypeOK'
  BY <1>3 DEF ForceUnlock, github, TypeOK
<1> QED
  BY <1>1, <1>2, <1>3 DEF ByHand

\* The candidates a run binds.
LEMMA CandidateType ==
  ASSUME TypeOK, PrInv, NEW p \in PullRequests
  PROVE  /\ pr[p].status # "none" => /\ candidateAt[pr[p].head] \in Candidates
                                     /\ pr[p].head \in Shas /\ pr[p].base \in Shas
         /\ candidateAt[main] \in Candidates
<1>1. pr[p] \in PrStates
  BY DEF TypeOK
<1>2. pr[p].head \in Shas \cup {None} /\ pr[p].base \in Shas \cup {None}
  BY <1>1 DEF PrStates
<1> QED
  BY <1>2 DEF TypeOK, PrInv

\* A binding that holds is verified for its candidate.
LEMMA BindingType ==
  ASSUME TypeOK, NEW c \in Candidates
  PROVE  /\ BindingOf(c) \in Bindings \cup {None}
         /\ BindingHolds(c) => Verified(c, BindingOf(c))
<1>1. c.stage = "routing" => c.comment \in Comments
  BY DEF Candidates
<1> QED
  BY <1>1 DEF BindingOf, BindingHolds, Verified, TypeOK

\* What an apply leaves, in the project and in the state.
LEMMA SavedType ==
  ASSUME TypeOK, NEW p \in Plans, NEW done \in SUBSET Addresses, NEW saved \in SUBSET done,
         state.version < MaxVersion
  PROVE  /\ Changes(p, done, live) \in Resources
         /\ Saved(p, saved) \in States
<1>1. p.target \in Resources
  BY DEF Plans
<1>2. ASSUME NEW base \in Resources, NEW set \in SUBSET Addresses
      PROVE Changes(p, set, base) \in Resources
  BY <1>1 DEF Changes, Resources
<1>3. state.resources \in Resources /\ state.version \in 0..MaxVersion /\ state \in States
  BY DEF TypeOK, States
<1>4. state.version + 1 \in 0..MaxVersion
  BY <1>3, MaxVersionOK
<1>5. live \in Resources
  BY DEF TypeOK
<1>6. Changes(p, done, live) \in Resources
  BY <1>2, <1>5
<1>7. saved \in SUBSET Addresses
  OBVIOUS
<1>8. Changes(p, saved, state.resources) \in Resources
  BY <1>2, <1>3, <1>7
<1>9. [version |-> state.version + 1, resources |-> Changes(p, saved, state.resources)] \in States
  BY <1>4, <1>8 DEF States
<1> QED
  BY <1>3, <1>6, <1>9 DEF Saved

\* A plan run keeps every variable in its type.
LEMMA PlanRunType == ASSUME TypeOK, PrInv, NEW r \in Runs, BoundInv(r), PlanRun(r) PROVE TypeOK'
<1> USE DEF github, cloud
<1>0. run[r] \in RunStates
  BY Fields
<1>1. ASSUME NEW p \in PullRequests, BindPlan(r, p) PROVE TypeOK'
  <2> DEFINE c == candidateAt[pr[p].head]
             s == [NewRun EXCEPT !.stage = "bound", !.pr = p, !.head = pr[p].head,
                                 !.base = pr[p].base, !.candidate = c, !.binding = BindingOf(c)]
  <2>1. c \in Candidates /\ pr[p].head \in Shas /\ pr[p].base \in Shas
    BY <1>1, CandidateType DEF BindPlan
  <2>2. BindingOf(c) \in Bindings \cup {None}
    BY <2>1, BindingType
  <2>3. s \in RunStates
    BY <2>1, <2>2, NothingType DEF RunStates, Stages
  <2>4. run' = [run EXCEPT ![r] = s]
    BY <1>1 DEF BindPlan
  <2>5. run' \in [Runs -> RunStates]
    BY <2>3, <2>4, MoveType
  <2> QED
    BY <1>1, <2>5 DEF BindPlan, TypeOK
<1>2. ASSUME ReadMetadata(r) PROVE TypeOK'
  <2>1. state.version \in 0..MaxVersion
    BY DEF TypeOK, States
  <2>2. [run[r] EXCEPT !.stage = "read", !.generation = state.version] \in RunStates
    BY <1>0, <2>1 DEF RunStates, Stages
  <2>3. run' \in [Runs -> RunStates]
    BY <1>2, <2>2 DEF ReadMetadata, TypeOK
  <2> QED
    BY <1>2, <2>3 DEF ReadMetadata, TypeOK
<1>3. ASSUME PullState(r) PROVE TypeOK'
  <2>1. Pulled(run[r].generation) \in States
    BY Fields, PulledType DEF TypeOK
  <2>2. [run[r] EXCEPT !.stage = "pulled", !.pulled = Pulled(run[r].generation)] \in RunStates
    BY <1>0, <2>1 DEF RunStates, Stages
  <2>3. run' \in [Runs -> RunStates]
    BY <1>3, <2>2 DEF PullState, TypeOK
  <2> QED
    BY <1>3, <2>3 DEF PullState, TypeOK
<1>4. ASSUME PlanCandidate(r) PROVE TypeOK'
  <2>1. Pulled(run[r].generation) \in States
    BY Fields, PulledType DEF TypeOK
  <2>2. run[r].candidate \in Candidates
    BY <1>4, Fields DEF PlanCandidate, BoundInv
  <2>3. TakePlan(run[r].candidate, Pulled(run[r].generation)) \in Plans
    BY <2>1, <2>2, PlanType
  <2>4. [run[r] EXCEPT !.stage = "planned",
            !.plan = TakePlan(run[r].candidate, Pulled(run[r].generation))] \in RunStates
    BY <1>0, <2>3 DEF RunStates, Stages
  <2>5. run' \in [Runs -> RunStates]
    BY <1>4, <2>4 DEF PlanCandidate, TypeOK
  <2> QED
    BY <1>4, <2>5 DEF PlanCandidate, TypeOK
<1>5. ASSUME Recheck(r) PROVE TypeOK'
  <2>1. [run[r] EXCEPT !.stage = "rechecked"] \in RunStates
    BY <1>0 DEF RunStates, Stages
  <2>2. run' \in [Runs -> RunStates]
    BY <1>5, <2>1 DEF Recheck, TypeOK
  <2> QED
    BY <1>5, <2>2 DEF Recheck, TypeOK
<1>6. ASSUME Upload(r) PROVE TypeOK'
  <2>1. Effect(r) \in Effects /\ Key(r) \in Keys
    BY <1>6, EffectType DEF Upload, BoundInv
  <2>2. PICK end \in {"done", "failed"} : run' = [run EXCEPT ![r].stage = end]
    BY <1>6 DEF Upload
  <2>3. [run[r] EXCEPT !.stage = end] \in RunStates
    BY <1>0 DEF RunStates, Stages
  <2>4. run' \in [Runs -> RunStates]
    BY <2>2, <2>3 DEF TypeOK
  <2> QED
    BY <1>6, <2>1, <2>4 DEF Upload, TypeOK
<1> QED
  BY <1>1, <1>2, <1>3, <1>4, <1>5, <1>6 DEF PlanRun

\* An apply run keeps every variable in its type.
LEMMA ApplyRunType == ASSUME TypeOK, PrInv, NEW r \in Runs, BoundInv(r), ApplyRun(r) PROVE TypeOK'
<1> USE DEF github, cloud
<1>0. run[r] \in RunStates /\ state \in States /\ state.version \in 0..MaxVersion
      /\ state.resources \in Resources
  BY Fields DEF TypeOK, States
<1>1. ASSUME NEW p \in PullRequests, NEW k \in Keys, BindApply(r, p, k) PROVE TypeOK'
  <2> DEFINE c == candidateAt[main]
             s == [NewRun EXCEPT !.stage = "bound", !.kind = "apply", !.pr = p,
                                 !.head = pr[p].head, !.base = pr[p].base, !.object = k,
                                 !.candidate = c, !.binding = BindingOf(c)]
  <2>1. c \in Candidates /\ pr[p].head \in Shas /\ pr[p].base \in Shas
    BY <1>1, CandidateType DEF BindApply
  <2>2. BindingOf(c) \in Bindings \cup {None}
    BY <2>1, BindingType
  <2>3. s \in RunStates
    BY <2>1, <2>2, NothingType DEF RunStates, Stages
  <2>4. run' = [run EXCEPT ![r] = s]
    BY <1>1 DEF BindApply
  <2>5. run' \in [Runs -> RunStates]
    BY <2>3, <2>4, MoveType
  <2> QED
    BY <1>1, <2>5 DEF BindApply, TypeOK
<1>2. ASSUME Download(r) PROVE TypeOK'
  <2>1. run[r].object \in Keys
    BY <1>2, Fields DEF Download, BoundInv
  <2>2. evidence[run[r].object] \in Effects
    BY <1>2, <2>1 DEF Download, TypeOK
  <2>3. [run[r] EXCEPT !.stage = "read", !.reviewed = evidence[run[r].object],
                       !.generation = state.version] \in RunStates
    BY <1>0, <2>2 DEF RunStates, Stages
  <2>4. run' \in [Runs -> RunStates]
    BY <1>2, <2>3 DEF Download, TypeOK
  <2> QED
    BY <1>2, <2>4 DEF Download, TypeOK
<1>3. ASSUME InitBackend(r) PROVE TypeOK'
  <2> DEFINE pulled == IF run[r].generation = 0 THEN NoState ELSE state
  <2>1. pulled \in States
    BY <1>0, NothingType
  <2>2. [run[r] EXCEPT !.stage = "pulled", !.pulled = pulled] \in RunStates
    <3> HIDE DEF pulled
    <3> QED
      BY <1>0, <2>1 DEF RunStates, Stages
  <2>3. run' \in [Runs -> RunStates]
    BY <1>3, <2>2 DEF InitBackend, TypeOK
  <2>4. [state EXCEPT !.version = 1] \in States
    BY <1>0, MaxVersionOK DEF States
  <2> QED
    BY <1>0, <1>3, <2>3, <2>4 DEF InitBackend, TypeOK
<1>4. ASSUME PlanMerged(r) PROVE TypeOK'
  <2>1. run[r].candidate \in Candidates
    BY <1>4, Fields DEF PlanMerged, BoundInv
  <2>2. TakePlan(run[r].candidate, state) \in Plans
    BY <1>0, <2>1, PlanType
  <2>3. [run[r] EXCEPT !.stage = "planned", !.plan = TakePlan(run[r].candidate, state)]
            \in RunStates
    BY <1>0, <2>2 DEF RunStates, Stages
  <2>4. run' \in [Runs -> RunStates]
    BY <1>4, <2>3 DEF PlanMerged, TypeOK
  <2> QED
    BY <1>4, <2>4 DEF PlanMerged, TypeOK
<1>5. ASSUME BeginApply(r) PROVE TypeOK'
  <2>1. run[r].plan \in Plans
    BY Fields
  <2>2. [run[r] EXCEPT !.stage = "applying", !.plan = run[r].plan] \in RunStates
    BY <1>0, <2>1 DEF RunStates, Stages
  <2>3. run' \in [Runs -> RunStates]
    BY <1>5, <2>2 DEF BeginApply, PlanToApply, TypeOK
  <2> QED
    BY <1>5, <2>3 DEF BeginApply, TypeOK
<1>6. ASSUME NEW done \in SUBSET Addresses, EndApply(r, done) PROVE TypeOK'
  <2> DEFINE stage == IF done = Creates(run[r].plan) \cup Alters(run[r].plan)
                      THEN "applied" ELSE "partial"
  <2>1. live' \in Resources /\ state' \in States
    BY <1>6, Fields, SavedType DEF EndApply
  <2>2. [run[r] EXCEPT !.created = done, !.saved = done, !.stage = stage] \in RunStates
    <3>1. stage \in Stages
      BY DEF Stages
    <3> HIDE DEF stage
    <3> QED
      BY <1>0, <3>1 DEF RunStates
  <2>3. run' \in [Runs -> RunStates]
    BY <1>6, <2>2 DEF EndApply, TypeOK
  <2> QED
    BY <1>6, <2>1, <2>3 DEF EndApply, TypeOK
<1>7. ASSUME NEW done \in SUBSET Addresses, NEW saved \in SUBSET done, LoseApply(r, done, saved)
      PROVE TypeOK'
  <2>1. live' \in Resources /\ state' \in States
    BY <1>7, Fields, SavedType DEF LoseApply
  <2>2. [run[r] EXCEPT !.created = done, !.saved = saved, !.stage = "lost"] \in RunStates
    BY <1>0, <1>7 DEF RunStates, Stages
  <2>3. run' \in [Runs -> RunStates]
    BY <1>7, <2>2 DEF LoseApply, TypeOK
  <2> QED
    BY <1>7, <2>1, <2>3 DEF LoseApply, TypeOK
<1>8. ASSUME NoChange(r) PROVE TypeOK'
  <2>1. [run[r] EXCEPT !.stage = "done"] \in RunStates
    BY <1>0 DEF RunStates, Stages
  <2>2. run' \in [Runs -> RunStates]
    BY <1>8, <2>1 DEF NoChange, TypeOK
  <2> QED
    BY <1>8, <2>2 DEF NoChange, TypeOK
<1> QED
  BY <1>1, <1>2, <1>3, <1>4, <1>5, <1>6, <1>7, <1>8 DEF ApplyRun

\* A step keeps every variable in its type.
LEMMA StepType == ASSUME TypeOK, PrInv, RunInv, Next PROVE TypeOK'
<1>1. CASE Repository
  BY <1>1, RepositoryType
<1>2. CASE ByHand
  BY <1>2, ByHandType
<1>3. ASSUME NEW r \in Runs, PlanRun(r) PROVE TypeOK'
  BY <1>3, PlanRunType DEF RunInv
<1>4. ASSUME NEW r \in Runs, ApplyRun(r) PROVE TypeOK'
  BY <1>4, ApplyRunType DEF RunInv
<1>5. ASSUME NEW r \in Runs, Fail(r) \/ LosePlan(r) PROVE TypeOK'
  <2>1. ASSUME NEW stage \in {"failed", "lost"}
        PROVE [NewRun EXCEPT !.stage = stage] \in RunStates
    BY NothingType DEF RunStates, Stages
  <2>2. run' \in [Runs -> RunStates]
    BY <1>5, <2>1 DEF Fail, LosePlan, TypeOK
  <2> QED
    BY <1>5, <2>2 DEF Fail, LosePlan, github, cloud, TypeOK
<1> QED
  BY <1>1, <1>2, <1>3, <1>4, <1>5 DEF Next, Workflow

----------------------------------------------------------------------------
\* What no step undoes.  Commits, merges and evidence stay as they are, and
\* the state object only moves to its next version.
Grows ==
    /\ \A s \in Shas : candidateAt[s] # None => candidateAt'[s] = candidateAt[s]
    /\ \A p \in PullRequests : pr[p].status = "merged" => pr'[p] = pr[p]
    /\ \A k \in Keys : evidence[k] # None => evidence'[k] = evidence[k]
    /\ state' = state \/ state'.version = state.version + 1

\* A run that a step leaves alone keeps the lock and the state it applies to.
Kept(q) ==
    /\ run'[q] = run[q]
    /\ run[q].stage = "applying" => lock' = lock /\ state' = state

\* A step of the repository leaves the runs alone.
LEMMA RepositoryGrows ==
  ASSUME TypeOK, Repository
  PROVE  Grows /\ run' = run /\ evidence' = evidence /\ UNCHANGED cloud
<1>0. ASSUME NEW s \in Shas, NEW c, Commit(s, c)
      PROVE \A x \in Shas : candidateAt[x] # None => candidateAt'[x] = candidateAt[x]
  BY <1>0 DEF Commit, TypeOK
<1>1. ASSUME NEW s \in Shas, NEW p \in PullRequests, NEW c \in Candidates, Open(p, s, c)
      PROVE Grows /\ run' = run /\ evidence' = evidence /\ UNCHANGED cloud
  BY <1>0, <1>1 DEF Open, Grows, cloud, TypeOK
<1>2. ASSUME NEW s \in Shas, NEW p \in PullRequests, NEW c \in Candidates, PushHead(p, s, c)
      PROVE Grows /\ run' = run /\ evidence' = evidence /\ UNCHANGED cloud
  <2>1. PICK base \in {pr[p].base, main} :
          pr' = [pr EXCEPT ![p].head = s, ![p].base = base]
    BY <1>2 DEF PushHead
  <2>2. \A x \in PullRequests : pr[x].status = "merged" => pr'[x] = pr[x]
    BY <1>2, <2>1 DEF PushHead, TypeOK
  <2> QED
    BY <1>0, <1>2, <2>2 DEF PushHead, Grows, cloud
<1>3. ASSUME NEW s \in Shas, NEW p \in PullRequests, Merge(p, s)
      PROVE Grows /\ run' = run /\ evidence' = evidence /\ UNCHANGED cloud
  <2>1. PICK c \in {candidateAt[pr[p].head], candidateAt[main]} : Commit(s, c)
    BY <1>3 DEF Merge
  <2>2. \A x \in PullRequests : pr[x].status = "merged" => pr'[x] = pr[x]
    BY <1>3 DEF Merge, TypeOK
  <2> QED
    BY <1>0, <1>3, <2>1, <2>2 DEF Merge, Grows, cloud
<1>4. ASSUME NEW s \in Shas, MainMoves(s)
      PROVE Grows /\ run' = run /\ evidence' = evidence /\ UNCHANGED cloud
  BY <1>0, <1>4 DEF MainMoves, Grows, cloud
<1>5. ASSUME NEW c \in Comments, NEW b \in Bindings \cup {None}, CommentChanges(c, b)
      PROVE Grows /\ run' = run /\ evidence' = evidence /\ UNCHANGED cloud
  BY <1>5 DEF CommentChanges, Grows, cloud
<1> QED
  BY <1>1, <1>2, <1>3, <1>4, <1>5 DEF Repository

\* So does a change by hand, which does not touch the state under the lock.
LEMMA ByHandGrows ==
  ASSUME TypeOK, RunInv, ByHand
  PROVE  /\ Grows /\ run' = run /\ evidence' = evidence /\ UNCHANGED github
         /\ \A q \in Runs : Kept(q)
         /\ Editable = {} => state' = state
<1>0. ASSUME NEW q \in Runs, run[q].stage = "applying" PROVE lock = q
  BY <1>0 DEF RunInv, ApplyInv, BoundInv
<1>1. ASSUME NEW a \in Editable, NEW v \in {Changed, None}, ChangeLive(a, v)
      PROVE /\ Grows /\ run' = run /\ evidence' = evidence /\ UNCHANGED github
            /\ \A q \in Runs : Kept(q)
  BY <1>1 DEF ChangeLive, Grows, Kept, github
<1>2. ASSUME NEW a \in Editable, NEW v \in {live[a], None}, ChangeState(a, v)
      PROVE /\ Grows /\ run' = run /\ evidence' = evidence /\ UNCHANGED github
            /\ \A q \in Runs : Kept(q)
  <2>1. \A q \in Runs : run[q].stage # "applying"
    BY <1>0, <1>2, NoneIsNothing DEF ChangeState
  <2> QED
    BY <1>2, <2>1 DEF ChangeState, Grows, Kept, github
<1>3. ASSUME ForceUnlock
      PROVE /\ Grows /\ run' = run /\ evidence' = evidence /\ UNCHANGED github
            /\ \A q \in Runs : Kept(q)
  <2>1. \A q \in Runs : run[q].stage # "applying"
    BY <1>0, <1>3 DEF ForceUnlock
  <2> QED
    BY <1>3, <2>1 DEF ForceUnlock, Grows, Kept, github
<1>4. Editable = {} => state' = state
  BY DEF ByHand, ForceUnlock
<1> QED
  BY <1>1, <1>2, <1>3, <1>4 DEF ByHand

\* A step of one run leaves the others alone.
LEMMA WorkflowGrows ==
  ASSUME TypeOK, RunInv, NEW r \in Runs, Workflow(r)
  PROVE  /\ Grows /\ UNCHANGED github
         /\ \A q \in Runs : q # r => Kept(q)
<1> USE DEF github, cloud
<1>0. /\ \A q \in Runs : run[q].stage = "applying" => lock = q
      /\ r # None /\ state.version \in Nat
  BY NoneIsNothing DEF RunInv, ApplyInv, BoundInv, TypeOK, States
<1>2. CASE PlanRun(r)
  <2>1. ASSUME NEW p \in PullRequests, BindPlan(r, p) PROVE Grows /\ \A q \in Runs : q # r => Kept(q)
    BY <2>1 DEF BindPlan, Grows, Kept, TypeOK
  <2>2. ASSUME ReadMetadata(r) \/ PullState(r) \/ PlanCandidate(r) \/ Recheck(r)
        PROVE Grows /\ \A q \in Runs : q # r => Kept(q)
    BY <2>2 DEF ReadMetadata, PullState, PlanCandidate, Recheck, Grows, Kept, TypeOK
  <2>3. ASSUME Upload(r) PROVE Grows /\ \A q \in Runs : q # r => Kept(q)
    <3>1. PICK end \in {"done", "failed"} : run' = [run EXCEPT ![r].stage = end]
      BY <2>3 DEF Upload
    <3>2. \A k \in Keys : evidence[k] # None => evidence'[k] = evidence[k]
      BY <2>3 DEF Upload, Creatable, TypeOK
    <3>3. \A q \in Runs : q # r => run'[q] = run[q]
      BY <3>1 DEF TypeOK
    <3> QED
      BY <2>3, <3>2, <3>3 DEF Upload, Grows, Kept
  <2>4. UNCHANGED github
    BY <1>2 DEF PlanRun, BindPlan, ReadMetadata, PullState, PlanCandidate, Recheck, Upload
  <2> QED
    BY <1>2, <2>1, <2>2, <2>3, <2>4 DEF PlanRun
<1>3. CASE ApplyRun(r)
  <2>1. ASSUME NEW p \in PullRequests, NEW k \in Keys, BindApply(r, p, k)
        PROVE Grows /\ \A q \in Runs : q # r => Kept(q)
    BY <2>1 DEF BindApply, Grows, Kept, TypeOK
  <2>2. ASSUME Download(r) \/ PlanMerged(r) \/ NoChange(r)
        PROVE Grows /\ \A q \in Runs : q # r => Kept(q)
    BY <2>2 DEF Download, PlanMerged, NoChange, Grows, Kept, TypeOK
  <2>3. ASSUME InitBackend(r) PROVE Grows /\ \A q \in Runs : q # r => Kept(q)
    <3>1. state' # state => state'.version = state.version + 1 /\ lock = None
      BY <2>3, <1>0 DEF InitBackend, TypeOK, States
    <3>2. state' # state => \A q \in Runs : run[q].stage # "applying"
      BY <1>0, <3>1, NoneIsNothing
    <3>3. \A q \in Runs : q # r => run'[q] = run[q]
      BY <2>3 DEF InitBackend, TypeOK
    <3>4. evidence' = evidence /\ lock' = lock /\ UNCHANGED github
      BY <2>3 DEF InitBackend
    <3> QED
      BY <3>1, <3>2, <3>3, <3>4 DEF Grows, Kept
  <2>4. ASSUME BeginApply(r) PROVE Grows /\ \A q \in Runs : q # r => Kept(q)
    <3>1. \A q \in Runs : run[q].stage # "applying"
      BY <1>0, <2>4, NoneIsNothing DEF BeginApply
    <3> QED
      BY <2>4, <3>1 DEF BeginApply, Grows, Kept, TypeOK
  <2>5. ASSUME NEW done \in SUBSET Addresses, EndApply(r, done)
        PROVE Grows /\ \A q \in Runs : q # r => Kept(q)
    <3>1. \A q \in Runs : q # r => run[q].stage # "applying"
      BY <1>0, <2>5 DEF EndApply
    <3> QED
      BY <2>5, <3>1 DEF EndApply, Saved, Grows, Kept, TypeOK
  <2>6. ASSUME NEW done \in SUBSET Addresses, NEW saved \in SUBSET done, LoseApply(r, done, saved)
        PROVE Grows /\ \A q \in Runs : q # r => Kept(q)
    <3>1. \A q \in Runs : q # r => run[q].stage # "applying"
      BY <1>0, <2>6 DEF LoseApply
    <3> QED
      BY <2>6, <3>1 DEF LoseApply, Saved, Grows, Kept, TypeOK
  <2>7. UNCHANGED github
    BY <1>3 DEF ApplyRun, BindApply, Download, InitBackend, PlanMerged, BeginApply, EndApply,
                LoseApply, NoChange
  <2> QED
    BY <1>3, <2>1, <2>2, <2>3, <2>4, <2>5, <2>6, <2>7 DEF ApplyRun
<1>4. CASE Fail(r)
  BY <1>4 DEF Fail, Grows, Kept, TypeOK
<1>5. CASE LosePlan(r)
  <2>1. \A q \in Runs : run[q].stage # "applying"
    BY <1>0, <1>5, NoneIsNothing DEF LosePlan
  <2> QED
    BY <1>5, <2>1 DEF LosePlan, Grows, Kept, TypeOK
<1> QED
  BY <1>2, <1>3, <1>4, <1>5 DEF Workflow

\* A run that is left alone has the effect and the approval it had.
LEMMA SameRun ==
  ASSUME NEW q, run'[q] = run[q]
  PROVE  /\ Effect(q)' = Effect(q) /\ Approved(q)' = Approved(q) /\ Key(q)' = Key(q)
         /\ Creates(run[q].plan)' = Creates(run[q].plan)
         /\ Config(run[q].candidate)' = Config(run[q].candidate)
         /\ Verified(run[q].candidate, run[q].binding)' = Verified(run[q].candidate, run[q].binding)
<1>1. Effect(q)' = Effect(q) /\ Key(q)' = Key(q)
  BY DEF Effect, Key, Creates
<1>2. Material(run[q].plan, run[q].candidate)' = Material(run[q].plan, run[q].candidate)
  BY DEF Material, Alters, Creates, ExpectedCreates
<1> QED
  BY <1>1, <1>2 DEF Approved, Config, Verified, Creates

----------------------------------------------------------------------------
\* What a run relies on.

\* A run that is left alone keeps what it relies on.
LEMMA KeptInv ==
  ASSUME TypeOK, PrInv, NEW q \in Runs, BoundInv(q), PlanInv(q), ApplyInv(q), Grows, Kept(q)
  PROVE  BoundInv(q)' /\ PlanInv(q)' /\ ApplyInv(q)'
<1>1. run'[q] = run[q]
  BY DEF Kept
<1>2. /\ Effect(q)' = Effect(q) /\ Approved(q)' = Approved(q)
      /\ Creates(run[q].plan)' = Creates(run[q].plan)
      /\ Config(run[q].candidate)' = Config(run[q].candidate)
      /\ Verified(run[q].candidate, run[q].binding)' = Verified(run[q].candidate, run[q].binding)
  BY <1>1, SameRun
<1>3. BoundInv(q)'
  <2>1. run[q].pr # None => /\ run[q].pr \in PullRequests /\ run[q].head \in Shas
                            /\ candidateAt[run[q].head] # None
    BY Fields DEF BoundInv
  <2>2. run[q].pr # None => candidateAt'[run[q].head] = candidateAt[run[q].head]
    BY <2>1 DEF Grows
  <2>3. run[q].pr # None /\ run[q].kind = "apply" =>
          /\ pr'[run[q].pr] = pr[run[q].pr]
          /\ candidateAt'[pr[run[q].pr].merge] = candidateAt[pr[run[q].pr].merge]
    <3>1. ASSUME run[q].pr # None, run[q].kind = "apply"
          PROVE /\ pr'[run[q].pr] = pr[run[q].pr]
                /\ candidateAt'[pr[run[q].pr].merge] = candidateAt[pr[run[q].pr].merge]
      <4>1. run[q].pr \in PullRequests /\ pr[run[q].pr].status = "merged"
        BY <2>1, <3>1 DEF BoundInv
      <4>2. pr[run[q].pr].merge # None /\ candidateAt[pr[run[q].pr].merge] # None
        BY <4>1 DEF PrInv
      <4>3. pr[run[q].pr] \in PrStates
        BY <4>1 DEF TypeOK
      <4>4. pr[run[q].pr].merge \in Shas
        BY <4>2, <4>3 DEF PrStates
      <4> QED
        BY <4>1, <4>2, <4>4 DEF Grows
    <3> QED
      BY <3>1
  <2> QED
    BY <1>1, <1>2, <2>1, <2>2, <2>3 DEF BoundInv
<1>4. /\ state.version \in Nat /\ run[q].pulled.version \in Nat /\ run[q].plan.version \in Nat
      /\ run[q].generation \in Nat
  BY Fields DEF TypeOK, States, Plans
<1>5. state' = state \/ state'.version = state.version + 1
  BY DEF Grows
<1>6. PlanInv(q)'
  BY <1>1, <1>2, <1>4, <1>5 DEF PlanInv
<1>7. ApplyInv(q)'
  <2>1. ASSUME run[q].reviewed # None, evidence[run[q].object] = run[q].reviewed,
               run[q].kind = "apply", run[q].pr # None
        PROVE evidence'[run[q].object] = run[q].reviewed
    <3>1. run[q].object \in Keys
      BY <2>1, Fields DEF BoundInv
    <3> QED
      BY <2>1, <3>1 DEF Grows
  <2>2. run[q].stage \in {"read", "pulled", "planned", "applying"} \/ run[q].created # {} =>
          run[q].pr # None
    BY DEF BoundInv
  <2>3. run[q].stage = "applying" => lock' = lock /\ state' = state
    BY DEF Kept
  <2> QED
    BY <1>1, <1>2, <1>4, <1>5, <2>1, <2>2, <2>3 DEF ApplyInv
<1> QED
  BY <1>3, <1>6, <1>7

\* The state is empty when there is no object.
LEMMA PulledFacts ==
  ASSUME TypeOK, StateInv, NEW g \in 0..MaxVersion, g <= state.version
  PROVE  /\ Pulled(g).version <= state.version
         /\ Pulled(g).version = state.version => Pulled(g) = state
         /\ g = 0 <=> Pulled(g).version = 0
         /\ Pulled(g).version = 0 => Pulled(g) = NoState
         /\ Pulled(g).version \in Nat
<1>1. state \in States /\ state.version \in Nat
  BY DEF TypeOK, States
<1>2. NoState.version = 0 /\ NoState \in States /\ NoState.resources = Nothing
  BY NothingType
<1>3. state.version = 0 => state = NoState
  BY <1>1, <1>2 DEF StateInv, States
<1>4. g \in Nat
  OBVIOUS
<1> QED
  BY <1>1, <1>2, <1>3, <1>4 DEF Pulled

\* A run that goes on is bound to what it was bound to.
LEMMA BoundKept ==
  ASSUME NEW r \in Runs, BoundInv(r), run[r].pr # None, UNCHANGED github,
         \A f \in {"kind", "pr", "head", "base", "object", "candidate", "binding"} :
             run'[r][f] = run[r][f],
         run'[r].stage = "rechecked" => run[r].kind = "plan",
         run'[r].stage = "applying" => run[r].kind = "apply",
         run'[r].created # {} => /\ run[r].kind = "apply"
                                 /\ run'[r].stage \in {"applied", "partial", "done", "lost"},
         run'[r].saved \subseteq run'[r].created,
         run'[r].saved # run'[r].created => run'[r].stage = "lost"
  PROVE  /\ BoundInv(r)'
         /\ Config(run[r].candidate)' = Config(run[r].candidate)
<1>1. Verified(run[r].candidate, run[r].binding)' = Verified(run[r].candidate, run[r].binding)
  BY DEF Verified
<1>2. Config(run[r].candidate)' = Config(run[r].candidate)
  BY DEF Config
<1> QED
  BY <1>1, <1>2 DEF BoundInv, github

\* A plan run keeps what it relies on.
LEMMA PlanRunInv ==
  ASSUME TypeOK, StateInv, PrInv, NEW r \in Runs, BoundInv(r), PlanInv(r), ApplyInv(r),
         PlanRun(r)
  PROVE  BoundInv(r)' /\ PlanInv(r)' /\ ApplyInv(r)'
<1> USE DEF github, cloud
<1>0. /\ run[r] \in RunStates /\ state \in States /\ state.version \in Nat
      /\ run[r].generation \in 0..MaxVersion /\ run[r].generation \in Nat
      /\ run[r].pulled.version \in Nat /\ run[r].plan.version \in Nat
  BY Fields DEF TypeOK, States, Plans
<1>1. ASSUME NEW p \in PullRequests, BindPlan(r, p)
      PROVE BoundInv(r)' /\ PlanInv(r)' /\ ApplyInv(r)'
  <2> DEFINE c == candidateAt[pr[p].head]
             s == [NewRun EXCEPT !.stage = "bound", !.pr = p, !.head = pr[p].head,
                                 !.base = pr[p].base, !.candidate = c, !.binding = BindingOf(c)]
  <2>1. c \in Candidates /\ pr[p].head \in Shas /\ pr[p].base \in Shas
    BY <1>1, CandidateType DEF BindPlan
  <2>2. Verified(c, BindingOf(c))
    BY <1>1, <2>1, BindingType DEF BindPlan
  <2>3. run'[r] = s
    BY <1>1 DEF BindPlan, TypeOK
  <2>4. /\ s.stage = "bound" /\ s.kind = "plan" /\ s.pr = p /\ s.head = pr[p].head
        /\ s.base = pr[p].base /\ s.candidate = c /\ s.binding = BindingOf(c) /\ s.created = {} /\ s.saved = {}
    BY DEF NewRun
  <2>5. candidateAt' = candidateAt
    BY <1>1 DEF BindPlan
  <2> HIDE DEF s
  <2>6. Verified(run[r].candidate, run[r].binding)'
    BY <2>2, <2>3, <2>4 DEF Verified
  <2>7. p # None /\ pr[p].head # None /\ pr[p].base # None /\ c # None
    BY <2>1, NoneIsNothing
  <2>8. BoundInv(r)'
    BY <2>3, <2>4, <2>5, <2>6, <2>7 DEF BoundInv
  <2>9. PlanInv(r)'
    BY <2>3, <2>4 DEF PlanInv
  <2> QED
    BY <2>3, <2>4, <2>8, <2>9 DEF ApplyInv
<1>2. ASSUME ReadMetadata(r) PROVE BoundInv(r)' /\ PlanInv(r)' /\ ApplyInv(r)'
  <2>1. /\ run'[r] = [run[r] EXCEPT !.stage = "read", !.generation = state.version]
        /\ run[r].stage = "bound" /\ run[r].kind = "plan"
        /\ state' = state /\ pr' = pr /\ candidateAt' = candidateAt
    BY <1>2 DEF ReadMetadata, TypeOK
  <2>2. /\ run'[r].stage = "read" /\ run'[r].generation = state.version
        /\ \A f \in {"kind", "pr", "head", "base", "object", "candidate", "binding", "created", "saved"} :
              run'[r][f] = run[r][f]
    BY <1>0, <2>1 DEF RunStates
  <2>3. BoundInv(r)'
    BY <1>2, <2>1, <2>2, BoundKept DEF ReadMetadata, BoundInv
  <2>4. PlanInv(r)'
    BY <1>0, <2>1, <2>2 DEF PlanInv
  <2> QED
    BY <2>1, <2>2, <2>3, <2>4 DEF ApplyInv
<1>3. ASSUME PullState(r) PROVE BoundInv(r)' /\ PlanInv(r)' /\ ApplyInv(r)'
  <2> DEFINE g == run[r].generation
  <2>1. /\ run'[r] = [run[r] EXCEPT !.stage = "pulled", !.pulled = Pulled(g)]
        /\ run[r].stage = "read" /\ run[r].kind = "plan" /\ state' = state
    BY <1>3 DEF PullState, TypeOK
  <2>2. /\ run'[r].stage = "pulled" /\ run'[r].pulled = Pulled(g)
        /\ \A f \in {"kind", "pr", "head", "base", "object", "candidate", "binding", "created", "saved",
                     "generation"} : run'[r][f] = run[r][f]
    BY <1>0, <2>1 DEF RunStates
  <2>3. BoundInv(r)'
    BY <1>3, <2>1, <2>2, BoundKept DEF PullState, BoundInv
  <2>4. g <= state.version
    BY <2>1 DEF PlanInv
  <2>5. /\ Pulled(g).version <= state.version
        /\ Pulled(g).version = state.version => Pulled(g) = state
        /\ g = 0 <=> Pulled(g).version = 0
        /\ Pulled(g).version = 0 => Pulled(g) = NoState
    BY <1>0, <2>4, PulledFacts
  <2>6. PlanInv(r)'
    BY <2>1, <2>2, <2>5 DEF PlanInv
  <2> QED
    BY <2>1, <2>2, <2>3, <2>6 DEF ApplyInv
<1>4. ASSUME PlanCandidate(r) PROVE BoundInv(r)' /\ PlanInv(r)' /\ ApplyInv(r)'
  <2> DEFINE g == run[r].generation
             p == TakePlan(run[r].candidate, Pulled(g))
  <2>1. /\ run'[r] = [run[r] EXCEPT !.stage = "planned", !.plan = p]
        /\ run[r].stage = "pulled" /\ run[r].kind = "plan" /\ state' = state
    BY <1>4 DEF PlanCandidate, TypeOK
  <2>2. /\ run'[r].stage = "planned" /\ run'[r].plan = p
        /\ \A f \in {"kind", "pr", "head", "base", "object", "candidate", "binding", "created", "saved",
                     "generation", "pulled"} : run'[r][f] = run[r][f]
    BY <1>0, <2>1 DEF RunStates
  <2>3. BoundInv(r)' /\ Config(run[r].candidate)' = Config(run[r].candidate)
    BY <1>4, <2>1, <2>2, BoundKept DEF PlanCandidate, BoundInv
  <2>4. /\ p.version = Pulled(g).version /\ p.prior = Pulled(g).resources
        /\ p.target = Config(run[r].candidate)
    BY DEF TakePlan
  <2>5. /\ run[r].pulled.version <= state.version
        /\ run[r].pulled.version = state.version => run[r].pulled = state
        /\ g = 0 <=> run[r].pulled.version = 0
        /\ run[r].pulled.version = 0 => run[r].pulled = NoState
    BY <2>1 DEF PlanInv
  <2>6. /\ run[r].pulled.version <= p.version /\ p.version <= state.version
        /\ p.version = run[r].pulled.version => p.prior = run[r].pulled.resources
    <3>1. CASE g = 0
      BY <1>0, <2>4, <2>5, <3>1, NothingType DEF Pulled
    <3>2. CASE g # 0
      BY <1>0, <2>4, <2>5, <3>2 DEF Pulled
    <3> QED
      BY <3>1, <3>2
  <2> HIDE DEF p
  <2>7. PlanInv(r)'
    BY <2>1, <2>2, <2>3, <2>4, <2>5, <2>6 DEF PlanInv
  <2> QED
    BY <2>1, <2>2, <2>3, <2>7 DEF ApplyInv
<1>5. ASSUME Recheck(r) PROVE BoundInv(r)' /\ PlanInv(r)' /\ ApplyInv(r)'
  <2>1. /\ run'[r] = [run[r] EXCEPT !.stage = "rechecked"]
        /\ run[r].stage = "planned" /\ run[r].kind = "plan" /\ state' = state
        /\ state.version = run[r].generation /\ run[r].pulled = Pulled(state.version)
    BY <1>5 DEF Recheck, Unmoved, TypeOK
  <2>2. /\ run'[r].stage = "rechecked"
        /\ \A f \in {"kind", "pr", "head", "base", "object", "candidate", "binding", "created", "saved",
                     "generation", "pulled", "plan"} : run'[r][f] = run[r][f]
    BY <1>0, <2>1 DEF RunStates
  <2>3. BoundInv(r)' /\ Config(run[r].candidate)' = Config(run[r].candidate)
    BY <1>5, <2>1, <2>2, BoundKept DEF Recheck, BoundInv
  <2>4. run[r].pulled.version = state.version
    BY <2>1, NothingType DEF Pulled
  <2>5. run[r].plan.version = run[r].pulled.version
    BY <1>0, <2>1, <2>4 DEF PlanInv
  <2>6. run[r].plan.prior = run[r].pulled.resources
    BY <2>1, <2>5 DEF PlanInv
  <2>7. PlanInv(r)'
    BY <2>1, <2>2, <2>3, <2>4, <2>6 DEF PlanInv
  <2> QED
    BY <2>1, <2>2, <2>3, <2>7 DEF ApplyInv
<1>6. ASSUME Upload(r) PROVE BoundInv(r)' /\ PlanInv(r)' /\ ApplyInv(r)'
  <2>1. PICK end \in {"done", "failed"} : run' = [run EXCEPT ![r].stage = end]
    BY <1>6 DEF Upload
  <2>2. run[r].stage = "rechecked" /\ run[r].kind = "plan"
    BY <1>6 DEF Upload, BoundInv
  <2>3. /\ run'[r].stage = end
        /\ \A f \in {"kind", "pr", "head", "base", "object", "candidate", "binding", "created", "saved",
                     "generation", "pulled", "plan"} : run'[r][f] = run[r][f]
    BY <1>0, <2>1 DEF RunStates, TypeOK
  <2>4. BoundInv(r)'
    BY <1>6, <2>1, <2>2, <2>3, BoundKept DEF Upload, BoundInv
  <2>5. PlanInv(r)'
    BY <2>1, <2>3 DEF PlanInv
  <2> QED
    BY <2>2, <2>3, <2>4, <2>5 DEF ApplyInv
<1> QED
  BY <1>1, <1>2, <1>3, <1>4, <1>5, <1>6 DEF PlanRun

\* A run with the same plan and the same review has the same approval.
LEMMA SameApproval ==
  ASSUME NEW r,
         \A f \in {"pr", "head", "base", "candidate", "binding", "generation", "pulled", "plan",
                   "reviewed"} : run'[r][f] = run[r][f]
  PROVE  /\ Approved(r)' = Approved(r) /\ Effect(r)' = Effect(r)
         /\ Creates(run[r].plan)' = Creates(run[r].plan)
<1>1. /\ run'[r].pr = run[r].pr /\ run'[r].head = run[r].head /\ run'[r].base = run[r].base
      /\ run'[r].candidate = run[r].candidate /\ run'[r].binding = run[r].binding
      /\ run'[r].generation = run[r].generation /\ run'[r].pulled = run[r].pulled
      /\ run'[r].plan = run[r].plan /\ run'[r].reviewed = run[r].reviewed
  OBVIOUS
<1>2. Effect(r)' = Effect(r) /\ Creates(run[r].plan)' = Creates(run[r].plan)
  BY <1>1 DEF Effect, Creates
<1>3. Material(run[r].plan, run[r].candidate)' = Material(run[r].plan, run[r].candidate)
  BY <1>1 DEF Material, Alters, Creates, ExpectedCreates
<1> QED
  BY <1>1, <1>2, <1>3 DEF Approved

\* What an apply of an approved plan does: it creates, and nothing else.
LEMMA ApprovedCreates ==
  ASSUME NEW r, Approved(r)
  PROVE  /\ Alters(run[r].plan) = {}
         /\ Creates(run[r].plan) \cup Alters(run[r].plan) = Creates(run[r].plan)
<1> QED
  BY DEF Approved, Material

\* An apply run keeps what it relies on.
LEMMA ApplyRunInv ==
  ASSUME TypeOK, PrInv, NEW r \in Runs, BoundInv(r), PlanInv(r), ApplyInv(r), ApplyRun(r)
  PROVE  BoundInv(r)' /\ PlanInv(r)' /\ ApplyInv(r)'
<1> USE DEF github, cloud
<1>0. /\ run[r] \in RunStates /\ state \in States /\ state.version \in Nat
      /\ run[r].plan.version \in Nat
  BY Fields DEF TypeOK, States, Plans
<1>1. ASSUME NEW p \in PullRequests, NEW k \in Keys, BindApply(r, p, k)
      PROVE BoundInv(r)' /\ PlanInv(r)' /\ ApplyInv(r)'
  <2> DEFINE c == candidateAt[main]
             s == [NewRun EXCEPT !.stage = "bound", !.kind = "apply", !.pr = p,
                                 !.head = pr[p].head, !.base = pr[p].base, !.object = k,
                                 !.candidate = c, !.binding = BindingOf(c)]
  <2>1. c \in Candidates /\ pr[p].head \in Shas /\ pr[p].base \in Shas
    BY <1>1, CandidateType DEF BindApply
  <2>2. Verified(c, BindingOf(c))
    BY <1>1, <2>1, BindingType DEF BindApply
  <2>3. run'[r] = s
    BY <1>1 DEF BindApply, TypeOK
  <2>4. /\ s.stage = "bound" /\ s.kind = "apply" /\ s.pr = p /\ s.head = pr[p].head
        /\ s.base = pr[p].base /\ s.object = k /\ s.candidate = c
        /\ s.binding = BindingOf(c) /\ s.created = {} /\ s.saved = {}
    BY DEF NewRun
  <2>5. /\ candidateAt' = candidateAt /\ pr' = pr
        /\ pr[p].status = "merged" /\ pr[p].merge = main /\ candidateAt[pr[p].head] = c
    BY <1>1 DEF BindApply, SameCandidate
  <2> HIDE DEF s
  <2>6. Verified(run[r].candidate, run[r].binding)'
    BY <2>2, <2>3, <2>4 DEF Verified
  <2>7. p # None /\ pr[p].head # None /\ pr[p].base # None /\ c # None /\ k # None
    BY <2>1, NoneIsNothing
  <2>8. BoundInv(r)'
    BY <2>3, <2>4, <2>5, <2>6, <2>7 DEF BoundInv
  <2> QED
    BY <2>3, <2>4, <2>8 DEF PlanInv, ApplyInv
<1>2. ASSUME Download(r) PROVE BoundInv(r)' /\ PlanInv(r)' /\ ApplyInv(r)'
  <2>1. /\ run'[r] = [run[r] EXCEPT !.stage = "read", !.reviewed = evidence[run[r].object],
                                    !.generation = state.version]
        /\ run[r].stage = "bound" /\ run[r].kind = "apply"
        /\ evidence[run[r].object] # None /\ evidence' = evidence
    BY <1>2 DEF Download, TypeOK
  <2>2. /\ run'[r].stage = "read" /\ run'[r].reviewed = evidence[run[r].object]
        /\ \A f \in {"kind", "pr", "head", "base", "object", "candidate", "binding", "created", "saved"} :
              run'[r][f] = run[r][f]
    BY <1>0, <2>1 DEF RunStates
  <2>3. /\ run[r].pr # None /\ UNCHANGED github
        /\ run'[r].created = {} /\ run'[r].saved = {}
    BY <1>2, <2>1, <2>2 DEF Download, BoundInv
  <2>4. BoundInv(r)'
    BY <2>2, <2>3, BoundKept
  <2> QED
    BY <2>1, <2>2, <2>3, <2>4 DEF PlanInv, ApplyInv
<1>3. ASSUME InitBackend(r) PROVE BoundInv(r)' /\ PlanInv(r)' /\ ApplyInv(r)'
  <2> DEFINE pulled == IF run[r].generation = 0 THEN NoState ELSE state
  <2>1. /\ run'[r] = [run[r] EXCEPT !.stage = "pulled", !.pulled = pulled]
        /\ run[r].stage = "read" /\ run[r].kind = "apply" /\ evidence' = evidence
    BY <1>3 DEF InitBackend, TypeOK
  <2> HIDE DEF pulled
  <2>2. /\ run'[r].stage = "pulled"
        /\ \A f \in {"kind", "pr", "head", "base", "object", "candidate", "binding", "created", "saved",
                     "reviewed"} : run'[r][f] = run[r][f]
    BY <1>0, <2>1 DEF RunStates
  <2>3. /\ run[r].pr # None /\ UNCHANGED github
        /\ run'[r].created = {} /\ run'[r].saved = {}
    BY <1>3, <2>1, <2>2 DEF InitBackend, BoundInv
  <2>4. BoundInv(r)'
    BY <2>2, <2>3, BoundKept
  <2> QED
    BY <2>1, <2>2, <2>3, <2>4 DEF PlanInv, ApplyInv
<1>4. ASSUME PlanMerged(r) PROVE BoundInv(r)' /\ PlanInv(r)' /\ ApplyInv(r)'
  <2> DEFINE p == TakePlan(run[r].candidate, state)
  <2>1. /\ run'[r] = [run[r] EXCEPT !.stage = "planned", !.plan = p]
        /\ run[r].stage = "pulled" /\ run[r].kind = "apply"
        /\ evidence' = evidence /\ state' = state
    BY <1>4 DEF PlanMerged, TypeOK
  <2>2. /\ p.version = state.version /\ p.prior = state.resources
        /\ p.target = Config(run[r].candidate)
    BY DEF TakePlan
  <2> HIDE DEF p
  <2>3. /\ run'[r].stage = "planned" /\ run'[r].plan = p
        /\ \A f \in {"kind", "pr", "head", "base", "object", "candidate", "binding", "created", "saved",
                     "reviewed"} : run'[r][f] = run[r][f]
    BY <1>0, <2>1 DEF RunStates
  <2>4. /\ run[r].pr # None /\ UNCHANGED github
        /\ run'[r].created = {} /\ run'[r].saved = {}
    BY <1>4, <2>1, <2>3 DEF PlanMerged, BoundInv
  <2>5. BoundInv(r)' /\ Config(run[r].candidate)' = Config(run[r].candidate)
    BY <2>3, <2>4, BoundKept
  <2> QED
    BY <1>0, <2>1, <2>2, <2>3, <2>4, <2>5 DEF PlanInv, ApplyInv
<1>5. ASSUME BeginApply(r) PROVE BoundInv(r)' /\ PlanInv(r)' /\ ApplyInv(r)'
  <2>1. /\ run' = [run EXCEPT ![r] = [run[r] EXCEPT !.stage = "applying", !.plan = run[r].plan]]
        /\ run[r].stage = "planned" /\ run[r].kind = "apply" /\ lock' = r
        /\ evidence' = evidence /\ state' = state /\ run[r].plan.version = state.version
    BY <1>5 DEF BeginApply, PlanToApply, TypeOK
  <2>2. /\ run'[r].stage = "applying"
        /\ \A f \in {"kind", "pr", "head", "base", "object", "candidate", "binding", "generation",
                     "pulled", "plan", "reviewed", "created", "saved"} : run'[r][f] = run[r][f]
    BY <1>0, <2>1 DEF RunStates, TypeOK
  <2>3. run[r].created = {} /\ run[r].saved = {}
    BY <2>1 DEF BoundInv
  <2>4. BoundInv(r)' /\ Config(run[r].candidate)' = Config(run[r].candidate)
    BY <1>5, <2>1, <2>2, <2>3, BoundKept DEF BeginApply, BoundInv
  <2>5. Approved(r)
    BY <1>5 DEF BeginApply, Reviewed, Approved
  <2>6. Approved(r)'
    BY <2>2, <2>5, SameApproval
  <2>7. run[r].plan.prior = state.resources
    BY <1>0, <2>1 DEF ApplyInv
  <2> QED
    BY <2>1, <2>2, <2>3, <2>4, <2>6, <2>7 DEF PlanInv, ApplyInv
<1>6. ASSUME NEW done \in SUBSET Addresses, NEW end \in {"applied", "partial", "lost"},
             NEW saved \in SUBSET done, saved # done => end = "lost",
             run[r].stage = "applying", Succeeds(run[r].plan, done), UNCHANGED <<github, evidence>>,
             run' = [run EXCEPT ![r] = [run[r] EXCEPT !.created = done, !.saved = saved,
                                                      !.stage = end]]
      PROVE BoundInv(r)' /\ PlanInv(r)' /\ ApplyInv(r)'
  <2>1. run[r].kind = "apply" /\ run[r].pr # None
    BY <1>6 DEF BoundInv
  <2>2. Approved(r) /\ run[r].reviewed # None /\ evidence[run[r].object] = run[r].reviewed
        /\ run[r].plan.target = Config(run[r].candidate)
    BY <1>6, <2>1 DEF ApplyInv
  <2>3. /\ run'[r].stage = end /\ run'[r].created = done /\ run'[r].saved = saved
        /\ \A f \in {"kind", "pr", "head", "base", "object", "candidate", "binding", "generation",
                     "pulled", "plan", "reviewed"} : run'[r][f] = run[r][f]
    BY <1>0, <1>6 DEF RunStates, TypeOK
  <2>4. BoundInv(r)' /\ Config(run[r].candidate)' = Config(run[r].candidate)
    BY <1>6, <2>1, <2>3, BoundKept
  <2>5. Approved(r)' /\ Creates(run[r].plan)' = Creates(run[r].plan)
    BY <2>2, <2>3, SameApproval
  <2>6. done \subseteq Creates(run[r].plan)
    BY <1>6, <2>2, ApprovedCreates DEF Succeeds
  <2> QED
    BY <1>6, <2>1, <2>2, <2>3, <2>4, <2>5, <2>6 DEF PlanInv, ApplyInv
<1>7. ASSUME NEW done \in SUBSET Addresses, EndApply(r, done)
      PROVE BoundInv(r)' /\ PlanInv(r)' /\ ApplyInv(r)'
  <2>1. CASE done = Creates(run[r].plan) \cup Alters(run[r].plan)
    <3>1. run' = [run EXCEPT ![r] = [run[r] EXCEPT !.created = done, !.saved = done,
                                                       !.stage = "applied"]]
      BY <1>7, <2>1 DEF EndApply, TypeOK
    <3> QED
      BY <1>6, <1>7, <3>1 DEF EndApply
  <2>2. CASE done # Creates(run[r].plan) \cup Alters(run[r].plan)
    <3>1. run' = [run EXCEPT ![r] = [run[r] EXCEPT !.created = done, !.saved = done,
                                                       !.stage = "partial"]]
      BY <1>7, <2>2 DEF EndApply, TypeOK
    <3> QED
      BY <1>6, <1>7, <3>1 DEF EndApply
  <2> QED
    BY <2>1, <2>2
<1>8. ASSUME NEW done \in SUBSET Addresses, NEW saved \in SUBSET done, LoseApply(r, done, saved)
      PROVE BoundInv(r)' /\ PlanInv(r)' /\ ApplyInv(r)'
  <2>1. run' = [run EXCEPT ![r] = [run[r] EXCEPT !.created = done, !.saved = saved,
                                                     !.stage = "lost"]]
    BY <1>8 DEF LoseApply, TypeOK
  <2> QED
    BY <1>6, <1>8, <2>1 DEF LoseApply
<1>9. ASSUME NoChange(r) PROVE BoundInv(r)' /\ PlanInv(r)' /\ ApplyInv(r)'
  <2>1. /\ run'[r] = [run[r] EXCEPT !.stage = "done"] /\ run[r].stage = "applied"
        /\ evidence' = evidence
    BY <1>9 DEF NoChange, TypeOK
  <2>2. /\ run'[r].stage = "done"
        /\ \A f \in {"kind", "pr", "head", "base", "object", "candidate", "binding", "generation",
                     "pulled", "plan", "reviewed", "created", "saved"} : run'[r][f] = run[r][f]
    BY <1>0, <2>1 DEF RunStates
  <2>3. BoundInv(r)' /\ Config(run[r].candidate)' = Config(run[r].candidate)
    BY <1>9, <2>1, <2>2, BoundKept DEF NoChange, BoundInv
  <2>4. Approved(r)' = Approved(r) /\ Creates(run[r].plan)' = Creates(run[r].plan)
    BY <2>2, SameApproval
  <2> QED
    BY <2>1, <2>2, <2>3, <2>4 DEF PlanInv, ApplyInv
<1> QED
  BY <1>1, <1>2, <1>3, <1>4, <1>5, <1>7, <1>8, <1>9 DEF ApplyRun

\* A step keeps what every run relies on.
LEMMA StepRunInv ==
  ASSUME TypeOK, StateInv, PrInv, RunInv, Next
  PROVE  RunInv' /\ Grows
<1>1. CASE Repository
  <2>1. Grows /\ \A q \in Runs : Kept(q)
    BY <1>1, RepositoryGrows DEF Kept, cloud
  <2> QED
    BY <2>1, KeptInv DEF RunInv
<1>2. CASE ByHand
  <2>1. Grows /\ \A q \in Runs : Kept(q)
    BY <1>2, ByHandGrows
  <2> QED
    BY <2>1, KeptInv DEF RunInv
<1>3. ASSUME NEW r \in Runs, Workflow(r) PROVE RunInv' /\ Grows
  <2>1. Grows /\ \A q \in Runs : q # r => Kept(q)
    BY <1>3, WorkflowGrows
  <2>2. \A q \in Runs : q # r => BoundInv(q)' /\ PlanInv(q)' /\ ApplyInv(q)'
    BY <2>1, KeptInv DEF RunInv
  <2>3. BoundInv(r) /\ PlanInv(r) /\ ApplyInv(r)
    BY DEF RunInv
  <2>4. ASSUME Fail(r) \/ LosePlan(r) PROVE BoundInv(r)' /\ PlanInv(r)' /\ ApplyInv(r)'
    <3>1. PICK s \in {"failed", "lost"} : run' = [run EXCEPT ![r] = [NewRun EXCEPT !.stage = s]]
      BY <2>4 DEF Fail, LosePlan
    <3>2. run'[r] = [NewRun EXCEPT !.stage = s]
      BY <3>1 DEF TypeOK
    <3>3. /\ run'[r].stage = s /\ run'[r].kind = "plan" /\ run'[r].pr = None
          /\ run'[r].created = {} /\ run'[r].saved = {}
      BY <3>2 DEF NewRun
    <3> QED
      BY <3>3 DEF BoundInv, PlanInv, ApplyInv
  <2>5. BoundInv(r)' /\ PlanInv(r)' /\ ApplyInv(r)'
    BY <1>3, <2>3, <2>4, PlanRunInv, ApplyRunInv DEF Workflow
  <2> QED
    BY <2>1, <2>2, <2>5 DEF RunInv
<1> QED
  BY <1>1, <1>2, <1>3 DEF Next

----------------------------------------------------------------------------
\* The repository, the state and the evidence.

\* There is no state object without a first version.
LEMMA StepState == ASSUME TypeOK, StateInv, Grows PROVE StateInv'
<1>1. state.version \in Nat
  BY DEF TypeOK, States
<1> QED
  BY <1>1 DEF Grows, StateInv

\* Every commit that a pull request or main names is there.
LEMMA StepPr == ASSUME TypeOK, PrInv, RunInv, Next PROVE PrInv'
<1>1. CASE Repository
  <2>1. Grows /\ \A p \in PullRequests : pr[p] \in PrStates
    BY <1>1, RepositoryGrows DEF TypeOK
  <2>2. \A p \in PullRequests : pr[p].head \in Shas \cup {None} /\ pr[p].merge \in Shas \cup {None}
    BY <2>1 DEF PrStates
  <2>3. main \in Shas /\ None \notin Shas /\ None \notin Candidates
    BY NoneIsNothing DEF TypeOK
  <2>4. ASSUME NEW p \in PullRequests
        PROVE /\ pr[p].status # "none" => candidateAt'[pr[p].head] # None
              /\ pr[p].status = "merged" => candidateAt'[pr[p].merge] # None
    BY <2>1, <2>2 DEF Grows, PrInv
  <2>5. candidateAt'[main] # None
    BY <2>1, <2>3 DEF Grows, PrInv
  <2>6. ASSUME NEW s \in Shas, NEW p \in PullRequests, NEW c \in Candidates, Open(p, s, c)
        PROVE PrInv'
    <3>1. candidateAt'[s] = c /\ c # None /\ s # None /\ main' = main
      BY <2>3, <2>6 DEF Open, Commit, TypeOK
    <3>2. pr' = [pr EXCEPT ![p] = [status |-> "open", head |-> s, base |-> main, merge |-> None]]
      BY <2>6 DEF Open
    <3> QED
      BY <2>3, <2>4, <2>5, <3>1, <3>2 DEF PrInv, TypeOK
  <2>7. ASSUME NEW s \in Shas, NEW p \in PullRequests, NEW c \in Candidates, PushHead(p, s, c)
        PROVE PrInv'
    <3>1. PICK base \in {pr[p].base, main} :
            pr' = [pr EXCEPT ![p] = [pr[p] EXCEPT !.head = s, !.base = base]]
      BY <2>7 DEF PushHead, TypeOK
    <3>2. /\ candidateAt'[s] = c /\ c # None /\ s # None /\ main' = main /\ base # None
          /\ pr[p].status = "open"
      BY <2>3, <2>7, <3>1 DEF PushHead, Commit, TypeOK, PrInv
    <3>3. /\ pr'[p].status = "open" /\ pr'[p].head = s /\ pr'[p].base = base
          /\ \A x \in PullRequests : x # p => pr'[x] = pr[x]
      BY <2>1, <3>1, <3>2 DEF PrStates, TypeOK
    <3> QED
      BY <2>4, <2>5, <3>2, <3>3 DEF PrInv
  <2>8. ASSUME NEW s \in Shas, NEW p \in PullRequests, Merge(p, s) PROVE PrInv'
    <3>1. PICK c \in {candidateAt[pr[p].head], candidateAt[main]} : Commit(s, c)
      BY <2>8 DEF Merge
    <3>2. /\ candidateAt'[s] = c /\ c # None /\ s # None /\ main' = s /\ pr[p].status = "open"
      BY <2>3, <2>8, <3>1 DEF Merge, Commit, TypeOK, PrInv
    <3>3. /\ pr'[p].status = "merged" /\ pr'[p].head = pr[p].head /\ pr'[p].base = pr[p].base
          /\ pr'[p].merge = s
          /\ \A x \in PullRequests : x # p => pr'[x] = pr[x]
      BY <2>1, <2>8 DEF Merge, PrStates, TypeOK
    <3> QED
      BY <2>4, <3>2, <3>3 DEF PrInv
  <2>9. ASSUME NEW s \in Shas, MainMoves(s) PROVE PrInv'
    <3>1. candidateAt'[s] # None /\ main' = s /\ pr' = pr
      BY <2>3, <2>9 DEF MainMoves, Commit, TypeOK, PrInv
    <3> QED
      BY <2>4, <3>1 DEF PrInv
  <2>10. ASSUME NEW c \in Comments, NEW b \in Bindings \cup {None}, CommentChanges(c, b)
         PROVE PrInv'
    BY <2>10 DEF CommentChanges, PrInv
  <2> QED
    BY <1>1, <2>6, <2>7, <2>8, <2>9, <2>10 DEF Repository
<1>2. CASE ByHand
  BY <1>2, ByHandGrows DEF github, PrInv
<1>3. ASSUME NEW r \in Runs, Workflow(r) PROVE PrInv'
  BY <1>3, WorkflowGrows DEF github, PrInv
<1> QED
  BY <1>1, <1>2, <1>3 DEF Next

\* Evidence is written by the upload of a plan run only.
LEMMA EvidenceSteps ==
  ASSUME TypeOK, RunInv, Next
  PROVE  evidence' = evidence \/ \E r \in Runs : Upload(r)
<1>1. CASE Repository
  BY <1>1, RepositoryGrows
<1>2. CASE ByHand
  BY <1>2, ByHandGrows
<1>3. ASSUME NEW r \in Runs, Workflow(r) PROVE evidence' = evidence \/ Upload(r)
  BY <1>3 DEF Workflow, PlanRun, ApplyRun, BindPlan, ReadMetadata, PullState, PlanCandidate,
              Recheck, BindApply, Download, InitBackend, PlanMerged, BeginApply, EndApply,
              LoseApply, NoChange, Fail, LosePlan
<1> QED
  BY <1>1, <1>2, <1>3 DEF Next

\* Evidence records one material plan, made against one state.
LEMMA StepEvidence ==
  ASSUME TypeOK, PrInv, RunInv, EvidenceInv, EvidenceIsConsistent, Grows, Next
  PROVE  EvidenceInv' /\ EvidenceIsConsistent'
<1>0. ASSUME NEW k \in Keys, evidence[k] # None
      PROVE candidateAt'[evidence[k].head] = candidateAt[evidence[k].head]
  <2>1. evidence[k] \in Effects
    BY <1>0 DEF TypeOK
  <2>2. evidence[k].head \in Shas /\ evidence[k].candidate \in Candidates
    BY <2>1 DEF Effects
  <2>3. evidence[k].candidate = candidateAt[evidence[k].head]
    BY <1>0 DEF EvidenceInv
  <2> QED
    BY <2>2, <2>3, NoneIsNothing DEF Grows
<1>1. CASE evidence' = evidence
  <2>1. EvidenceIsConsistent'
    BY <1>1 DEF EvidenceIsConsistent, Config
  <2>2. EvidenceInv'
    BY <1>0, <1>1 DEF EvidenceInv, Verified, ExpectedCreates, Config
  <2> QED
    BY <2>1, <2>2
<1>2. ASSUME NEW r \in Runs, Upload(r) PROVE EvidenceInv' /\ EvidenceIsConsistent'
  <2> DEFINE e == Effect(r)
             p == run[r].plan
  <2>1. /\ run[r].stage = "rechecked" /\ run[r].kind = "plan" /\ run[r].pr # None
        /\ BoundInv(r) /\ PlanInv(r)
    BY <1>2 DEF Upload, RunInv, BoundInv
  <2>2. Key(r) \in Keys /\ e \in Effects
    BY <2>1, EffectType
  <2>3. /\ evidence' = [evidence EXCEPT ![Key(r)] = e] /\ candidateAt' = candidateAt
        /\ Material(p, run[r].candidate)
    BY <1>2 DEF Upload, github
  <2>4. /\ e.pr = run[r].pr /\ e.head = run[r].head /\ e.candidate = run[r].candidate
        /\ e.binding = run[r].binding /\ e.generation = run[r].generation
        /\ e.pulled = run[r].pulled /\ e.creates = Creates(p)
    BY DEF Effect
  <2> HIDE DEF e
  <2>5. /\ run[r].generation = run[r].pulled.version /\ p.prior = run[r].pulled.resources
        /\ p.target = Config(run[r].candidate)
    BY <2>1 DEF PlanInv
  <2>6. /\ run[r].candidate = candidateAt[run[r].head]
        /\ Verified(run[r].candidate, run[r].binding)
    BY <2>1 DEF BoundInv
  <2>7. /\ e.generation = e.pulled.version
        /\ e.creates = {a \in Addresses : /\ Config(e.candidate)[a] # None
                                          /\ e.pulled.resources[a] = None}
    BY <2>4, <2>5 DEF Creates
  <2>8. /\ Key(r) = <<e.pr, e.head>>
        /\ e.candidate = candidateAt[e.head]
        /\ Verified(e.candidate, e.binding)
        /\ e.creates = ExpectedCreates(e.candidate)
        /\ \A a \in Addresses : e.pulled.resources[a] # None =>
               e.pulled.resources[a] = Config(e.candidate)[a]
    <3>1. \A a \in Addresses : p.prior[a] # None => p.target[a] = p.prior[a]
      BY <2>3 DEF Material, Alters
    <3>2. \A a \in Addresses : e.pulled.resources[a] # None =>
               e.pulled.resources[a] = Config(e.candidate)[a]
      BY <2>4, <2>5, <3>1
    <3>3. e.creates = ExpectedCreates(e.candidate)
      BY <2>3, <2>4 DEF Material
    <3> QED
      BY <2>4, <2>6, <3>2, <3>3 DEF Key
  <2>9. \A k \in Keys : evidence'[k] = IF k = Key(r) THEN e ELSE evidence[k]
    BY <2>2, <2>3 DEF TypeOK
  <2>10. ASSUME NEW k \in Keys, evidence'[k] # None
         PROVE /\ evidence'[k].generation = evidence'[k].pulled.version
               /\ evidence'[k].creates =
                      {a \in Addresses : /\ Config(evidence'[k].candidate)[a] # None
                                         /\ evidence'[k].pulled.resources[a] = None}
               /\ k = <<evidence'[k].pr, evidence'[k].head>>
               /\ evidence'[k].candidate = candidateAt'[evidence'[k].head]
               /\ Verified(evidence'[k].candidate, evidence'[k].binding)
               /\ evidence'[k].creates = ExpectedCreates(evidence'[k].candidate)
               /\ \A a \in Addresses : evidence'[k].pulled.resources[a] # None =>
                      evidence'[k].pulled.resources[a] = Config(evidence'[k].candidate)[a]
    <3>1. CASE k = Key(r)
      <4>1. evidence'[k] = e
        BY <2>9, <3>1
      <4> QED
        BY <2>3, <2>7, <2>8, <3>1, <4>1
    <3>2. CASE k # Key(r)
      <4>1. evidence'[k] = evidence[k]
        BY <2>9, <3>2
      <4> QED
        BY <2>3, <2>10, <4>1 DEF EvidenceInv, EvidenceIsConsistent
    <3> QED
      BY <3>1, <3>2
  <2>11. EvidenceIsConsistent'
    BY <2>10 DEF EvidenceIsConsistent, Config
  <2>12. EvidenceInv'
    BY <2>10 DEF EvidenceInv, Verified, ExpectedCreates, Config
  <2> QED
    BY <2>11, <2>12
<1> QED
  BY <1>1, <1>2, EvidenceSteps

----------------------------------------------------------------------------
\* What runs have applied.

\* What an apply of an approved plan changes was not there before.
LEMMA SavedResources ==
  ASSUME NEW r, Approved(r), NEW done, Succeeds(run[r].plan, done), TypeOK
  PROVE  /\ done \subseteq Creates(run[r].plan)
         /\ \A a \in Addresses : state.resources[a] # None =>
                \A saved \in SUBSET done : Saved(run[r].plan, saved).resources[a] # None
         /\ \A saved \in SUBSET done : \A a \in saved :
                Saved(run[r].plan, saved).resources[a] # None
         /\ \A a \in Addresses : live[a] # None => Changes(run[r].plan, done, live)[a] = live[a]
<1>1. done \subseteq Creates(run[r].plan)
  BY ApprovedCreates DEF Succeeds
<1>2. \A a \in done : a \in Addresses /\ run[r].plan.target[a] # None
  BY <1>1 DEF Creates
<1>3. ASSUME NEW saved \in SUBSET done, NEW a \in Addresses
      PROVE Saved(run[r].plan, saved).resources[a] =
                IF a \in saved THEN run[r].plan.target[a] ELSE state.resources[a]
  BY <1>3 DEF Saved, Changes
<1>4. \A a \in done : live[a] \in {None, run[r].plan.target[a]}
  BY <1>1 DEF Succeeds
<1> QED
  BY <1>1, <1>2, <1>3, <1>4 DEF Changes

\* Without changes by hand no resource leaves the state.
LEMMA StateKept ==
  ASSUME TypeOK, RunInv, Editable = {}, Next
  PROVE  \A a \in Addresses : state.resources[a] # None => state'.resources[a] # None
<1>1. CASE Repository
  BY <1>1, RepositoryGrows DEF cloud
<1>2. CASE ByHand
  BY <1>2, ByHandGrows
<1>3. ASSUME NEW r \in Runs, Workflow(r)
      PROVE \A a \in Addresses : state.resources[a] # None => state'.resources[a] # None
  <2>1. CASE InitBackend(r)
    BY <2>1 DEF InitBackend, TypeOK, States
  <2>2. ASSUME run[r].stage = "applying" PROVE Approved(r)
    BY <2>2 DEF RunInv, BoundInv, ApplyInv
  <2>3. ASSUME NEW done \in SUBSET Addresses, EndApply(r, done)
        PROVE \A a \in Addresses : state.resources[a] # None => state'.resources[a] # None
    <3>1. Approved(r) /\ Succeeds(run[r].plan, done) /\ state' = Saved(run[r].plan, done)
      BY <2>2, <2>3 DEF EndApply
    <3>2. done \in SUBSET done
      OBVIOUS
    <3> QED
      BY <3>1, <3>2, SavedResources
  <2>4. ASSUME NEW done \in SUBSET Addresses, NEW saved \in SUBSET done, LoseApply(r, done, saved)
        PROVE \A a \in Addresses : state.resources[a] # None => state'.resources[a] # None
    <3>1. Approved(r) /\ Succeeds(run[r].plan, done) /\ state' = Saved(run[r].plan, saved)
      BY <2>2, <2>4 DEF LoseApply
    <3> QED
      BY <3>1, SavedResources
  <2>5. ASSUME \/ PlanRun(r) \/ \E p \in PullRequests, k \in Keys : BindApply(r, p, k)
               \/ Download(r) \/ PlanMerged(r) \/ BeginApply(r) \/ NoChange(r)
               \/ Fail(r) \/ LosePlan(r)
        PROVE state' = state
    BY <2>5 DEF PlanRun, BindPlan, ReadMetadata, PullState, PlanCandidate, Recheck, Upload,
                BindApply, Download, PlanMerged, BeginApply, NoChange, Fail, LosePlan, cloud
  <2> QED
    BY <1>3, <2>1, <2>3, <2>4, <2>5 DEF Workflow, ApplyRun
<1> QED
  BY <1>1, <1>2, <1>3 DEF Next

\* A run has saved something because it had, or because its apply now ends
\* or is lost.
LEMMA SavedStep ==
  ASSUME TypeOK, RunInv, Next, NEW q \in Runs
  PROVE  \/ run'[q].saved = {}
         \/ run'[q].saved = run[q].saved /\ (run[q].saved # {} => Key(q)' = Key(q))
         \/ /\ run[q].stage = "applying" /\ lock = q /\ Approved(q) /\ Key(q)' = Key(q)
            /\ \E done \in SUBSET Addresses : \E saved \in SUBSET done :
                  /\ Succeeds(run[q].plan, done)
                  /\ state' = Saved(run[q].plan, saved)
                  /\ run'[q].saved = saved
<1> DEFINE Same == run'[q].saved = run[q].saved /\ (run[q].saved # {} => Key(q)' = Key(q))
           Ends == /\ run[q].stage = "applying" /\ lock = q /\ Approved(q) /\ Key(q)' = Key(q)
                   /\ \E done \in SUBSET Addresses : \E saved \in SUBSET done :
                         /\ Succeeds(run[q].plan, done)
                         /\ state' = Saved(run[q].plan, saved)
                         /\ run'[q].saved = saved
<1> SUFFICES run'[q].saved = {} \/ Same \/ Ends
  OBVIOUS
<1>0. ASSUME run'[q] = run[q] PROVE Same
  BY <1>0 DEF Key
<1>1. CASE Repository
  BY <1>0, <1>1, RepositoryGrows
<1>2. CASE ByHand
  BY <1>0, <1>2, ByHandGrows
<1>3. ASSUME NEW r \in Runs, Workflow(r), r # q PROVE Same
  BY <1>0, <1>3, WorkflowGrows DEF Kept
<1>4. ASSUME Workflow(q) PROVE run'[q].saved = {} \/ Same \/ Ends
  <2>0. run[q] \in RunStates
    BY Fields
  <2>1. ASSUME run[q].stage = "applying" PROVE lock = q /\ Approved(q)
    BY <2>1 DEF RunInv, BoundInv, ApplyInv
  <2>2. ASSUME NEW done \in SUBSET Addresses, EndApply(q, done) PROVE Ends
    <3>1. run'[q].saved = done /\ Key(q)' = Key(q)
      BY <2>0, <2>2 DEF EndApply, Key, TypeOK, RunStates
    <3> QED
      BY <2>1, <2>2, <3>1 DEF EndApply
  <2>3. ASSUME NEW done \in SUBSET Addresses, NEW saved \in SUBSET done, LoseApply(q, done, saved)
        PROVE Ends
    <3>1. run'[q].saved = saved /\ Key(q)' = Key(q)
      BY <2>0, <2>3 DEF LoseApply, Key, TypeOK, RunStates
    <3> QED
      BY <2>1, <2>3, <3>1 DEF LoseApply
  <2>4. ASSUME NEW p \in PullRequests, BindPlan(q, p) \/ \E k \in Keys : BindApply(q, p, k)
        PROVE run'[q].saved = {}
    BY <2>4 DEF BindPlan, BindApply, NewRun, TypeOK
  <2>5. ASSUME Fail(q) \/ LosePlan(q) PROVE run'[q].saved = {}
    BY <2>5 DEF Fail, LosePlan, NewRun, TypeOK
  <2>6. ASSUME ReadMetadata(q) \/ PullState(q) \/ PlanCandidate(q) \/ Recheck(q) PROVE Same
    BY <2>0, <2>6 DEF ReadMetadata, PullState, PlanCandidate, Recheck, Key, TypeOK, RunStates
  <2>7. ASSUME Upload(q) PROVE Same
    <3>1. PICK end \in {"done", "failed"} : run' = [run EXCEPT ![q].stage = end]
      BY <2>7 DEF Upload
    <3> QED
      BY <2>0, <3>1 DEF Key, TypeOK, RunStates
  <2>8. ASSUME Download(q) \/ InitBackend(q) \/ PlanMerged(q) \/ BeginApply(q) PROVE Same
    BY <2>0, <2>8 DEF Download, InitBackend, PlanMerged, BeginApply, Key, TypeOK, RunStates
  <2>9. ASSUME NoChange(q) PROVE Same
    BY <2>0, <2>9 DEF NoChange, Key, TypeOK, RunStates
  <2> HIDE DEF Same, Ends
  <2> QED
    BY <1>4, <2>2, <2>3, <2>4, <2>5, <2>6, <2>7, <2>8, <2>9 DEF Workflow, PlanRun, ApplyRun
<1> HIDE DEF Same, Ends
<1> QED
  BY <1>1, <1>2, <1>3, <1>4 DEF Next

\* Two approved runs of one pull request and head have the same creates.
LEMMA SameEvidence ==
  ASSUME TypeOK, EvidenceInv, RunInv, NEW r \in Runs, NEW s \in Runs,
         \A q \in {r, s} : run[q].kind = "apply" /\
             (run[q].stage = "applying" \/ run[q].created # {}),
         Key(r) = Key(s)
  PROVE  Creates(run[r].plan) = Creates(run[s].plan)
<1>1. ASSUME NEW q \in {r, s}
      PROVE /\ Key(q) \in Keys /\ evidence[Key(q)] # None
            /\ evidence[Key(q)].creates = Creates(run[q].plan)
  <2>1. /\ run[q].pr # None /\ run[q].object \in Keys /\ run[q].reviewed # None
        /\ evidence[run[q].object] = run[q].reviewed /\ Effect(q) = run[q].reviewed
    BY Fields DEF RunInv, BoundInv, ApplyInv, Approved
  <2>2. run[q].object = <<run[q].reviewed.pr, run[q].reviewed.head>>
    BY <2>1 DEF EvidenceInv
  <2>3. /\ Effect(q).pr = run[q].pr /\ Effect(q).head = run[q].head
        /\ Effect(q).creates = Creates(run[q].plan)
    BY DEF Effect
  <2>4. run[q].object = Key(q)
    BY <2>1, <2>2, <2>3 DEF Key
  <2> QED
    BY <2>1, <2>3, <2>4
<1> QED
  BY <1>1

\* What was saved stays, and is not saved again: a run that is to save some of
\* it has planned to create what is in the state.
LEMMA StepSaved ==
  ASSUME TypeOK, EvidenceInv, RunInv, SavedInv, Next
  PROVE  SavedInv'
<1> SUFFICES ASSUME Editable = {}
             PROVE  SavedInv'
  BY DEF SavedInv
<1>1. ASSUME NEW q \in Runs, NEW a \in run'[q].saved
      PROVE state'.resources[a] # None
  <2>1. CASE run'[q].saved = run[q].saved
    <3>1. a \in run[q].saved /\ a \in Addresses
      BY <1>1, <2>1, Fields DEF RunStates
    <3> QED
      BY <3>1, StateKept DEF SavedInv
  <2>2. ASSUME Approved(q), NEW done \in SUBSET Addresses, NEW saved \in SUBSET done,
               Succeeds(run[q].plan, done), state' = Saved(run[q].plan, saved),
               run'[q].saved = saved
        PROVE state'.resources[a] # None
    BY <1>1, <2>2, SavedResources
  <2> QED
    BY <1>1, <2>1, <2>2, SavedStep
<1>2. ASSUME NEW r \in Runs, NEW s \in Runs, Key(r) = Key(s), run[r].stage = "applying",
             run[s].saved # {}
      PROVE FALSE
  <2>1. run[r].kind = "apply" /\ run[r].plan.prior = state.resources
    BY <1>2 DEF RunInv, BoundInv, ApplyInv
  <2>2. run[s].created # {} /\ run[s].saved \subseteq run[s].created
    BY <1>2 DEF RunInv, BoundInv
  <2>3. run[s].kind = "apply" /\ run[s].created \subseteq Creates(run[s].plan)
    BY <2>2 DEF RunInv, BoundInv, ApplyInv
  <2>4. Creates(run[r].plan) = Creates(run[s].plan)
    BY <1>2, <2>1, <2>2, <2>3, SameEvidence
  <2>5. PICK a \in run[s].saved : TRUE
    BY <1>2
  <2>6. a \in Creates(run[r].plan)
    BY <2>2, <2>3, <2>4, <2>5
  <2>7. state.resources[a] = None
    BY <2>1, <2>6 DEF Creates
  <2> QED
    BY <2>5, <2>7 DEF SavedInv
<1>3. ASSUME NEW r \in Runs, NEW s \in Runs, r # s, Key(r)' = Key(s)',
             run'[r].saved # {}, run'[s].saved # {}
      PROVE FALSE
  <2>1. ASSUME NEW q \in {r, s}
        PROVE  /\ Key(q)' = Key(q)
               /\ run[q].saved # {} \/ (run[q].stage = "applying" /\ lock = q)
    BY <1>3, SavedStep
  <2>2. Key(r) = Key(s)
    BY <1>3, <2>1
  <2>3. ~(run[r].saved # {} /\ run[s].saved # {})
    BY <1>3, <2>2 DEF SavedInv
  <2> QED
    BY <1>2, <1>3, <2>1, <2>2, <2>3
<1> QED
  BY <1>1, <1>3 DEF SavedInv

----------------------------------------------------------------------------
\* The invariant.

\* The initial state has it.
LEMMA InitInv == ASSUME Init PROVE IInv
<1>1. TypeOK
  BY InitType
<1>2. PICK s \in Shas, c \in [stage : {"empty", "base"}, uri : {None}, comment : {None}] :
        /\ candidateAt = [x \in Shas |-> IF x = s THEN c ELSE None]
        /\ main = s
        /\ \/ state = NoState
           \/ state = [version |-> 1, resources |-> Config(c)]
  BY DEF Init
<1>3. StateInv
  BY <1>2, NothingType DEF StateInv
<1>4. c # None
  BY <1>2, NoneIsNothing DEF Candidates
<1>5. \A p \in PullRequests : pr[p].status = "none"
  BY DEF Init
<1>6. PrInv
  BY <1>2, <1>4, <1>5 DEF PrInv
<1>7. \A r \in Runs : run[r].stage = "idle" /\ run[r].kind = "plan" /\ run[r].pr = None
                      /\ run[r].created = {} /\ run[r].saved = {}
  BY DEF Init, NewRun
<1>8. RunInv
  BY <1>7 DEF RunInv, BoundInv, PlanInv, ApplyInv
<1>9. EvidenceInv /\ EvidenceIsConsistent
  BY DEF Init, EvidenceInv, EvidenceIsConsistent
<1>10. SavedInv
  BY <1>7 DEF SavedInv
<1> QED
  BY <1>1, <1>3, <1>6, <1>8, <1>9, <1>10 DEF IInv

\* Every step keeps it.
LEMMA StepInv == ASSUME IInv, [Next]_vars PROVE IInv'
<1>1. CASE Next
  <2>1. RunInv' /\ Grows
    BY <1>1, StepRunInv DEF IInv
  <2>2. TypeOK' /\ PrInv'
    BY <1>1, StepType, StepPr DEF IInv
  <2>3. StateInv' /\ EvidenceInv' /\ EvidenceIsConsistent'
    BY <1>1, <2>1, StepState, StepEvidence DEF IInv
  <2>4. SavedInv'
    BY <1>1, StepSaved DEF IInv
  <2> QED
    BY <2>1, <2>2, <2>3, <2>4 DEF IInv
<1>2. CASE UNCHANGED vars
  <2>1. TypeOK' /\ StateInv' /\ PrInv'
    BY <1>2 DEF vars, IInv, TypeOK, StateInv, PrInv
  <2>2. Grows /\ \A q \in Runs : Kept(q)
    BY <1>2 DEF vars, Grows, Kept
  <2>3. RunInv'
    BY <2>2, KeptInv DEF IInv, RunInv
  <2>4. EvidenceInv' /\ EvidenceIsConsistent'
    BY <1>2 DEF vars, IInv, EvidenceInv, EvidenceIsConsistent, Config, Verified, ExpectedCreates
  <2>5. SavedInv'
    BY <1>2 DEF vars, IInv, SavedInv, Key
  <2> QED
    BY <2>1, <2>3, <2>4, <2>5 DEF IInv
<1> QED
  BY <1>1, <1>2

\* The inductive invariant holds: what every run has bound, read, planned and
\* compared still stands when it acts on it.
THEOREM Invariance == Spec => []IInv
<1> QED
  BY InitInv, StepInv, PTL DEF Spec

\* Every variable keeps its type.
THEOREM TypeCorrect == Spec => []TypeOK
<1>1. IInv => TypeOK
  BY DEF IInv
<1> QED
  BY <1>1, Invariance, PTL

\* Stored evidence is about one state, whatever wrote the state meanwhile.
THEOREM EvidenceConsistent == Spec => []EvidenceIsConsistent
<1>1. IInv => EvidenceIsConsistent
  BY DEF IInv
<1> QED
  BY <1>1, Invariance, PTL

\* The effect of one plan's evidence is applied by one run, but for runs that
\* were lost before the state had anything of it.
THEOREM EffectAppliedOnce == Spec => []AppliedOnce
<1>1. ASSUME IInv PROVE AppliedOnce
  <2> SUFFICES ASSUME Editable = {}, NEW r \in Runs, NEW s \in Runs, r # s,
                      HasApplied(r), HasApplied(s), Key(r) = Key(s)
               PROVE  LostUnsaved(r) \/ LostUnsaved(s)
    BY DEF AppliedOnce
  <2>1. run[r].saved = {} \/ run[s].saved = {}
    BY <1>1 DEF IInv, SavedInv
  <2>2. ASSUME NEW q \in Runs, HasApplied(q), run[q].saved = {} PROVE LostUnsaved(q)
    BY <1>1, <2>2 DEF IInv, RunInv, BoundInv, HasApplied, LostUnsaved
  <2> QED
    BY <2>1, <2>2
<1> QED
  BY <1>1, Invariance, PTL

\* What a run that has created something was bound to and compared with.
LEMMA CreatorEvidence ==
  ASSUME IInv, NEW r \in Runs, run[r].created # {}
  PROVE  LET p == pr[run[r].pr]
             e == evidence[Key(r)]
         IN /\ run[r].pr \in PullRequests /\ Key(r) \in Keys
            /\ p.status = "merged" /\ p.head = run[r].head
            /\ e # None /\ e = Effect(r) /\ e \in Effects
            /\ run[r].candidate \in Candidates
            /\ run[r].candidate = candidateAt[p.head]
            /\ run[r].candidate = candidateAt[p.merge]
            /\ Verified(run[r].candidate, run[r].binding)
            /\ run[r].created \subseteq Creates(run[r].plan)
            /\ run[r].plan.target = Config(run[r].candidate)
<1>1. TypeOK /\ BoundInv(r) /\ ApplyInv(r) /\ EvidenceInv
  BY DEF IInv, RunInv
<1>2. run[r].pr # None /\ run[r].kind = "apply"
  BY <1>1 DEF BoundInv
<1>3. /\ run[r].reviewed # None /\ evidence[run[r].object] = run[r].reviewed
      /\ Effect(r) = run[r].reviewed
      /\ run[r].created \subseteq Creates(run[r].plan)
      /\ run[r].plan.target = Config(run[r].candidate)
  BY <1>1, <1>2 DEF ApplyInv, Approved
<1>4. Key(r) \in Keys /\ Effect(r) \in Effects
  BY <1>1, <1>2, EffectType
<1>5. run[r].object \in Keys /\ run[r].candidate \in Candidates /\ run[r].pr \in PullRequests
  BY <1>1, <1>2, Fields DEF BoundInv
<1>6. run[r].object = Key(r)
  <2>1. run[r].object = <<evidence[run[r].object].pr, evidence[run[r].object].head>>
    BY <1>1, <1>3, <1>5 DEF EvidenceInv
  <2>2. Effect(r).pr = run[r].pr /\ Effect(r).head = run[r].head
    BY DEF Effect
  <2> QED
    BY <1>3, <2>1, <2>2 DEF Key
<1>7. /\ pr[run[r].pr].status = "merged" /\ pr[run[r].pr].head = run[r].head
      /\ run[r].candidate = candidateAt[run[r].head]
      /\ run[r].candidate = candidateAt[pr[run[r].pr].merge]
      /\ Verified(run[r].candidate, run[r].binding)
  BY <1>1, <1>2 DEF BoundInv
<1> QED
  BY <1>3, <1>4, <1>5, <1>6, <1>7

\* An apply creates what a plan of the merged head recorded, of the candidate
\* that was reviewed and merged.
THEOREM AppliesAsReviewed == Spec => []CreatedAsReviewed
<1>1. ASSUME IInv PROVE CreatedAsReviewed
  <2> SUFFICES ASSUME NEW r \in Runs, run[r].created # {}
               PROVE  LET p == pr[run[r].pr]
                          e == evidence[Key(r)]
                      IN /\ p.status = "merged"
                         /\ p.head = run[r].head
                         /\ e # None
                         /\ e.candidate = candidateAt[p.head]
                         /\ e.candidate = candidateAt[p.merge]
                         /\ run[r].created \subseteq e.creates
                         /\ run[r].plan.target = Config(e.candidate)
    BY DEF CreatedAsReviewed
  <2>1. Effect(r).candidate = run[r].candidate /\ Effect(r).creates = Creates(run[r].plan)
    BY DEF Effect
  <2> QED
    BY <1>1, <2>1, CreatorEvidence
<1> QED
  BY <1>1, Invariance, PTL

\* A subscription is only routed to an address that was verified, over a base
\* that is there.
THEOREM RoutesToVerified == Spec => []RoutingIsVerified
<1>1. ASSUME IInv PROVE RoutingIsVerified
  <2> SUFFICES ASSUME NEW r \in Runs, RoutingAddress \in run[r].created
               PROVE  LET e == evidence[Key(r)]
                      IN /\ e.binding # None
                         /\ run[r].binding = e.binding
                         /\ run[r].plan.target[RoutingAddress] = e.binding.uri
                         /\ \A a \in BaseAddresses : e.pulled.resources[a] = Declared
    BY DEF RoutingIsVerified
  <2> DEFINE c == run[r].candidate
             e == evidence[Key(r)]
  <2>1. /\ Key(r) \in Keys /\ e # None /\ e = Effect(r) /\ c \in Candidates
        /\ Verified(c, run[r].binding)
        /\ run[r].created \subseteq Creates(run[r].plan)
        /\ run[r].plan.target = Config(c)
    BY <1>1, CreatorEvidence
  <2>2. /\ Effect(r).candidate = c /\ Effect(r).creates = Creates(run[r].plan)
        /\ Effect(r).binding = run[r].binding
    BY DEF Effect
  <2>3. c.stage = "routing"
    BY <2>1 DEF Creates, Config
  <2>4. RoutingAddress \in Addresses /\ BaseAddresses \subseteq Addresses
    BY DEF Addresses
  <2>5. Config(c)[RoutingAddress] = c.uri /\ \A a \in BaseAddresses : Config(c)[a] = Declared
    BY <2>3, <2>4, RoutingIsNotBase DEF Config
  <2>6. run[r].binding # None /\ run[r].binding.uri = c.uri
    BY <2>1, <2>3 DEF Verified
  <2>7. e.creates = {RoutingAddress}
    BY <1>1, <2>1, <2>2, <2>3 DEF IInv, EvidenceInv, ExpectedCreates
  <2>8. ASSUME NEW a \in BaseAddresses PROVE e.pulled.resources[a] = Declared
    <3>1. Declared # None
      BY NoneIsNothing DEF Values
    <3>2. a \notin e.creates /\ a \in Addresses
      BY <2>4, <2>7, RoutingIsNotBase
    <3>3. e.pulled.resources[a] # None
      BY <1>1, <2>1, <2>2, <2>5, <3>1, <3>2 DEF IInv, EvidenceIsConsistent
    <3>4. e.pulled.resources[a] = Config(e.candidate)[a]
      BY <1>1, <2>1, <3>2, <3>3 DEF IInv, EvidenceInv
    <3> QED
      BY <2>1, <2>2, <2>5, <3>4
  <2> QED
    BY <2>1, <2>2, <2>5, <2>6, <2>8
<1> QED
  BY <1>1, Invariance, PTL

\* No step of a run takes away or changes a resource that is there.
THEOREM DestroysNothing == Spec => NeverDestroys
<1>1. ASSUME IInv, [Next]_vars
      PROVE  [(\E r \in Runs : run'[r] # run[r]) =>
                 \A a \in Addresses : live[a] # None => live'[a] = live[a]]_vars
  <2>1. CASE Repository \/ ByHand
    BY <1>1, <2>1, RepositoryGrows, ByHandGrows DEF IInv
  <2>2. ASSUME NEW r \in Runs, Workflow(r)
        PROVE  \A a \in Addresses : live[a] # None => live'[a] = live[a]
    <3>1. ASSUME run[r].stage = "applying" PROVE Approved(r)
      BY <1>1, <3>1 DEF IInv, RunInv, BoundInv, ApplyInv
    <3>2. ASSUME NEW done \in SUBSET Addresses, EndApply(r, done)
          PROVE  \A a \in Addresses : live[a] # None => live'[a] = live[a]
      BY <1>1, <3>1, <3>2, SavedResources DEF EndApply, IInv
    <3>3. ASSUME NEW done \in SUBSET Addresses, NEW saved \in SUBSET done,
                 LoseApply(r, done, saved)
          PROVE  \A a \in Addresses : live[a] # None => live'[a] = live[a]
      BY <1>1, <3>1, <3>3, SavedResources DEF LoseApply, IInv
    <3>4. ASSUME \/ PlanRun(r) \/ \E p \in PullRequests, k \in Keys : BindApply(r, p, k)
                 \/ Download(r) \/ InitBackend(r) \/ PlanMerged(r) \/ BeginApply(r) \/ NoChange(r)
                 \/ Fail(r) \/ LosePlan(r)
          PROVE  live' = live
      BY <3>4 DEF PlanRun, BindPlan, ReadMetadata, PullState, PlanCandidate, Recheck, Upload,
                  BindApply, Download, InitBackend, PlanMerged, BeginApply, NoChange, Fail,
                  LosePlan, cloud
    <3> QED
      BY <2>2, <3>2, <3>3, <3>4 DEF Workflow, ApplyRun
  <2> QED
    BY <1>1, <2>1, <2>2 DEF Next, vars
<1> QED
  BY <1>1, Invariance, PTL DEF Spec, NeverDestroys

=============================================================================
