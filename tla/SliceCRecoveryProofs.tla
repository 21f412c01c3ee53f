------------------------- MODULE SliceCRecoveryProofs -------------------------
(***************************************************************************)
(* The Slice C recovery, for any number of observers, executors and        *)
(* recovery runs, heads, generations and attempts, and whatever the owner  *)
(* posts.                                                                  *)
(*                                                                         *)
(* Entries of the record stay what they are, so what a validator has found *)
(* of its first n entries still holds when more are posted, but for the    *)
(* attempt numbers of runs.  An executor that has come to apply therefore  *)
(* keeps what EffectReady implied (Ready).  Two admitted claims are        *)
(* compared in the longer of the two records they were admitted by.        *)
(***************************************************************************)
EXTENDS SliceCRecovery, WellFoundedInduction, TLAPS

-----------------------------------------------------------------------------
(* Entries.                                                                 *)

LEMMA EntryOfKind ==
  ASSUME NEW e \in Entries
  PROVE  /\ e.kind = "merge_review" => e \in MergeReviews
         /\ e.kind = "merge" => e \in Merges
         /\ e.kind = "observation" => e \in Observations
         /\ e.kind = "claim" => e \in Claims
  <1>1. CASE e \in MergeReviews
    BY <1>1 DEF MergeReviews
  <1>2. CASE e \in MergeAuthorities
    BY <1>2 DEF MergeAuthorities
  <1>3. CASE e \in Merges
    BY <1>3 DEF Merges
  <1>4. CASE e \in Records
    BY <1>4 DEF Records
  <1>5. CASE e \in RepinReviews
    BY <1>5 DEF RepinReviews
  <1>6. CASE e \in RepinAuthorities
    BY <1>6 DEF RepinAuthorities
  <1>7. CASE e \in Claims
    BY <1>7 DEF Claims
  <1>8. CASE e \in Observations
    BY <1>8 DEF Observations
  <1>9. CASE e \in Terminals
    BY <1>9 DEF Terminals
  <1>10. CASE e \in Dispatches
    BY <1>10 DEF Dispatches
  <1> QED
    BY <1>1, <1>2, <1>3, <1>4, <1>5, <1>6, <1>7, <1>8, <1>9, <1>10 DEF Entries

\* The record is the same, or longer.
Grows == Now' >= Now /\ \A i \in 1..Now : log'[i] = log[i]

LEMMA PostGrows ==
  ASSUME log \in Seq(Entries), NEW e \in Entries, Post(e)
  PROVE  /\ log' \in Seq(Entries)
         /\ Now' = Now + 1
         /\ log'[Now + 1] = e
         /\ Grows
  BY DEF Post, Now, Grows

\* What an entry names is on the record, and an observation of nothing to
\* change is made when the state has New.
Sound(e) ==
    /\ e \in Entries
    /\ e.kind = "merge_authority" => e.review \in Of("merge_review", Now)
    /\ e.kind = "record" => /\ e.merge \in Of("merge", Now)
                            /\ e.authority \in Of("merge_authority", Now)
    /\ e.kind = "repin_authority" => e.review \in Of("repin_review", Now)
    /\ e.kind = "claim" => e.authority \in Of("repin_authority", Now)
    /\ e.kind = "observation" => (e.facts.reconciliation = "no_change" => state.pin = New)
    /\ e.kind = "terminal" => /\ e.first \in Of("observation", Now)
                              /\ e.second \in Of("observation", Now) \cup {0}
    /\ e.kind = "dispatch" => e.terminal \in Of("terminal", Now)

LogOK == \A i \in 1..Now : Sound(log[i])

PullOK == \A p \in Pulls : pull[p].status # "none" => pull[p].head \in 1..MaxHead

MainOK == main = 0 \/ main \in Of("merge", Now)

ObsOK ==
    \A o \in Observers :
        /\ obs[o].stage # "idle" => obs[o].facts \in Facts
        /\ obs[o].stage = "planned" /\ obs[o].facts.reconciliation = "no_change" =>
               state.pin = New

RecordOK == LogOK /\ PullOK /\ MainOK /\ ObsOK

LEMMA InitRecord == Init => RecordOK
  BY DEF Init, RecordInit, RecordOK, LogOK, PullOK, MainOK, ObsOK, Idle, Now, Pulls

-----------------------------------------------------------------------------
(* The state and the binding.                                               *)

Applying(e) == exec[e].stage \in {"applying", "deleted", "created"}

CloudOK ==
    /\ \A e \in Executors :
           /\ Applying(e) => lock = e /\ state.pin # New
           /\ exec[e].stage \in {"deleted", "created"} => Old \notin live
           /\ exec[e].stage = "created" => New \in live
    /\ state.pin = New =>
           /\ live = {New}
           /\ state.serial # Serial0
           /\ \E e \in Executors : exec[e].stage = "done"

LEMMA InitCloud == Init => CloudOK
  BY MembersDiffer DEF Init, CloudOK, Applying, Unstarted

\* What a step of an executor leaves of its state and of the others.
LEMMA ExecStage ==
  ASSUME exec \in [Executors -> ExecStates], NEW e \in Executors, NEW from, NEW to \in ExecStages,
         ExecStep(e, from, to)
  PROVE  /\ exec' \in [Executors -> ExecStates]
         /\ exec[e].stage = from
         /\ \A f \in Executors :
                /\ exec'[f].stage = IF f = e THEN to ELSE exec[f].stage
                /\ exec'[f].claim = exec[f].claim
                /\ exec'[f].seen = exec[f].seen
  <1> DEFINE new == [exec[e] EXCEPT !.stage = to]
  <1>1. exec' = [exec EXCEPT ![e] = new] /\ exec[e].stage = from
    BY DEF ExecStep
  <1>2. /\ new \in ExecStates
        /\ new.stage = to /\ new.claim = exec[e].claim /\ new.seen = exec[e].seen
    BY DEF ExecStates
  <1> HIDE DEF new
  <1>3. ASSUME NEW f \in Executors PROVE exec'[f] = IF f = e THEN new ELSE exec[f]
    BY <1>1
  <1>4. exec' \in [Executors -> ExecStates]
    BY <1>1, <1>2
  <1> QED  BY <1>1, <1>2, <1>3, <1>4

\* A step of an executor that is not about to apply.
LEMMA CloudStays ==
  ASSUME TypeOK, CloudOK, NEW e \in Executors, UNCHANGED <<state, live, lock>>,
         exec[e].stage # "done",
         exec'[e].stage \notin {"applying", "deleted", "created"},
         \A f \in Executors : f # e => exec'[f].stage = exec[f].stage
  PROVE  CloudOK'
  BY DEF CloudOK, Applying

LEMMA ExecCloud ==
  ASSUME TypeOK, CloudOK, NEW e \in Executors, Execute(e)
  PROVE  CloudOK' /\ (state.pin = New => UNCHANGED <<state, live>>)
  <1> DEFINE goal == CloudOK' /\ (state.pin = New => UNCHANGED <<state, live>>)
  <1>0. /\ exec \in [Executors -> ExecStates]
        /\ state \in States /\ live \in SUBSET {Old, New} /\ lock \in Executors \cup {None}
    BY DEF TypeOK
  <1>1. ASSUME NEW c \in Of("claim", Now), ReadRecord(e, c) PROVE goal
    <2>1. /\ exec[e].stage = "idle" /\ exec'[e].stage = "read" /\ UNCHANGED <<state, live, lock>>
          /\ \A f \in Executors : f # e => exec'[f].stage = exec[f].stage
      BY <1>0, <1>1 DEF ReadRecord, cloud
    <2> QED  BY <2>1, CloudStays
  <1>2. CASE MatchState(e) \/ CheckAbsent(e) \/ LoseApply(e)
    <2>1. PICK from \in ExecStages, to \in {"matched", "free", "lost"} : ExecStep(e, from, to)
      BY <1>0, <1>2 DEF MatchState, CheckAbsent, LoseApply, ExecStep, ExecStates, ExecStages
    <2>2. UNCHANGED <<state, live, lock>> /\ exec[e].stage # "done"
      BY <1>2 DEF MatchState, CheckAbsent, LoseApply, ExecStep, cloud
    <2>3. to \in ExecStages
      BY DEF ExecStages
    <2>4. \A f \in Executors : exec'[f].stage = IF f = e THEN to ELSE exec[f].stage
      BY <1>0, <2>1, <2>3, ExecStage
    <2> QED  BY <2>2, <2>4, CloudStays
  <1>3. CASE Verify(e)
    <2>1. /\ exec[e].stage = "free" /\ exec'[e].stage = "ready" /\ UNCHANGED <<state, live, lock>>
          /\ \A f \in Executors : f # e => exec'[f].stage = exec[f].stage
      BY <1>0, <1>3 DEF Verify, cloud, ExecStates
    <2> QED  BY <2>1, CloudStays
  <1>4. CASE Refuse(e)
    <2>1. /\ exec[e].stage # "done" /\ exec'[e].stage = "idle" /\ UNCHANGED <<state, live, lock>>
          /\ \A f \in Executors : f # e => exec'[f].stage = exec[f].stage
      BY <1>0, <1>4 DEF Refuse, cloud, Unstarted
    <2> QED  BY <2>1, CloudStays
  <1>5. CASE BeginApply(e)
    <2>1. /\ exec[e].stage = "ready"
          /\ \A f \in Executors : exec'[f].stage = IF f = e THEN "applying" ELSE exec[f].stage
      BY <1>0, <1>5, ExecStage DEF BeginApply, ExecStages
    <2>2. lock = None /\ lock' = e /\ state.serial = Serial0 /\ UNCHANGED <<state, live>>
      BY <1>5 DEF BeginApply
    <2>3. state.pin # New /\ \A f \in Executors : ~ Applying(f)
      BY <2>2, NoneIsNothing DEF CloudOK
    <2> QED  BY <2>1, <2>2, <2>3 DEF CloudOK, Applying
  <1>6. CASE DeleteOld(e)
    <2>1. /\ exec[e].stage = "applying"
          /\ \A f \in Executors : exec'[f].stage = IF f = e THEN "deleted" ELSE exec[f].stage
      BY <1>0, <1>6, ExecStage DEF DeleteOld, ExecStages
    <2>2. live' = live \ {Old} /\ state' = state /\ lock' = lock
      BY <1>6 DEF DeleteOld
    <2>3. state.pin # New /\ \A f \in Executors : Applying(f) => f = e
      BY <2>1 DEF CloudOK, Applying
    <2> QED  BY <2>1, <2>2, <2>3 DEF CloudOK, Applying
  <1>7. CASE CreateNew(e)
    <2>1. /\ exec[e].stage = "deleted"
          /\ \A f \in Executors : exec'[f].stage = IF f = e THEN "created" ELSE exec[f].stage
      BY <1>0, <1>7, ExecStage DEF CreateNew, ExecStages
    <2>2. live' = live \cup {New} /\ state' = state /\ lock' = lock
      BY <1>7 DEF CreateNew
    <2>3. /\ state.pin # New /\ Old \notin live
          /\ \A f \in Executors : Applying(f) => f = e
      BY <2>1 DEF CloudOK, Applying
    <2> QED  BY <2>1, <2>2, <2>3, MembersDiffer DEF CloudOK, Applying
  <1>8. CASE EndApply(e)
    <2>1. /\ exec[e].stage = "created"
          /\ \A f \in Executors : exec'[f].stage = IF f = e THEN "done" ELSE exec[f].stage
      BY <1>0, <1>8, ExecStage DEF EndApply, ExecStages
    <2>2. state' = [serial |-> state.serial + 1, pin |-> New] /\ live' = live
      BY <1>8 DEF EndApply, Save
    <2>3. /\ state.pin # New /\ Old \notin live /\ New \in live
          /\ \A f \in Executors : Applying(f) => f = e
      BY <2>1 DEF CloudOK, Applying
    <2>4. live' = {New} /\ state'.pin = New /\ state'.serial # Serial0
      BY <1>0, <2>2, <2>3, BoundsOK DEF States
    <2>5. \A f \in Executors : exec'[f].stage \notin {"applying", "deleted", "created"}
      BY <2>1, <2>3 DEF Applying
    <2> QED  BY <2>1, <2>3, <2>4, <2>5 DEF CloudOK, Applying
  <1>9. CASE FailApply(e)
    <2>1. PICK from \in {"applying", "deleted"} : ExecStep(e, from, "partial")
      BY <1>9 DEF FailApply
    <2>2. /\ exec[e].stage \in {"applying", "deleted"}
          /\ \A f \in Executors : exec'[f].stage = IF f = e THEN "partial" ELSE exec[f].stage
      BY <1>0, <2>1, ExecStage DEF ExecStages
    <2>3. /\ state.pin # New
          /\ \A f \in Executors : Applying(f) => f = e
      BY <2>2 DEF CloudOK, Applying
    <2>4. live' = live /\ state'.pin # New
      BY <1>9, <2>3, NoneIsNothing DEF FailApply, Save
    <2>5. \A f \in Executors : exec'[f].stage \notin {"applying", "deleted", "created"}
      BY <2>2, <2>3 DEF Applying
    <2> QED  BY <2>3, <2>4, <2>5 DEF CloudOK, Applying
  <1> QED
    BY <1>1, <1>2, <1>3, <1>4, <1>5, <1>6, <1>7, <1>8, <1>9 DEF Execute

LEMMA StepCloud ==
  ASSUME TypeOK, CloudOK, Next
  PROVE  CloudOK' /\ (state.pin = New => UNCHANGED <<state, live>>)
  <1>1. CASE UNCHANGED <<cloud, exec>>
    BY <1>1 DEF cloud, CloudOK, Applying
  <1>2. CASE Owner
    BY <1>1, <1>2 DEF Owner
  <1>3. ASSUME ForceUnlock PROVE CloudOK' /\ UNCHANGED <<state, live>>
    <2>1. /\ exec[lock].stage = "lost" /\ UNCHANGED <<exec, state, live>>
      BY <1>3 DEF ForceUnlock
    <2>2. \A e \in Executors : ~ Applying(e)
      BY <2>1 DEF CloudOK, Applying
    <2> QED  BY <2>1, <2>2 DEF CloudOK, Applying
  <1>4. ASSUME NEW o \in Observers, Observation(o) PROVE UNCHANGED <<cloud, exec>>
    BY <1>4 DEF Observation, StartRun, EndRun, Rerun, Observe, ReadState, ReadLive, ReadObjects,
         PlanFresh, PostObservation, NotObs
  <1>5. ASSUME NEW r \in Recoveries, Recover(r) PROVE UNCHANGED <<cloud, exec>>
    BY <1>5 DEF Recover, BindRecovery, ClearBoundary, ClaimRecovery, CompareProduct, UploadResult,
         FailRecovery, NotRecovery
  <1> QED  BY <1>1, <1>2, <1>3, <1>4, <1>5, ExecCloud DEF Next

-----------------------------------------------------------------------------
(* Types, and what is posted.                                               *)

LEMMA InitType == Init => TypeOK
  <1> SUFFICES ASSUME Init PROVE TypeOK
    OBVIOUS
  <1>1. Serial0 \in Serial0..MaxSerial /\ 0 \in 0..MaxClock /\ 0 \in 0..MaxHead /\ 1 \in 1..MaxAttempt
    BY BoundsOK, SerialsOK
  <1>2. log \in Seq(Entries)
    BY DEF Init, RecordInit
  <1>3. pull \in [Pulls -> PullStates] /\ main \in Nat /\ attempt \in [Observers -> 1..MaxAttempt]
    BY <1>1 DEF Init, RecordInit, PullStates
  <1>4. state \in States /\ exec \in [Executors -> ExecStates] /\ obs \in [Observers -> ObsStates]
    BY <1>1 DEF Init, States, ExecStates, ExecStages, Unstarted, ObsStates, ObsStages, Idle
  <1> QED
    BY <1>1, <1>2, <1>3, <1>4 DEF TypeOK, Init, RecordInit, RecoveryStages

LEMMA ExecType ==
  ASSUME TypeOK, NEW e \in Executors, Execute(e)
  PROVE  TypeOK'
  <1>0. /\ exec \in [Executors -> ExecStates]
        /\ state \in States /\ live \in SUBSET {Old, New} /\ lock \in Executors \cup {None}
        /\ Now \in Nat
    BY DEF TypeOK, Now
  <1>1. UNCHANGED NotExec
    BY DEF Execute, ReadRecord, MatchState, CheckAbsent, Verify, Refuse, BeginApply, DeleteOld,
        CreateNew, EndApply, FailApply, LoseApply
  <1>2. ASSUME NEW c \in Of("claim", Now), ReadRecord(e, c)
        PROVE  exec' \in [Executors -> ExecStates]
    <2>1. [stage |-> "read", claim |-> c, seen |-> Now] \in ExecStates
      BY <1>0 DEF ExecStates, ExecStages, Of
    <2> QED  BY <1>0, <1>2, <2>1 DEF ReadRecord
  <1>3. ASSUME Verify(e) PROVE exec' \in [Executors -> ExecStates]
    <2> DEFINE new == [exec[e] EXCEPT !.stage = "ready", !.seen = 0]
    <2>1. new \in ExecStates
      BY <1>0 DEF ExecStates, ExecStages
    <2>2. exec' = [exec EXCEPT ![e] = new]
      BY <1>3 DEF Verify
    <2> QED  BY <1>0, <2>1, <2>2
  <1>4. ASSUME Refuse(e) PROVE exec' \in [Executors -> ExecStates]
    BY <1>0, <1>4 DEF Refuse, Unstarted, ExecStates, ExecStages
  <1>5. ASSUME NEW from, NEW to \in ExecStages, ExecStep(e, from, to)
        PROVE  exec' \in [Executors -> ExecStates]
    BY <1>0, <1>5, ExecStage
  <1>6. exec' \in [Executors -> ExecStates]
    BY <1>2, <1>3, <1>4, <1>5
    DEF Execute, MatchState, CheckAbsent, BeginApply, DeleteOld, CreateNew, EndApply, FailApply,
        LoseApply, ExecStep, ExecStages
  <1>7. state.serial \in Serial0..MaxSerial
    BY <1>0 DEF States
  <1>8. ASSUME NEW pin \in {Old, New, None}, state.serial < MaxSerial, Save(pin)
        PROVE state' \in States
    BY <1>7, <1>8, BoundsOK DEF Save, States
  <1>9. state' \in States
    BY <1>0, <1>8
    DEF Execute, ReadRecord, MatchState, CheckAbsent, Verify, Refuse, BeginApply, DeleteOld,
        CreateNew, EndApply, FailApply, LoseApply, cloud
  <1>10. live' \in SUBSET {Old, New} /\ lock' \in Executors \cup {None}
    BY <1>0
    DEF Execute, ReadRecord, MatchState, CheckAbsent, Verify, Refuse, BeginApply, DeleteOld,
        CreateNew, EndApply, FailApply, LoseApply, cloud
  <1> QED
    BY <1>1, <1>6, <1>9, <1>10 DEF TypeOK, NotExec, record, evidence

LEMMA RecoveryType ==
  ASSUME TypeOK, NEW r \in Recoveries, Recover(r)
  PROVE  TypeOK'
  <1>1. UNCHANGED NotRecovery
    BY DEF Recover, BindRecovery, ClearBoundary, ClaimRecovery, CompareProduct, UploadResult,
        FailRecovery
  <1>2. recovery' \in [Recoveries -> RecoveryStages]
    BY DEF Recover, BindRecovery, ClearBoundary, ClaimRecovery, CompareProduct, UploadResult,
        FailRecovery, RecoveryStep, TypeOK, RecoveryStages
  <1>3. claimed' \in Recoveries \cup {None} /\ result' \in Recoveries \cup {None}
    BY DEF Recover, BindRecovery, ClearBoundary, ClaimRecovery, CompareProduct, UploadResult,
        FailRecovery, evidence, TypeOK
  <1> QED
    BY <1>1, <1>2, <1>3 DEF TypeOK, NotRecovery, record, cloud

\* The tree of a commit of the branch is of the model's changes.
LEMMA TreeIsChanges ==
  ASSUME TypeOK, MainOK PROVE Tree(main) \in SUBSET Changes
  <1>1. CASE main = 0
    BY <1>1 DEF Tree
  <1>2. CASE main # 0
    <2>1. main \in 1..Now /\ log[main].kind = "merge"
      BY <1>2 DEF MainOK, Of
    <2>2. log[main] \in Merges
      BY <2>1, EntryOfKind DEF TypeOK, Now
    <2> QED  BY <1>2, <2>2 DEF Tree, Merges
  <1> QED  BY <1>1, <1>2

\* A step of a pull request without a post.
LEMMA PullStep ==
  ASSUME TypeOK, MainOK, PullOK, NEW p \in Pulls, Open(p) \/ Push(p)
  PROVE  pull' \in [Pulls -> PullStates] /\ PullOK'
  <1>0. /\ pull \in [Pulls -> PullStates] /\ main \in Nat
        /\ Tree(main) \in SUBSET Changes /\ pull[p] \in PullStates
    BY TreeIsChanges DEF TypeOK
  <1>1. ASSUME NEW x \in PullStates, x.head \in 1..MaxHead, pull' = [pull EXCEPT ![p] = x]
        PROVE  pull' \in [Pulls -> PullStates] /\ PullOK'
    BY <1>0, <1>1 DEF PullOK
  <1>2. CASE Open(p)
    <2> DEFINE x == [status |-> "open", head |-> 1, base |-> main, tree |-> Tree(main) \cup {<<p, 1>>}]
    <2>1. 1 \in 1..MaxHead /\ 1 \in 0..MaxHead
      BY BoundsOK
    <2>2. <<p, 1>> \in Changes
      BY <2>1 DEF Changes
    <2>3. x \in PullStates /\ x.head \in 1..MaxHead
      BY <1>0, <2>1, <2>2 DEF PullStates
    <2>4. pull' = [pull EXCEPT ![p] = x]
      BY <1>2 DEF Open
    <2> QED  BY <1>1, <2>3, <2>4
  <1>3. CASE Push(p)
    <2> DEFINE h == pull[p].head + 1
    <2>1. PICK tree \in {pull[p].tree, Tree(main)}, base \in {pull[p].base, main} :
              pull' = [pull EXCEPT ![p].head = @ + 1, ![p].base = base,
                                   ![p].tree = (tree \ {<<p, pull[p].head>>}) \cup {<<p, h>>}]
      BY <1>3 DEF Push
    <2> DEFINE new == (tree \ {<<p, pull[p].head>>}) \cup {<<p, h>>}
               x == [pull[p] EXCEPT !.head = h, !.base = base, !.tree = new]
    <2>2. h \in 1..MaxHead /\ h \in 0..MaxHead
      BY <1>0, <1>3, BoundsOK DEF Push, PullStates
    <2>3. <<p, h>> \in Changes /\ tree \in SUBSET Changes /\ base \in Nat
      BY <1>0, <2>2 DEF Changes, PullStates
    <2>4. x \in PullStates /\ x.head \in 1..MaxHead
      <3>1. new \in SUBSET Changes
        BY <2>3
      <3> HIDE DEF new, h
      <3> QED  BY <1>0, <2>2, <2>3, <3>1 DEF PullStates
    <2>5. pull' = [pull EXCEPT ![p] = x]
      BY <2>1
    <2> HIDE DEF x
    <2> QED  BY <1>1, <2>4, <2>5
  <1> QED  BY <1>2, <1>3

\* The entry an action of the owner posts.
LEMMA OwnerPosts ==
  ASSUME TypeOK, RecordOK, Owner, log' # log
  PROVE  \E e : Sound(e) /\ e.kind # "observation" /\ Post(e)
  <1>0. /\ log \in Seq(Entries) /\ Now \in Nat /\ LogOK /\ PullOK /\ MainOK
        /\ pull \in [Pulls -> PullStates] /\ main \in Nat
        /\ Tree(main) \in SUBSET Changes
    BY TreeIsChanges DEF TypeOK, RecordOK, Now
  <1> DEFINE goal == \E e : Sound(e) /\ e.kind # "observation" /\ Post(e)
  <1>1. ASSUME NEW p \in Pulls, ReviewMerge(p) PROVE goal
    <2> DEFINE e == [kind |-> "merge_review", pr |-> p, head |-> pull[p].head, tree |-> pull[p].tree]
    <2>1. pull[p].head \in 1..MaxHead /\ pull[p].tree \in SUBSET Changes
      BY <1>0, <1>1 DEF ReviewMerge, PullOK, PullStates
    <2>2. e \in Entries
      BY <2>1 DEF Entries, MergeReviews
    <2> QED  BY <1>1, <2>2 DEF Sound, ReviewMerge
  <1>2. ASSUME NEW v \in Of("merge_review", Now), AuthoriseMerge(v) PROVE goal
    <2> DEFINE e == [kind |-> "merge_authority", pr |-> log[v].pr, review |-> v]
    <2>1. log[v] \in MergeReviews /\ v \in Nat
      BY <1>0, EntryOfKind DEF Of, Now
    <2>2. e \in Entries
      BY <2>1 DEF Entries, MergeReviews, MergeAuthorities
    <2> QED  BY <1>2, <2>2 DEF Sound, AuthoriseMerge
  <1>3. ASSUME NEW p \in Pulls, Merge(p) PROVE goal
    <2> DEFINE e == [kind |-> "merge", pr |-> p, head |-> pull[p].head, base |-> pull[p].base,
                     tree |-> Tree(main) \cup pull[p].tree]
    <2>1. /\ pull[p].head \in 1..MaxHead /\ pull[p].tree \in SUBSET Changes
          /\ pull[p].base \in Nat
      BY <1>0, <1>3 DEF Merge, PullOK, PullStates
    <2>2. Tree(main) \cup pull[p].tree \in SUBSET Changes
      BY <1>0, <2>1
    <2>3. e \in Merges
      BY <2>1, <2>2 DEF Merges
    <2>4. e \in Entries
      BY <2>3 DEF Entries
    <2> QED  BY <1>3, <2>4 DEF Sound, Merge
  <1>4. ASSUME MergeOther(1) PROVE goal
    <2> DEFINE e == [kind |-> "merge", pr |-> "other", head |-> 1, base |-> main,
                     tree |-> Tree(main) \cup {<<"other", 1>>}]
    <2>1. 1 \in 1..MaxHead
      BY BoundsOK
    <2>2. Tree(main) \cup {<<"other", 1>>} \in SUBSET Changes
      BY <1>0, <2>1 DEF Changes
    <2>3. e \in Merges
      BY <1>0, <2>1, <2>2 DEF Merges
    <2>4. e \in Entries
      BY <2>3 DEF Entries
    <2> QED  BY <1>4, <2>4 DEF Sound, MergeOther
  <1>5. ASSUME NEW m \in Of("merge", Now), NEW a \in Of("merge_authority", Now), RecordMerge(m, a)
        PROVE  goal
    <2> DEFINE e == [kind |-> "record", pr |-> log[m].pr, merge |-> m, authority |-> a]
    <2>1. log[m] \in Merges /\ m \in Nat /\ a \in Nat
      BY <1>0, EntryOfKind DEF Of, Now
    <2>2. log[m].pr \in Pulls
      BY <1>5, <2>1 DEF RecordMerge, Merges
    <2>3. e \in Entries
      BY <2>1, <2>2 DEF Entries, Records
    <2> QED  BY <1>5, <2>3 DEF Sound, RecordMerge
  <1>6. ASSUME ReviewRepin PROVE goal
    <2>1. [kind |-> "repin_review"] \in Entries
      BY DEF Entries, RepinReviews
    <2> QED  BY <1>6, <2>1 DEF Sound, ReviewRepin
  <1>7. ASSUME NEW v \in Of("repin_review", Now), AuthoriseRepin(v) PROVE goal
    <2> DEFINE e == [kind |-> "repin_authority", review |-> v]
    <2>1. e \in Entries
      BY <1>0 DEF Of, Entries, RepinAuthorities
    <2> QED  BY <1>7, <2>1 DEF Sound, AuthoriseRepin
  <1>8. ASSUME NEW g \in 1..MaxGeneration, NEW a \in Of("repin_authority", Now), PostClaim(g, a)
        PROVE  goal
    <2> DEFINE e == [kind |-> "claim", generation |-> g, authority |-> a]
    <2>1. e \in Entries
      BY <1>0 DEF Of, Entries, Claims
    <2> QED  BY <1>8, <2>1 DEF Sound, PostClaim
  <1>9. ASSUME NEW f \in Of("observation", Now), NEW s \in Of("observation", Now) \cup {0},
               PostTerminal(f, s)
        PROVE  goal
    <2> DEFINE e == [kind |-> "terminal", claim |-> log[f].facts.claim, first |-> f, second |-> s,
                     outcome |-> Outcome(f, s)]
    <2>1. log[f] \in Observations /\ f \in Nat /\ s \in Nat
      BY <1>0, EntryOfKind DEF Of, Now
    <2>2. log[f].facts.claim \in Nat /\ Outcome(f, s) \in Outcomes
      BY <2>1 DEF Observations, Facts, Outcome, Outcomes
    <2>3. e \in Entries
      BY <2>1, <2>2 DEF Entries, Terminals
    <2> QED  BY <1>9, <2>3 DEF Sound, PostTerminal
  <1>10. ASSUME NEW t \in Of("terminal", Now), PostDispatch(t) PROVE goal
    <2> DEFINE e == [kind |-> "dispatch", terminal |-> t]
    <2>1. e \in Entries
      BY <1>0 DEF Of, Entries, Dispatches
    <2> QED  BY <1>10, <2>1 DEF Sound, PostDispatch
  <1>11. ASSUME NEW p \in Pulls, Open(p) \/ Push(p) PROVE log' = log
    BY <1>11 DEF Open, Push
  <1>12. ASSUME Wait PROVE log' = log
    BY <1>12 DEF Wait
  <1> QED
    BY <1>1, <1>2, <1>3, <1>4, <1>5, <1>6, <1>7, <1>8, <1>9, <1>10, <1>11, <1>12
    DEF Owner, RecordNext, Governance, Attempts

LEMMA OwnerType ==
  ASSUME TypeOK, RecordOK, Owner
  PROVE  TypeOK' /\ PullOK' /\ MainOK' /\ Grows
  <1>0. /\ log \in Seq(Entries) /\ Now \in Nat /\ PullOK /\ MainOK
        /\ pull \in [Pulls -> PullStates] /\ main \in Nat
    BY DEF TypeOK, RecordOK, Now
  <1>1. log' \in Seq(Entries) /\ Grows
    <2>1. CASE log' = log
      BY <1>0, <2>1 DEF Grows, Now
    <2>2. CASE log' # log
      <3>1. PICK e : Sound(e) /\ Post(e)
        BY <2>2, OwnerPosts
      <3>2. e \in Entries
        BY <3>1 DEF Sound
      <3> QED  BY <1>0, <3>1, <3>2, PostGrows
    <2> QED  BY <2>1, <2>2
  <1>2. ASSUME NEW p \in Pulls, Merge(p)
        PROVE  /\ pull' \in [Pulls -> PullStates] /\ PullOK'
               /\ main' \in Of("merge", Now)' /\ main' \in Nat
    <2> DEFINE x == [pull[p] EXCEPT !.status = "merged"]
               e == [kind |-> "merge", pr |-> p, head |-> pull[p].head, base |-> pull[p].base,
                     tree |-> Tree(main) \cup pull[p].tree]
    <2>1. pull' = [pull EXCEPT ![p] = x] /\ main' = Now + 1 /\ log' = Append(log, e)
      BY <1>2 DEF Merge, Post
    <2>2. x \in PullStates /\ x.head = pull[p].head
      BY <1>0 DEF PullStates
    <2>3. pull[p].head \in 1..MaxHead
      BY <1>0, <1>2 DEF Merge, PullOK
    <2>4. e.kind = "merge"
      OBVIOUS
    <2> HIDE DEF x, e
    <2>5. pull' \in [Pulls -> PullStates] /\ PullOK'
      BY <1>0, <2>1, <2>2, <2>3 DEF PullOK
    <2>6. Now' = Now + 1 /\ log'[Now + 1] = e
      BY <1>0, <2>1 DEF Now
    <2>7. main' \in Of("merge", Now)'
      <3>1. main' \in 1..Now' /\ log'[main'].kind = "merge"
        BY <1>0, <2>1, <2>4, <2>6
      <3> QED  BY <3>1 DEF Of
    <2> QED  BY <1>0, <2>1, <2>5, <2>7
  <1>3. ASSUME MergeOther(1)
        PROVE  main' \in Of("merge", Now)' /\ main' \in Nat /\ pull' = pull
    <2> DEFINE e == [kind |-> "merge", pr |-> "other", head |-> 1, base |-> main,
                     tree |-> Tree(main) \cup {<<"other", 1>>}]
    <2>1. pull' = pull /\ main' = Now + 1 /\ log' = Append(log, e) /\ e.kind = "merge"
      BY <1>3 DEF MergeOther, Post
    <2> HIDE DEF e
    <2>2. Now' = Now + 1 /\ log'[Now + 1] = e
      BY <1>0, <2>1 DEF Now
    <2>3. main' \in 1..Now' /\ log'[main'].kind = "merge" /\ main' \in Nat
      BY <1>0, <2>1, <2>2
    <2> QED  BY <2>1, <2>3 DEF Of
  <1>4. ASSUME main' = main PROVE MainOK' /\ main' \in Nat
    <2>1. main \in Of("merge", Now) => main \in Of("merge", Now)'
      BY <1>0, <1>1 DEF Grows, Of, Now
    <2> QED  BY <1>0, <1>4, <2>1 DEF MainOK, Of
  <1>5. ASSUME pull' = pull PROVE pull' \in [Pulls -> PullStates] /\ PullOK'
    BY <1>0, <1>5 DEF PullOK
  <1>6. /\ pull' \in [Pulls -> PullStates] /\ PullOK'
        /\ MainOK' /\ main' \in Nat
    <2>1. CASE \E p \in Pulls : Merge(p)
      BY <1>2, <2>1 DEF MainOK
    <2>2. CASE MergeOther(1)
      BY <1>3, <1>5, <2>2 DEF MainOK
    <2>3. ASSUME NEW p \in Pulls, Open(p) \/ Push(p)
          PROVE  pull' \in [Pulls -> PullStates] /\ PullOK' /\ MainOK' /\ main' \in Nat
      <3>1. main' = main
        BY <2>3 DEF Open, Push
      <3> QED  BY <1>0, <1>4, <2>3, <3>1, PullStep
    <2>4. CASE UNCHANGED <<pull, main>>
      BY <1>4, <1>5, <2>4
    <2> QED
      BY <2>1, <2>2, <2>3, <2>4
      DEF Owner, RecordNext, Governance, Attempts, ReviewMerge, AuthoriseMerge, RecordMerge,
          ReviewRepin, AuthoriseRepin, PostClaim, PostTerminal, PostDispatch, Wait
  <1>7. attempt' = attempt /\ (clock' = clock \/ Wait)
    <2>1. ASSUME NEW room, Governance(room) PROVE UNCHANGED <<attempt, clock>>
      BY <2>1 DEF Governance, Open, Push, Merge, MergeOther, ReviewMerge, AuthoriseMerge, RecordMerge
    <2>2. ASSUME NEW room, Attempts(room) PROVE UNCHANGED <<attempt, clock>>
      BY <2>2 DEF Attempts, ReviewRepin, AuthoriseRepin, PostClaim, PostTerminal, PostDispatch
    <2>3. Governance(Room) \/ Attempts(Room) \/ Wait
      BY DEF Owner, RecordNext
    <2>4. Wait => attempt' = attempt
      BY DEF Wait
    <2> QED  BY <2>1, <2>2, <2>3, <2>4
  <1>8. clock' \in 0..MaxClock
    BY <1>7, BoundsOK DEF TypeOK, Wait
  <1>9. UNCHANGED <<cloud, exec, runs, obs, recovery, evidence>>
    BY DEF Owner
  <1> QED
    BY <1>1, <1>6, <1>7, <1>8, <1>9 DEF TypeOK, cloud, evidence

\* A state an observation may have.
Fits(x) ==
    /\ x \in ObsStates
    /\ x.stage # "idle" => x.facts \in Facts
    /\ x.stage = "planned" /\ x.facts.reconciliation = "no_change" => state.pin = New

\* An assignment to fields of an observation, as one to the whole of it.
SetFacts(o, z, g) == obs' = [obs EXCEPT ![o].stage = z, ![o].facts = g]
SetAll(o, z, t, g) ==
    obs' = [obs EXCEPT ![o].stage = z, ![o].observedAt = t, ![o].facts = g]

LEMMA ObsSet ==
  ASSUME obs \in [Observers -> ObsStates], NEW o \in Observers, NEW z \in ObsStages,
         NEW t \in 0..MaxClock, NEW g \in Facts,
         SetAll(o, z, t, g) \/ SetFacts(o, z, g)
  PROVE  \E x \in ObsStates : x.stage = z /\ x.facts = g /\ obs' = [obs EXCEPT ![o] = x]
  <1> DEFINE all == [obs[o] EXCEPT !.stage = z, !.observedAt = t, !.facts = g]
             some == [obs[o] EXCEPT !.stage = z, !.facts = g]
  <1>0. obs[o] \in ObsStates
    OBVIOUS
  <1>1. CASE SetAll(o, z, t, g)
    <2>1. obs' = [obs EXCEPT ![o] = all]
      BY <1>1 DEF SetAll
    <2>2. all \in ObsStates /\ all.stage = z /\ all.facts = g
      BY <1>0 DEF ObsStates
    <2> QED  BY <2>1, <2>2
  <1>2. CASE SetFacts(o, z, g)
    <2>1. obs' = [obs EXCEPT ![o] = some]
      BY <1>2 DEF SetFacts
    <2>2. some \in ObsStates /\ some.stage = z /\ some.facts = g
      BY <1>0 DEF ObsStates
    <2> QED  BY <2>1, <2>2
  <1> QED  BY <1>1, <1>2

LEMMA ObservationStep ==
  ASSUME TypeOK, RecordOK, CloudOK, NEW o \in Observers, Observation(o)
  PROVE  \/ obs' = obs
         \/ \E x : Fits(x) /\ obs' = [obs EXCEPT ![o] = x]
  <1> DEFINE goal == \E x : Fits(x) /\ obs' = [obs EXCEPT ![o] = x]
             p == obs[o]
             f == p.facts
  <1>0. /\ obs \in [Observers -> ObsStates] /\ p \in ObsStates
        /\ clock \in 0..MaxClock /\ attempt[o] \in 1..MaxAttempt
        /\ state.serial \in Serial0..MaxSerial /\ live \in SUBSET {Old, New}
        /\ Serial0 \in Serial0..MaxSerial
    BY BoundsOK, SerialsOK DEF TypeOK, States
  <1>1. p.stage # "idle" => f \in Facts
    BY DEF RecordOK, ObsOK
  <1>2. ASSUME NEW g \in Facts, NEW z \in ObsStages,
               SetAll(o, z, clock, g) \/ SetFacts(o, z, g),
               z = "planned" /\ g.reconciliation = "no_change" => state.pin = New
        PROVE  goal
    <2>1. PICK x \in ObsStates : x.stage = z /\ x.facts = g /\ obs' = [obs EXCEPT ![o] = x]
      BY <1>0, <1>2, ObsSet
    <2>2. Fits(x)
      BY <1>2, <2>1 DEF Fits
    <2> QED  BY <2>1, <2>2
  <1>3. CASE StartRun(o) \/ Rerun(o)
    BY <1>3 DEF StartRun, Rerun
  <1>4. CASE EndRun(o) \/ PostObservation(o)
    <2>1. Fits(Idle)
      BY BoundsOK DEF Fits, Idle, ObsStates, ObsStages
    <2>2. obs' = [obs EXCEPT ![o] = Idle]
      BY <1>4 DEF EndRun, PostObservation
    <2> QED  BY <2>1, <2>2
  <1>5. ASSUME NEW c \in Of("claim", Now), Observe(o, c) PROVE goal
    <2> DEFINE g == [claim |-> c, observer |-> o, attempt |-> attempt[o],
                     serial |-> Serial0, live |-> {}, unlocked |-> FALSE,
                     absent |-> FALSE, reconciliation |-> "pending"]
    <2>1. c \in Nat
      BY DEF Of, TypeOK, Now
    <2>2. g \in Facts
      BY <1>0, <2>1 DEF Facts
    <2>3. SetAll(o, "begun", clock, g)
      BY <1>5 DEF Observe, SetAll
    <2> HIDE DEF g
    <2> QED  BY <1>2, <2>2, <2>3 DEF ObsStages
  <1>6. CASE ReadState(o)
    <2> DEFINE g == [f EXCEPT !.serial = state.serial]
    <2>1. f \in Facts /\ p.stage = "begun"
      BY <1>1, <1>6 DEF ReadState
    <2>2. g \in Facts
      BY <1>0, <2>1 DEF Facts
    <2>3. SetFacts(o, "state", g)
      BY <1>6 DEF ReadState, SetFacts
    <2> HIDE DEF g
    <2> QED  BY <1>2, <2>2, <2>3 DEF ObsStages
  <1>7. CASE ReadLive(o)
    <2> DEFINE g == [f EXCEPT !.live = live]
    <2>1. f \in Facts /\ p.stage = "state"
      BY <1>1, <1>7 DEF ReadLive
    <2>2. g \in Facts
      BY <1>0, <2>1 DEF Facts
    <2>3. SetFacts(o, "live", g)
      BY <1>7 DEF ReadLive, SetFacts
    <2> HIDE DEF g
    <2> QED  BY <1>2, <2>2, <2>3 DEF ObsStages
  <1>8. CASE ReadObjects(o)
    <2> DEFINE g == [f EXCEPT !.unlocked = (lock = None), !.absent = Absent]
    <2>1. f \in Facts /\ p.stage = "live"
      BY <1>1, <1>8 DEF ReadObjects
    <2>2. g \in Facts
      BY <2>1 DEF Facts, Absent
    <2>3. SetFacts(o, "objects", g)
      BY <1>8 DEF ReadObjects, SetFacts
    <2> HIDE DEF g
    <2> QED  BY <1>2, <2>2, <2>3 DEF ObsStages
  <1>9. ASSUME NEW mode \in {"no_change", "pending"}, PlanFresh(o, mode) PROVE goal
    <2> DEFINE g == [f EXCEPT !.reconciliation = mode]
    <2>1. f \in Facts /\ p.stage = "objects"
      BY <1>1, <1>9 DEF PlanFresh
    <2>2. g \in Facts /\ g.reconciliation = mode
      BY <2>1 DEF Facts
    <2>3. SetFacts(o, "planned", g)
      BY <1>9 DEF PlanFresh, SetFacts
    <2>4. mode = "no_change" => state.pin = New
      BY <1>9 DEF PlanFresh, Reconciled
    <2> HIDE DEF g
    <2> QED  BY <1>2, <2>2, <2>3, <2>4 DEF ObsStages
  <1> QED
    BY <1>3, <1>4, <1>5, <1>6, <1>7, <1>8, <1>9 DEF Observation

\* An observation that is posted has facts, and New in the state if it says so.
LEMMA ObservationPosts ==
  ASSUME TypeOK, RecordOK, NEW o \in Observers, Observation(o), log' # log
  PROVE  \E e : Sound(e) /\ Post(e)
  <1> DEFINE e == [kind |-> "observation", facts |-> obs[o].facts,
                   observedAt |-> obs[o].observedAt, createdAt |-> clock]
  <1>1. PostObservation(o)
    BY DEF Observation, StartRun, EndRun, Rerun, Observe, ReadState, ReadLive, ReadObjects,
        PlanFresh, NotObs
  <1>2. /\ obs[o].facts \in Facts
        /\ obs[o].facts.reconciliation = "no_change" => state.pin = New
    BY <1>1 DEF PostObservation, RecordOK, ObsOK
  <1>3. obs[o].observedAt \in 0..MaxClock /\ clock \in 0..MaxClock
    BY DEF TypeOK, ObsStates
  <1>4. e \in Entries
    BY <1>2, <1>3 DEF Entries, Observations
  <1>5. Sound(e)
    BY <1>2, <1>4 DEF Sound
  <1> QED  BY <1>1, <1>5 DEF PostObservation

LEMMA ObservationType ==
  ASSUME TypeOK, RecordOK, CloudOK, NEW o \in Observers, Observation(o)
  PROVE  TypeOK' /\ Grows /\ ObsOK'
  <1>0. log \in Seq(Entries) /\ Now \in Nat /\ obs \in [Observers -> ObsStates]
    BY DEF TypeOK, Now
  <1>1. log' \in Seq(Entries) /\ Grows
    <2>1. CASE log' = log
      BY <1>0, <2>1 DEF Grows, Now
    <2>2. CASE log' # log
      <3>1. PICK e : Sound(e) /\ Post(e)
        BY <2>2, ObservationPosts
      <3>2. e \in Entries
        BY <3>1 DEF Sound
      <3> QED  BY <1>0, <3>1, <3>2, PostGrows
    <2> QED  BY <2>1, <2>2
  <1>2. UNCHANGED NotObs
    BY DEF Observation, StartRun, EndRun, Rerun, Observe, ReadState, ReadLive, ReadObjects,
        PlanFresh, PostObservation
  <1>3. obs' \in [Observers -> ObsStates] /\ ObsOK'
    <2>1. state' = state
      BY <1>2 DEF NotObs, cloud
    <2>2. CASE obs' = obs
      BY <1>0, <2>1, <2>2 DEF ObsOK, RecordOK
    <2>3. ASSUME NEW x, Fits(x), obs' = [obs EXCEPT ![o] = x]
          PROVE  obs' \in [Observers -> ObsStates] /\ ObsOK'
      BY <1>0, <2>1, <2>3 DEF Fits, ObsOK, RecordOK
    <2> QED  BY <2>2, <2>3, ObservationStep
  <1>4. runs' \in [Observers -> BOOLEAN]
    BY DEF TypeOK, Observation, StartRun, EndRun, Rerun, Observe, ReadState, ReadLive, ReadObjects,
        PlanFresh, PostObservation
  <1>5. attempt' \in [Observers -> 1..MaxAttempt]
    <2>1. ASSUME Rerun(o) PROVE attempt' \in [Observers -> 1..MaxAttempt]
      BY <2>1, BoundsOK DEF TypeOK, Rerun
    <2>2. ASSUME ~ Rerun(o) PROVE attempt' = attempt
      BY <2>2 DEF Observation, StartRun, EndRun, Observe, ReadState, ReadLive, ReadObjects,
          PlanFresh, PostObservation
    <2> QED  BY <2>1, <2>2 DEF TypeOK
  <1> QED
    BY <1>1, <1>2, <1>3, <1>4, <1>5 DEF TypeOK, NotObs, cloud, evidence

-----------------------------------------------------------------------------
\* Every step keeps the types and the record.
LEMMA StepRecord ==
  ASSUME TypeOK, RecordOK, CloudOK, Next
  PROVE  TypeOK' /\ RecordOK' /\ Grows
  <1>0. log \in Seq(Entries) /\ Now \in Nat
    BY DEF TypeOK, Now
  <1>1. state.pin = New => state'.pin = New
    BY StepCloud
  <1>2. /\ TypeOK' /\ Grows
        /\ log' # log => \E e : Sound(e) /\ Post(e)
        /\ PullOK' /\ MainOK' /\ ObsOK'
    <2>1. CASE Owner
      <3>1. TypeOK' /\ PullOK' /\ MainOK' /\ Grows
        BY <2>1, OwnerType
      <3>2. log' # log => \E e : Sound(e) /\ Post(e)
        BY <2>1, OwnerPosts
      <3>3. ObsOK'
        BY <1>1, <2>1 DEF Owner, RecordOK, ObsOK
      <3> QED  BY <3>1, <3>2, <3>3
    <2>2. ASSUME UNCHANGED record, UNCHANGED obs
          PROVE  log' = log /\ Grows /\ PullOK' /\ MainOK' /\ ObsOK'
      BY <1>0, <1>1, <2>2 DEF record, Grows, Now, RecordOK, PullOK, MainOK, ObsOK, Of
    <2>3. ASSUME NEW e \in Executors, Execute(e)
          PROVE  TypeOK' /\ UNCHANGED record /\ UNCHANGED obs
      <3>1. UNCHANGED NotExec
        BY <2>3 DEF Execute, ReadRecord, MatchState, CheckAbsent, Verify, Refuse, BeginApply,
            DeleteOld, CreateNew, EndApply, FailApply, LoseApply
      <3> QED  BY <2>3, <3>1, ExecType DEF NotExec
    <2>4. ASSUME ForceUnlock PROVE TypeOK' /\ UNCHANGED record /\ UNCHANGED obs
      BY <2>4 DEF ForceUnlock, NotExec, TypeOK, record, evidence
    <2>5. ASSUME NEW r \in Recoveries, Recover(r) PROVE TypeOK' /\ UNCHANGED record /\ UNCHANGED obs
      <3>1. UNCHANGED NotRecovery
        BY <2>5 DEF Recover, BindRecovery, ClearBoundary, ClaimRecovery, CompareProduct, UploadResult,
            FailRecovery
      <3> QED  BY <2>5, <3>1, RecoveryType DEF NotRecovery
    <2>6. ASSUME NEW o \in Observers, Observation(o)
          PROVE  /\ TypeOK' /\ Grows /\ ObsOK' /\ PullOK' /\ MainOK'
                 /\ log' # log => \E e : Sound(e) /\ Post(e)
      <3>1. TypeOK' /\ Grows /\ ObsOK'
        BY <2>6, ObservationType
      <3>2. log' # log => \E e : Sound(e) /\ Post(e)
        BY <2>6, ObservationPosts
      <3>3. UNCHANGED <<pull, main>>
        BY <2>6 DEF Observation, StartRun, EndRun, Rerun, Observe, ReadState, ReadLive, ReadObjects,
            PlanFresh, PostObservation, NotObs
      <3>4. main \in Of("merge", Now) => main \in Of("merge", Now)'
        BY <1>0, <3>1 DEF Grows, Of, TypeOK, Now
      <3> QED  BY <3>1, <3>2, <3>3, <3>4 DEF RecordOK, PullOK, MainOK
    <2> QED  BY <2>1, <2>2, <2>3, <2>4, <2>5, <2>6 DEF Next
  <1>3. \A kind : Of(kind, Now) \subseteq Of(kind, Now)'
    BY <1>0, <1>2 DEF Grows, Of, TypeOK, Now
  <1>4. LogOK'
    <2>1. ASSUME NEW i \in 1..Now' PROVE Sound(log[i])'
      <3>1. CASE i \in 1..Now
        <4>1. Sound(log[i]) /\ log'[i] = log[i]
          BY <1>2, <3>1 DEF RecordOK, LogOK, Grows
        <4> QED  BY <1>1, <1>3, <4>1 DEF Sound
      <3>2. CASE i \notin 1..Now
        <4>1. log' # log
          BY <3>2 DEF Now
        <4>2. PICK e : Sound(e) /\ Post(e)
          BY <1>2, <4>1
        <4>3. Now' = Now + 1 /\ log'[Now + 1] = e
          BY <1>0, <4>2, PostGrows DEF Sound
        <4>4. i = Now + 1
          BY <1>0, <3>2, <4>3
        <4> QED  BY <1>1, <1>3, <4>2, <4>3, <4>4 DEF Sound
      <3> QED  BY <3>1, <3>2
    <2> QED  BY <2>1 DEF LogOK
  <1> QED  BY <1>2, <1>4 DEF RecordOK

-----------------------------------------------------------------------------
(* What a validator has found of the first n entries.                       *)

LEMMA Least ==
  ASSUME NEW S \in SUBSET Nat, S # {}
  PROVE  \E n \in S : \A m \in S : n <= m
  <1> DEFINE R == OpToRel(<, Nat)
  <1>1. IsWellFoundedOn(R, Nat)
    BY NatLessThanWellFounded, Zenon
  <1>2. \A x, y \in Nat : x < y => <<x, y>> \in R
    BY Zenon DEF OpToRel
  <1> HIDE DEF R
  <1>3. PICK n \in S : \A m \in S : ~ (<<m, n>> \in R)
    BY <1>1, WFMin
  <1>4. ASSUME NEW m \in S PROVE n <= m
    <2>1. m \in Nat /\ n \in Nat
      OBVIOUS
    <2>2. ~ (m < n)
      BY <1>2, <1>3, <2>1, Zenon
    <2> QED  BY <2>1, <2>2
  <1> QED  BY <1>4

LEMMA ClaimOnRecord ==
  ASSUME TypeOK, LogOK, NEW n \in 0..Now, NEW c \in Of("claim", n)
  PROVE  /\ c \in 1..n /\ c \in 1..Now /\ log[c].kind = "claim"
         /\ Generation(c) \in Nat \ {0}
         /\ log[c].authority \in 1..Now
         /\ ReviewOf(c) \in 1..Now
  <1>1. Now \in Nat
    BY DEF TypeOK, Now
  <1>2. c \in 1..n /\ c \in 1..Now /\ log[c].kind = "claim"
    BY <1>1 DEF Of
  <1>3. Sound(log[c])
    BY <1>2 DEF LogOK
  <1>4. log[c] \in Claims
    BY <1>2, <1>3, EntryOfKind DEF Sound
  <1>5. log[c].authority \in 1..Now /\ log[log[c].authority].kind = "repin_authority"
    BY <1>2, <1>3 DEF Sound, Of
  <1>6. Sound(log[log[c].authority])
    BY <1>5 DEF LogOK
  <1>7. ReviewOf(c) \in 1..Now
    BY <1>5, <1>6 DEF Sound, Of, ReviewOf
  <1> QED  BY <1>2, <1>4, <1>5, <1>7, BoundsOK DEF Claims, Generation

LEMMA TerminalOnRecord ==
  ASSUME TypeOK, LogOK, NEW n \in 0..Now, NEW t \in Of("terminal", n)
  PROVE  /\ t \in 1..n /\ t \in 1..Now
         /\ log[t].first \in Of("observation", Now)
         /\ log[t].second \in Of("observation", Now) \cup {0}
  <1>1. Now \in Nat
    BY DEF TypeOK, Now
  <1>2. t \in 1..n /\ t \in 1..Now /\ log[t].kind = "terminal"
    BY <1>1 DEF Of
  <1>3. Sound(log[t])
    BY <1>2 DEF LogOK
  <1> QED  BY <1>2, <1>3 DEF Sound

\* A generation that follows a terminal is reviewed after the one before.
LEMMA FollowsReview ==
  ASSUME TypeOK, LogOK, NEW n \in 0..Now, NEW p \in Of("claim", n), NEW d \in Of("claim", n),
         NEW r \in Nat, Ordered(p, r), NEW t \in TerminalsOf(p, n), MayFollow(t, d)
  PROVE  ReviewOf(p) < ReviewOf(d)
  <1>1. /\ p \in Nat /\ log[p].authority \in Nat /\ ReviewOf(p) \in Nat /\ ReviewOf(d) \in Nat
    BY ClaimOnRecord
  <1>2. t \in Of("terminal", n) /\ log[t].claim = p
    BY DEF TerminalsOf
  <1>3. t \in Nat /\ log[t].first \in Nat
    BY <1>2, TerminalOnRecord DEF Of
  <1>4. p < log[t].first /\ log[t].first < t /\ t < ReviewOf(d)
    BY <1>2 DEF MayFollow, TerminalHolds, Concludes, ObservationHolds
  <1>5. ReviewOf(p) < log[p].authority /\ log[p].authority < p
    BY DEF Ordered
  <1> QED  BY <1>1, <1>3, <1>4, <1>5

\* The generations of a chain are reviewed in their order.
LEMMA ReviewsInOrder ==
  ASSUME TypeOK, LogOK, NEW n \in 0..Now, NEW c, Chain(c, n),
         NEW b \in Of("claim", n), NEW d \in Of("claim", n),
         Generation(b) < Generation(d), Generation(d) <= Generation(c)
  PROVE  ReviewOf(b) < ReviewOf(d)
  <1> DEFINE Wrong(g) == \E x, y \in Of("claim", n) :
                 /\ Generation(y) = g /\ g <= Generation(c)
                 /\ Generation(x) < g /\ ~ (ReviewOf(x) < ReviewOf(y))
             S == {g \in Nat : Wrong(g)}
  <1>1. \A x \in Of("claim", n) : Generation(x) \in Nat \ {0} /\ ReviewOf(x) \in Nat
    BY ClaimOnRecord
  <1>2. ASSUME S # {} PROVE FALSE
    <2>1. PICK g \in S : \A h \in S : g <= h
      <3> HIDE DEF S
      <3> S \in SUBSET Nat
        BY DEF S
      <3> QED  BY <1>2, Least
    <2>2. g \in Nat /\ Wrong(g)
      OBVIOUS
    <2>3. PICK x, y \in Of("claim", n) :
              /\ Generation(y) = g /\ g <= Generation(c)
              /\ Generation(x) < g /\ ~ (ReviewOf(x) < ReviewOf(y))
      BY <2>2
    <2>4. g - 1 \in Nat /\ g - 1 \in 1..Generation(y) /\ c \in Of("claim", n)
      BY <1>1, <2>3 DEF Chain
    <2>5. PICK p \in Of("claim", n) : Generation(p) = g - 1
      BY <2>3, <2>4 DEF Chain, History
    <2>6. PICK r \in Of("record", n) : \A z \in Of("claim", n) :
              Generation(z) <= Generation(c) => Ordered(z, r) /\ Transition(z, n)
      BY DEF Chain
    <2>7. Ordered(p, r) /\ Transition(y, n) /\ r \in Nat
      <3>1. Generation(p) <= Generation(c) /\ Generation(y) <= Generation(c)
        BY <1>1, <2>2, <2>3, <2>4, <2>5
      <3> QED  BY <2>6, <3>1 DEF Of
    <2>8. PICK t \in TerminalsOf(p, n) : MayFollow(t, y)
      <3>1. Generation(p) + 1 = Generation(y)
        BY <2>2, <2>3, <2>5
      <3> QED  BY <2>7, <3>1 DEF Transition
    <2>9. ReviewOf(p) < ReviewOf(y)
      BY <2>7, <2>8, FollowsReview
    <2>10. CASE Generation(x) = g - 1
      <3>1. x = p
        BY <2>5, <2>10 DEF Chain, History
      <3> QED  BY <2>3, <2>9, <3>1
    <2>11. CASE Generation(x) # g - 1
      <3>1. Generation(x) < g - 1 /\ g - 1 <= Generation(c)
        BY <1>1, <2>2, <2>3, <2>4, <2>11
      <3>2. g - 1 \notin S
        <4>1. ~ (g <= g - 1)
          BY <2>2
        <4> HIDE DEF S
        <4> QED  BY <2>1, <4>1
      <3>3. ReviewOf(x) < ReviewOf(p)
        BY <2>4, <2>5, <3>1, <3>2
      <3> QED  BY <1>1, <2>3, <2>9, <3>3
    <2> QED  BY <2>10, <2>11
  <1>3. ~ Wrong(Generation(d))
    BY <1>1, <1>2
  <1> QED  BY <1>3

\* The terminal t found no effect, and c was reviewed after that.
Opens(t, c) ==
    /\ t < ReviewOf(c)
    /\ log[t].second # 0
    /\ NoEffect(log[t].first, log[t].second)

Preceded(c, n) ==
    \A b \in Of("claim", n) : Generation(b) < Generation(c) =>
        \E t \in TerminalsOf(b, n) : Opens(t, c)

LEMMA ChainPreceded ==
  ASSUME TypeOK, LogOK, NEW n \in 0..Now, NEW c, Chain(c, n)
  PROVE  Preceded(c, n)
  <1>1. \A x \in Of("claim", n) : Generation(x) \in Nat \ {0} /\ ReviewOf(x) \in Nat
    BY ClaimOnRecord
  <1>2. c \in Of("claim", n) /\ History(n)
    BY DEF Chain
  <1> SUFFICES ASSUME NEW b \in Of("claim", n), Generation(b) < Generation(c)
               PROVE  \E t \in TerminalsOf(b, n) : Opens(t, c)
    BY DEF Preceded
  <1>3. Generation(b) + 1 \in 1..Generation(c)
    BY <1>1, <1>2
  <1>4. PICK d \in Of("claim", n) : Generation(d) = Generation(b) + 1
    BY <1>2, <1>3 DEF History
  <1>5. Transition(d, n)
    <2>1. Generation(d) <= Generation(c)
      BY <1>3, <1>4
    <2> QED  BY <2>1 DEF Chain
  <1>6. PICK t \in TerminalsOf(b, n) : MayFollow(t, d)
    BY <1>4, <1>5 DEF Transition
  <1>7. log[t].second # 0 /\ NoEffect(log[t].first, log[t].second)
    BY <1>6 DEF MayFollow, TerminalHolds, Concludes, Outcome
  <1>8. t \in Nat /\ t < ReviewOf(d)
    BY <1>6, TerminalOnRecord DEF MayFollow, TerminalsOf
  <1>9. ReviewOf(d) <= ReviewOf(c)
    <2>1. CASE d = c
      BY <1>1, <1>2, <2>1
    <2>2. CASE d # c
      <3>1. Generation(d) # Generation(c)
        BY <1>2, <2>2 DEF History
      <3>2. Generation(d) < Generation(c)
        BY <1>1, <1>2, <1>3, <1>4, <3>1
      <3>3. ReviewOf(d) < ReviewOf(c)
        BY <1>1, <1>2, <3>2, ReviewsInOrder
      <3> QED  BY <1>1, <1>2, <3>3
    <2> QED  BY <2>1, <2>2
  <1>10. t < ReviewOf(c)
    BY <1>1, <1>2, <1>8, <1>9
  <1> QED  BY <1>6, <1>7, <1>10 DEF Opens

\* The two merges of EffectIsAuthorised, of the claim c.
AuthorisedBefore(c) ==
    \E k, m \in Of("merge", c) :
        /\ log[k].pr = "control" /\ log[m].pr = "activation"
        /\ Authorised(k) /\ Authorised(m)
        /\ log[m].base = k
        /\ m < ReviewOf(c)

\* A record that holds is of a merge that was authorised.
LEMMA RecordedMerge ==
  ASSUME TypeOK, LogOK, NEW n \in 0..Now, NEW p, NEW base, NEW r \in Of("record", n),
         Recorded(p, r, base, n)
  PROVE  /\ log[r].merge \in Of("merge", Now) /\ log[r].merge < r /\ r \in 1..Now
         /\ log[log[r].merge].pr = p /\ log[log[r].merge].base = base
         /\ Authorised(log[r].merge)
         /\ log[log[r].authority].review \in Nat
         /\ log[log[r].authority].review < log[r].merge
  <1> DEFINE m == log[r].merge
             a == log[r].authority
             v == log[a].review
  <1>1. Now \in Nat
    BY DEF TypeOK, Now
  <1>2. r \in 1..Now /\ log[r].kind = "record"
    BY <1>1 DEF Of
  <1>3. m \in Of("merge", Now) /\ a \in Of("merge_authority", Now)
    BY <1>2 DEF LogOK, Sound
  <1>4. a \in 1..Now /\ log[a].kind = "merge_authority"
    BY <1>3 DEF Of
  <1>5. v \in Of("merge_review", Now)
    BY <1>4 DEF LogOK, Sound
  <1>6. /\ log[m].pr = p /\ log[a].pr = p /\ log[v].pr = p
        /\ log[m].base = base
        /\ MergedAsReviewed(m, v)
        /\ v < a /\ a < m /\ m < r
    BY DEF Recorded
  <1>7. m \in 1..Now /\ v \in 1..Now /\ log[v].kind = "merge_review"
    BY <1>3, <1>5 DEF Of
  <1>8. v \in Of("merge_review", m) /\ a \in Of("merge_authority", m)
    <2>1. v \in 1..m /\ a \in 1..m
      BY <1>1, <1>4, <1>6, <1>7
    <2> QED  BY <1>4, <1>7, <2>1 DEF Of
  <1>9. Authorised(m)
    BY <1>6, <1>8 DEF Authorised, MergedAsReviewed
  <1>10. v < m
    BY <1>4, <1>6, <1>7
  <1> QED  BY <1>2, <1>3, <1>6, <1>7, <1>9, <1>10

LEMMA ChainAuthorised ==
  ASSUME TypeOK, LogOK, NEW n \in 0..Now, NEW c, Chain(c, n)
  PROVE  AuthorisedBefore(c)
  <1>1. c \in Of("claim", n)
    BY DEF Chain
  <1>2. PICK i, r \in Of("record", n) :
            /\ ActivationRecorded(i, r, n)
            /\ \A d \in Of("claim", n) :
                   Generation(d) <= Generation(c) => Ordered(d, r) /\ Transition(d, n)
    BY DEF Chain
  <1> DEFINE k == log[i].merge
             m == log[r].merge
             v == log[log[r].authority].review
  <1>3. Recorded("control", i, 0, n) /\ Recorded("activation", r, k, n) /\ i < v
    BY <1>2 DEF ActivationRecorded
  <1>4. /\ k \in Of("merge", Now) /\ k < i /\ i \in 1..Now
        /\ log[k].pr = "control" /\ Authorised(k)
    BY <1>3, RecordedMerge
  <1>5. /\ m \in Of("merge", Now) /\ m < r /\ r \in 1..Now
        /\ log[m].pr = "activation" /\ log[m].base = k /\ Authorised(m)
        /\ v \in Nat /\ v < m
    BY <1>3, RecordedMerge
  <1>6. c \in Nat /\ log[c].authority \in Nat /\ ReviewOf(c) \in Nat /\ Generation(c) \in Nat
    BY <1>1, ClaimOnRecord
  <1>7. Ordered(c, r)
    <2>1. Generation(c) <= Generation(c)
      BY <1>6
    <2> QED  BY <1>1, <1>2, <2>1
  <1>8. k \in 1..Now /\ log[k].kind = "merge" /\ m \in 1..Now /\ log[m].kind = "merge"
    BY <1>4, <1>5 DEF Of
  <1>9. m < ReviewOf(c) /\ m \in 1..c /\ k \in 1..c
    BY <1>3, <1>4, <1>5, <1>6, <1>7, <1>8 DEF Ordered
  <1>10. k \in Of("merge", c) /\ m \in Of("merge", c)
    BY <1>8, <1>9 DEF Of
  <1> QED  BY <1>4, <1>5, <1>9, <1>10 DEF AuthorisedBefore

-----------------------------------------------------------------------------
(* What an executor that may apply knows of its claim, for good.            *)

\* The first n entries have c as their one latest generation, in order.
Latest(c, n) ==
    /\ c \in Of("claim", n)
    /\ Current(c, n)
    /\ \A d \in Of("claim", n) : Generation(d) = Generation(c) => d = c
    /\ Preceded(c, n)

Ready(c) == AuthorisedBefore(c) /\ \E n \in 0..Now : Latest(c, n)

LEMMA EffectReadyGivesReady ==
  ASSUME TypeOK, LogOK, NEW n \in 0..Now, NEW c, EffectReady(c, n)
  PROVE  Ready(c)
  <1>1. Current(c, n) /\ Chain(c, n)
    BY DEF EffectReady
  <1>2. AuthorisedBefore(c) /\ Preceded(c, n)
    BY <1>1, ChainAuthorised, ChainPreceded
  <1>3. Latest(c, n)
    BY <1>1, <1>2 DEF Latest, Chain, History
  <1> QED  BY <1>2, <1>3 DEF Ready

\* What the first n entries say does not change.
LEMMA OfStays ==
  ASSUME Now \in Nat, Grows, NEW n \in 0..Now
  PROVE  \A kind : Of(kind, n)' = Of(kind, n)
  BY DEF Of, Grows

LEMMA PrecededStays ==
  ASSUME TypeOK, LogOK, Grows, NEW n \in 0..Now, NEW c \in Of("claim", n), Preceded(c, n)
  PROVE  Preceded(c, n)'
  <1>1. Now \in Nat
    BY DEF TypeOK, Now
  <1>2. \A kind : Of(kind, n)' = Of(kind, n)
    BY <1>1, OfStays
  <1>3. ASSUME NEW x \in Of("claim", n)
        PROVE  Generation(x)' = Generation(x) /\ ReviewOf(x)' = ReviewOf(x)
    <2>1. x \in 1..Now /\ log[x].authority \in 1..Now
      BY ClaimOnRecord
    <2> QED  BY <2>1 DEF Grows, Generation, ReviewOf
  <1> SUFFICES ASSUME NEW b \in Of("claim", n), Generation(b) < Generation(c)
               PROVE  \E t \in TerminalsOf(b, n)' : Opens(t, c)'
    BY <1>2, <1>3 DEF Preceded
  <1>4. PICK t \in TerminalsOf(b, n) : Opens(t, c)
    BY DEF Preceded
  <1> DEFINE f == log[t].first
             s == log[t].second
  <1>5. t \in Of("terminal", n) /\ t \in 1..Now /\ f \in 1..Now /\ s \in 1..Now
    BY <1>4, TerminalOnRecord DEF TerminalsOf, Of, Opens
  <1>6. log'[t] = log[t] /\ log'[f] = log[f] /\ log'[s] = log[s]
    BY <1>5 DEF Grows
  <1>7. t \in TerminalsOf(b, n)'
    BY <1>2, <1>4, <1>5, <1>6 DEF TerminalsOf
  <1>8. Opens(t, c)'
    BY <1>3, <1>4, <1>6 DEF Opens, NoEffect
  <1> QED  BY <1>7, <1>8

LEMMA LatestStays ==
  ASSUME TypeOK, LogOK, Grows, NEW n \in 0..Now, NEW c, Latest(c, n)
  PROVE  Latest(c, n)'
  <1>1. Now \in Nat
    BY DEF TypeOK, Now
  <1>2. Of("claim", n)' = Of("claim", n) /\ c \in Of("claim", n)
    BY <1>1, OfStays DEF Latest
  <1>3. \A x \in Of("claim", n) : Generation(x)' = Generation(x)
    <2>1. \A x \in Of("claim", n) : x \in 1..Now
      BY ClaimOnRecord
    <2> QED  BY <2>1 DEF Grows, Generation
  <1>4. Preceded(c, n)'
    BY <1>2, PrecededStays DEF Latest
  <1> QED  BY <1>2, <1>3, <1>4 DEF Latest, Current

LEMMA AuthorisedStays ==
  ASSUME TypeOK, LogOK, Grows, NEW n \in 0..Now, NEW c \in Of("claim", n), AuthorisedBefore(c)
  PROVE  AuthorisedBefore(c)'
  <1>1. Now \in Nat
    BY DEF TypeOK, Now
  <1>2. c \in 1..Now /\ log[c].authority \in 1..Now
    BY ClaimOnRecord
  <1>3. ReviewOf(c)' = ReviewOf(c)
    BY <1>2 DEF Grows, ReviewOf
  <1>4. PICK k, m \in Of("merge", c) :
            /\ log[k].pr = "control" /\ log[m].pr = "activation"
            /\ Authorised(k) /\ Authorised(m)
            /\ log[m].base = k
            /\ m < ReviewOf(c)
    BY DEF AuthorisedBefore
  <1>5. c \in 0..Now /\ k \in 0..Now /\ m \in 0..Now /\ k \in 1..Now /\ m \in 1..Now
    BY <1>1, <1>2 DEF Of
  <1>6. k \in Of("merge", c)' /\ m \in Of("merge", c)'
    BY <1>1, <1>5, OfStays
  <1>7. log'[k] = log[k] /\ log'[m] = log[m]
    BY <1>5 DEF Grows
  <1>8. ASSUME NEW x \in 1..Now, Authorised(x) PROVE Authorised(x)'
    <2>1. PICK v \in Of("merge_review", x), a \in Of("merge_authority", x) :
              /\ log[v].pr = log[x].pr /\ log[v].head = log[x].head /\ log[v].tree = log[x].tree
              /\ log[a].review = v /\ v < a
      BY <1>8 DEF Authorised
    <2>2. v \in 1..Now /\ a \in 1..Now /\ x \in 0..Now
      BY <1>1 DEF Of
    <2>3. log'[v] = log[v] /\ log'[a] = log[a] /\ log'[x] = log[x]
      BY <2>2 DEF Grows
    <2>4. v \in Of("merge_review", x)' /\ a \in Of("merge_authority", x)'
      BY <1>1, <2>2, OfStays
    <2> QED  BY <2>1, <2>3, <2>4 DEF Authorised
  <1>9. Authorised(k)' /\ Authorised(m)'
    BY <1>4, <1>5, <1>8
  <1> QED  BY <1>3, <1>4, <1>6, <1>7, <1>9 DEF AuthorisedBefore

LEMMA ReadyStays ==
  ASSUME TypeOK, LogOK, TypeOK', Grows, NEW c, Ready(c)
  PROVE  Ready(c)'
  <1>1. Now \in Nat /\ Now' \in Nat
    BY DEF TypeOK, Now
  <1>2. PICK n \in 0..Now : Latest(c, n)
    BY DEF Ready
  <1>3. Latest(c, n)' /\ AuthorisedBefore(c)'
    BY <1>2, LatestStays, AuthorisedStays DEF Latest, Ready
  <1>4. n \in 0..Now'
    BY <1>1 DEF Grows
  <1> QED  BY <1>3, <1>4 DEF Ready

\* Two claims that are ready are compared in the longer of their records.
LEMMA ReadyInOrder ==
  ASSUME TypeOK, LogOK, NEW c, Ready(c), NEW d, Ready(d)
  PROVE  /\ Generation(c) = Generation(d) => c = d
         /\ Generation(c) < Generation(d) =>
                \E t \in TerminalsOf(c, Now) : Opens(t, d)
  <1>1. Now \in Nat
    BY DEF TypeOK, Now
  <1>2. PICK n \in 0..Now : Latest(c, n)
    BY DEF Ready
  <1>3. PICK m \in 0..Now : Latest(d, m)
    BY DEF Ready
  <1>4. Generation(c) \in Nat /\ Generation(d) \in Nat
    BY <1>2, <1>3, ClaimOnRecord DEF Latest
  <1>5. CASE n <= m
    <2>1. c \in Of("claim", m)
      BY <1>1, <1>2, <1>5 DEF Latest, Of
    <2>2. TerminalsOf(c, m) \subseteq TerminalsOf(c, Now)
      BY <1>1 DEF TerminalsOf, Of
    <2> QED  BY <1>3, <2>1, <2>2 DEF Latest, Preceded
  <1>6. CASE m <= n
    <2>1. d \in Of("claim", n)
      BY <1>1, <1>3, <1>6 DEF Latest, Of
    <2>2. Generation(d) <= Generation(c)
      BY <1>2, <2>1 DEF Latest, Current
    <2> QED  BY <1>2, <1>4, <2>1, <2>2 DEF Latest
  <1> QED  BY <1>1, <1>5, <1>6

-----------------------------------------------------------------------------
(* Executors.                                                               *)

Reading(e) == exec[e].stage \in {"read", "matched", "free"}

\* The command has found the claim c ready.
Admits(e, c) ==
    /\ exec[e].claim = c
    /\ exec[e].stage \in {"ready", "applying", "deleted", "created", "done", "partial", "lost"}

ExecOK ==
    \A e \in Executors :
        /\ Reading(e) => exec[e].seen \in 0..Now
        /\ \A c \in Nat : Admits(e, c) => Ready(c)

LEMMA InitExec == Init => ExecOK
  BY DEF Init, ExecOK, Reading, Admits, Unstarted

\* An executor stays as it is, or goes on with the claim and the record it
\* has read.
LEMMA ExecStays ==
  ASSUME TypeOK, TypeOK', LogOK, Grows, ExecOK, NEW f \in Executors,
         Reading(f)' => Reading(f) /\ exec'[f].seen = exec[f].seen,
         \A c \in Nat : Admits(f, c)' => Admits(f, c)
  PROVE  /\ Reading(f)' => exec'[f].seen \in 0..Now'
         /\ \A c \in Nat : Admits(f, c)' => Ready(c)'
  <1>1. Now \in Nat /\ Now' \in Nat
    BY DEF TypeOK, Now
  <1>2. Reading(f)' => exec'[f].seen \in 0..Now'
    BY <1>1 DEF ExecOK, Grows
  <1>3. ASSUME NEW c \in Nat, Admits(f, c)' PROVE Ready(c)'
    <2>1. Ready(c)
      BY <1>3 DEF ExecOK
    <2> QED  BY <2>1, ReadyStays
  <1> QED  BY <1>2, <1>3

LEMMA StepExec ==
  ASSUME TypeOK, RecordOK, CloudOK, ExecOK, Next
  PROVE  ExecOK'
  <1>0. /\ TypeOK' /\ Grows /\ LogOK
        /\ exec \in [Executors -> ExecStates] /\ Now \in Nat
    BY StepRecord DEF RecordOK, TypeOK, Now
  <1>1. ASSUME UNCHANGED exec PROVE ExecOK'
    <2>1. ASSUME NEW f \in Executors
          PROVE  /\ Reading(f)' => exec'[f].seen \in 0..Now'
                 /\ \A c \in Nat : Admits(f, c)' => Ready(c)'
      <3>1. Reading(f)' => Reading(f) /\ exec'[f].seen = exec[f].seen
        BY <1>1 DEF Reading
      <3>2. \A c \in Nat : Admits(f, c)' => Admits(f, c)
        BY <1>1 DEF Admits
      <3> QED  BY <1>0, <3>1, <3>2, ExecStays
    <2> QED  BY <2>1 DEF ExecOK
  <1>2. ASSUME NEW e \in Executors, NEW new,
               exec' = [exec EXCEPT ![e] = new],
               new.stage \in {"read", "matched", "free"} => new.seen \in 0..Now',
               \A c \in Nat : Admits(e, c)' => Ready(c)'
        PROVE  ExecOK'
    <2>1. ASSUME NEW f \in Executors
          PROVE  /\ Reading(f)' => exec'[f].seen \in 0..Now'
                 /\ \A c \in Nat : Admits(f, c)' => Ready(c)'
      <3>1. CASE f = e
        <4>1. exec'[e] = new
          BY <1>0, <1>2
        <4> QED  BY <1>2, <3>1, <4>1 DEF Reading
      <3>2. CASE f # e
        <4>1. exec'[f] = exec[f]
          BY <1>0, <1>2, <3>2
        <4>2. Reading(f)' => Reading(f) /\ exec'[f].seen = exec[f].seen
          BY <4>1 DEF Reading
        <4>3. \A c \in Nat : Admits(f, c)' => Admits(f, c)
          BY <4>1 DEF Admits
        <4> QED  BY <1>0, <4>2, <4>3, ExecStays
      <3> QED  BY <3>1, <3>2
    <2> QED  BY <2>1 DEF ExecOK
  <1>3. ASSUME NEW e \in Executors, NEW c \in Of("claim", Now), ReadRecord(e, c)
        PROVE  ExecOK'
    <2> DEFINE new == [stage |-> "read", claim |-> c, seen |-> Now]
    <2>1. exec' = [exec EXCEPT ![e] = new]
      BY <1>3 DEF ReadRecord
    <2>2. log' = log
      BY <1>3 DEF ReadRecord, NotExec, record
    <2>3. new.stage = "read" /\ new.seen \in 0..Now'
      BY <1>0, <2>2 DEF Now
    <2>4. \A d \in Nat : ~ Admits(e, d)'
      BY <1>0, <2>1 DEF Admits
    <2> HIDE DEF new
    <2> QED  BY <1>2, <2>1, <2>3, <2>4
  <1>4. ASSUME NEW e \in Executors, Refuse(e) PROVE ExecOK'
    <2>1. exec' = [exec EXCEPT ![e] = Unstarted]
      BY <1>4 DEF Refuse
    <2>2. \A d \in Nat : ~ Admits(e, d)'
      BY <1>0, <2>1 DEF Admits, Unstarted
    <2> QED  BY <1>2, <2>1, <2>2 DEF Unstarted
  <1>5. ASSUME NEW e \in Executors, Verify(e) PROVE ExecOK'
    <2> DEFINE new == [exec[e] EXCEPT !.stage = "ready", !.seen = 0]
    <2>1. exec' = [exec EXCEPT ![e] = new]
      BY <1>5 DEF Verify
    <2>2. new.stage = "ready" /\ new.claim = exec[e].claim
      BY <1>0 DEF ExecStates
    <2>3. ASSUME NEW c \in Nat, Admits(e, c)' PROVE Ready(c)'
      <3> HIDE DEF new
      <3>1. exec[e].claim = c
        BY <1>0, <2>1, <2>2, <2>3 DEF Admits
      <3>2. PICK n \in 0..Now : n = exec[e].seen
        BY <1>5 DEF Verify, ExecOK, Reading
      <3>3. EffectReady(c, n)
        BY <1>5, <3>1, <3>2 DEF Verify
      <3>4. Ready(c)
        BY <1>0, <3>3, EffectReadyGivesReady
      <3> QED  BY <1>0, <3>4, ReadyStays
    <2> HIDE DEF new
    <2> QED  BY <1>2, <2>1, <2>2, <2>3
  <1>6. ASSUME NEW e \in Executors, NEW from, NEW to \in ExecStages, ExecStep(e, from, to),
               to \in {"matched", "free"} => from \in {"read", "matched"},
               to \notin {"matched", "free"} =>
                   /\ to # "read"
                   /\ from \in {"ready", "applying", "deleted", "created"}
        PROVE  ExecOK'
    <2>1. /\ exec[e].stage = from
          /\ \A f \in Executors :
                 /\ exec'[f].stage = IF f = e THEN to ELSE exec[f].stage
                 /\ exec'[f].claim = exec[f].claim
                 /\ exec'[f].seen = exec[f].seen
      BY <1>0, <1>6, ExecStage
    <2>2. ASSUME NEW f \in Executors
          PROVE  /\ Reading(f)' => exec'[f].seen \in 0..Now'
                 /\ \A c \in Nat : Admits(f, c)' => Ready(c)'
      <3>1. Reading(f)' => Reading(f) /\ exec'[f].seen = exec[f].seen
        BY <1>6, <2>1 DEF Reading
      <3>2. \A c \in Nat : Admits(f, c)' => Admits(f, c)
        BY <1>6, <2>1 DEF Admits
      <3> QED  BY <1>0, <3>1, <3>2, ExecStays
    <2> QED  BY <2>2 DEF ExecOK
  <1>7. ASSUME NEW e \in Executors, LoseApply(e) PROVE ExecOK'
    <2>1. PICK from \in {"applying", "deleted", "created"} : ExecStep(e, from, "lost")
      BY <1>7 DEF LoseApply, ExecStep
    <2> QED  BY <1>6, <2>1 DEF ExecStages
  <1>8. ASSUME NEW e \in Executors, Execute(e) PROVE ExecOK'
    <2>1. CASE MatchState(e) \/ CheckAbsent(e)
      BY <1>6, <2>1 DEF MatchState, CheckAbsent, ExecStages
    <2>2. CASE BeginApply(e) \/ DeleteOld(e) \/ CreateNew(e) \/ EndApply(e) \/ FailApply(e)
      BY <1>6, <2>2 DEF BeginApply, DeleteOld, CreateNew, EndApply, FailApply, ExecStages
    <2> QED
      BY <1>3, <1>4, <1>5, <1>7, <1>8, <2>1, <2>2 DEF Execute
  <1>9. Owner => UNCHANGED exec
    BY DEF Owner
  <1>10. ForceUnlock => UNCHANGED exec
    BY DEF ForceUnlock
  <1>11. ASSUME NEW o \in Observers, Observation(o) PROVE UNCHANGED exec
    BY <1>11 DEF Observation, StartRun, EndRun, Rerun, Observe, ReadState, ReadLive, ReadObjects,
         PlanFresh, PostObservation, NotObs
  <1>12. ASSUME NEW r \in Recoveries, Recover(r) PROVE UNCHANGED exec
    BY <1>12 DEF Recover, BindRecovery, ClearBoundary, ClaimRecovery, CompareProduct, UploadResult,
         FailRecovery, NotRecovery
  <1> QED  BY <1>1, <1>8, <1>9, <1>10, <1>11, <1>12 DEF Next

-----------------------------------------------------------------------------
(* Recovery runs.                                                           *)

RecoveryOK ==
    /\ \A r \in Recoveries :
        /\ recovery[r] \in {"bound", "clear", "claimed", "compared", "done"} => state.pin = New
        /\ recovery[r] \in {"claimed", "compared", "done"} => claimed = r
    /\ claimed # None => state.pin = New

LEMMA InitRecovery == Init => RecoveryOK
  BY DEF Init, RecoveryOK

\* An observation of success is made when the state has New.
LEMMA SuccessIsNew ==
  ASSUME LogOK, NEW o \in Of("observation", Now), Succeeded(o)
  PROVE  state.pin = New
  <1>1. o \in 1..Now /\ log[o].kind = "observation"
    BY DEF Of
  <1>2. Sound(log[o])
    BY <1>1 DEF LogOK
  <1> QED  BY <1>1, <1>2 DEF Sound, Succeeded

\* A dispatch authority that is valid tells of a success.
LEMMA DispatchIsNew ==
  ASSUME TypeOK, LogOK, DispatchValid(Now)
  PROVE  state.pin = New
  <1>1. PICK t : Dispatched(t, Now)
    BY DEF DispatchValid
  <1>2. t \in Of("terminal", Now) /\ TerminalHolds(t) /\ log[t].outcome = "EFFECT_SUCCEEDED"
    BY <1>1 DEF Dispatched
  <1>3. log[t].first \in Of("observation", Now)
    <2>1. Now \in 0..Now
      BY DEF TypeOK, Now
    <2> QED  BY <1>2, <2>1, TerminalOnRecord
  <1>4. Succeeded(log[t].first)
    BY <1>2 DEF TerminalHolds, Concludes, Outcome
  <1> QED  BY <1>3, <1>4, SuccessIsNew

LEMMA StepRecovery ==
  ASSUME TypeOK, RecordOK, CloudOK, RecoveryOK, Next
  PROVE  RecoveryOK'
  <1>0. recovery \in [Recoveries -> RecoveryStages] /\ None \notin Recoveries
    BY NoneIsNothing DEF TypeOK
  <1>1. state.pin = New => state'.pin = New
    BY StepCloud
  <1>2. ASSUME UNCHANGED <<recovery, claimed>> PROVE RecoveryOK'
    BY <1>1, <1>2 DEF RecoveryOK
  <1>3. ASSUME NEW r \in Recoveries, Recover(r) PROVE RecoveryOK'
    <2>1. CASE BindRecovery(r)
      <3>1. state.pin = New
        BY <2>1, DispatchIsNew DEF BindRecovery, RecordOK
      <3>2. /\ UNCHANGED claimed
            /\ \A q \in Recoveries : recovery'[q] = IF q = r THEN "bound" ELSE recovery[q]
        BY <1>0, <2>1 DEF BindRecovery, RecoveryStep, evidence
      <3> QED  BY <1>1, <3>1, <3>2 DEF RecoveryOK
    <2>2. CASE ClearBoundary(r)
      <3>1. /\ UNCHANGED claimed /\ recovery[r] = "bound"
            /\ \A q \in Recoveries : recovery'[q] = IF q = r THEN "clear" ELSE recovery[q]
        BY <1>0, <2>2 DEF ClearBoundary, RecoveryStep, evidence
      <3> QED  BY <1>1, <3>1 DEF RecoveryOK
    <2>3. CASE ClaimRecovery(r)
      <3>1. claimed = None /\ claimed' = r /\ recovery[r] = "clear"
        BY <2>3 DEF ClaimRecovery, Creatable, RecoveryStep
      <3>2. \A q \in Recoveries : recovery[q] \notin {"claimed", "compared", "done"}
        BY <1>0, <3>1 DEF RecoveryOK
      <3>3. PICK to \in {"claimed", "failed"} :
                \A q \in Recoveries : recovery'[q] = IF q = r THEN to ELSE recovery[q]
        BY <1>0, <2>3 DEF ClaimRecovery, RecoveryStep
      <3>4. state.pin = New
        BY <3>1 DEF RecoveryOK
      <3> QED  BY <1>1, <3>1, <3>2, <3>3, <3>4 DEF RecoveryOK
    <2>4. CASE CompareProduct(r)
      <3>1. /\ UNCHANGED claimed /\ recovery[r] = "claimed"
            /\ \A q \in Recoveries : recovery'[q] = IF q = r THEN "compared" ELSE recovery[q]
        BY <1>0, <2>4 DEF CompareProduct, RecoveryStep, evidence
      <3> QED  BY <1>1, <3>1 DEF RecoveryOK
    <2>5. CASE UploadResult(r)
      <3>1. UNCHANGED claimed /\ recovery[r] = "compared"
        BY <2>5 DEF UploadResult, RecoveryStep
      <3>2. PICK to \in {"done", "failed"} :
                \A q \in Recoveries : recovery'[q] = IF q = r THEN to ELSE recovery[q]
        BY <1>0, <2>5 DEF UploadResult, RecoveryStep
      <3> QED  BY <1>1, <3>1, <3>2 DEF RecoveryOK
    <2>6. CASE FailRecovery(r)
      <3>1. /\ UNCHANGED claimed
            /\ \A q \in Recoveries : recovery'[q] = IF q = r THEN "failed" ELSE recovery[q]
        BY <1>0, <2>6 DEF FailRecovery, evidence
      <3> QED  BY <1>1, <3>1 DEF RecoveryOK
    <2> QED  BY <1>3, <2>1, <2>2, <2>3, <2>4, <2>5, <2>6 DEF Recover
  <1>4. CASE Owner
    BY <1>2, <1>4 DEF Owner, evidence
  <1>5. ASSUME NEW e \in Executors, Execute(e) PROVE UNCHANGED <<recovery, claimed>>
    BY <1>5 DEF Execute, ReadRecord, MatchState, CheckAbsent, Verify, Refuse, BeginApply,
         DeleteOld, CreateNew, EndApply, FailApply, LoseApply, NotExec, evidence
  <1>6. CASE ForceUnlock
    BY <1>2, <1>6 DEF ForceUnlock, NotExec, evidence
  <1>7. ASSUME NEW o \in Observers, Observation(o) PROVE UNCHANGED <<recovery, claimed>>
    BY <1>7 DEF Observation, StartRun, EndRun, Rerun, Observe, ReadState, ReadLive, ReadObjects,
         PlanFresh, PostObservation, NotObs, evidence
  <1> QED  BY <1>2, <1>3, <1>4, <1>5, <1>6, <1>7 DEF Next

-----------------------------------------------------------------------------
(* Completed effects.                                                       *)

\* At most one execution of the command ever completes the effect, however
\* many are started, of whatever claims (the lock and the saved plan).
OneEffect ==
    \A e, f \in Executors : exec[e].stage = "done" /\ exec[f].stage = "done" => e = f

DoneOK ==
    /\ \A e \in Executors : exec[e].stage = "done" => state.pin = New
    /\ OneEffect

LEMMA InitDone == Init => DoneOK
  BY DEF Init, DoneOK, OneEffect, Unstarted

LEMMA StepDone ==
  ASSUME TypeOK, CloudOK, DoneOK, Next
  PROVE  DoneOK'
  <1>0. exec \in [Executors -> ExecStates]
    BY DEF TypeOK
  <1>1. state.pin = New => state'.pin = New
    BY StepCloud
  <1>2. ASSUME \A f \in Executors : exec'[f].stage = "done" => exec[f].stage = "done"
        PROVE  DoneOK'
    BY <1>1, <1>2 DEF DoneOK, OneEffect
  <1>3. ASSUME NEW e \in Executors, EndApply(e) PROVE DoneOK'
    <2>1. /\ exec[e].stage = "created"
          /\ \A f \in Executors : exec'[f].stage = IF f = e THEN "done" ELSE exec[f].stage
      BY <1>0, <1>3, ExecStage DEF EndApply, ExecStages
    <2>2. state.pin # New /\ state'.pin = New
      BY <1>3, <2>1 DEF CloudOK, Applying, EndApply, Save
    <2> QED  BY <2>1, <2>2 DEF DoneOK, OneEffect
  <1>4. ASSUME NEW e \in Executors, NEW from, NEW to \in ExecStages, ExecStep(e, from, to),
               to # "done"
        PROVE  DoneOK'
    <2>1. \A f \in Executors : exec'[f].stage = IF f = e THEN to ELSE exec[f].stage
      BY <1>0, <1>4, ExecStage
    <2> QED  BY <1>2, <1>4, <2>1
  <1>5. ASSUME NEW e \in Executors, NEW new, exec' = [exec EXCEPT ![e] = new], new.stage # "done"
        PROVE  DoneOK'
    <2>1. \A f \in Executors : exec'[f].stage = IF f = e THEN new.stage ELSE exec[f].stage
      BY <1>0, <1>5
    <2> QED  BY <1>2, <1>5, <2>1
  <1>6. ASSUME NEW e \in Executors, Execute(e) PROVE DoneOK'
    <2>1. CASE MatchState(e) \/ CheckAbsent(e) \/ BeginApply(e) \/ DeleteOld(e) \/ CreateNew(e)
               \/ FailApply(e)
      BY <1>4, <2>1 DEF MatchState, CheckAbsent, BeginApply, DeleteOld, CreateNew, FailApply,
         ExecStages
    <2>2. ASSUME NEW c \in Of("claim", Now), ReadRecord(e, c) PROVE DoneOK'
      <3> DEFINE new == [stage |-> "read", claim |-> c, seen |-> Now]
      <3>1. exec' = [exec EXCEPT ![e] = new] /\ new.stage # "done"
        BY <2>2 DEF ReadRecord
      <3> HIDE DEF new
      <3> QED  BY <1>5, <3>1
    <2>3. CASE Verify(e)
      <3> DEFINE new == [exec[e] EXCEPT !.stage = "ready", !.seen = 0]
      <3>1. exec' = [exec EXCEPT ![e] = new]
        BY <2>3 DEF Verify
      <3>2. new.stage # "done"
        BY <1>0 DEF ExecStates
      <3> HIDE DEF new
      <3> QED  BY <1>5, <3>1, <3>2
    <2>4. CASE Refuse(e)
      <3>1. exec' = [exec EXCEPT ![e] = Unstarted]
        BY <2>4 DEF Refuse
      <3>2. Unstarted.stage # "done"
        BY DEF Unstarted
      <3> QED  BY <1>5, <3>1, <3>2
    <2>5. CASE LoseApply(e)
      <3> DEFINE new == [exec[e] EXCEPT !.stage = "lost"]
      <3>1. exec' = [exec EXCEPT ![e] = new]
        BY <2>5 DEF LoseApply
      <3>2. new.stage # "done"
        BY <1>0 DEF ExecStates
      <3> HIDE DEF new
      <3> QED  BY <1>5, <3>1, <3>2
    <2> QED
      BY <1>3, <1>6, <2>1, <2>2, <2>3, <2>4, <2>5 DEF Execute
  <1>7. ASSUME UNCHANGED exec PROVE DoneOK'
    BY <1>2, <1>7
  <1>8. CASE Owner \/ ForceUnlock
    BY <1>7, <1>8 DEF Owner, ForceUnlock
  <1>9. ASSUME NEW o \in Observers, Observation(o) PROVE UNCHANGED exec
    BY <1>9 DEF Observation, StartRun, EndRun, Rerun, Observe, ReadState, ReadLive, ReadObjects,
         PlanFresh, PostObservation, NotObs
  <1>10. ASSUME NEW r \in Recoveries, Recover(r) PROVE UNCHANGED exec
    BY <1>10 DEF Recover, BindRecovery, ClearBoundary, ClaimRecovery, CompareProduct, UploadResult,
         FailRecovery, NotRecovery
  <1> QED  BY <1>6, <1>7, <1>8, <1>9, <1>10 DEF Next

-----------------------------------------------------------------------------
(* Theorems.                                                                *)

IInv == TypeOK /\ RecordOK /\ CloudOK /\ ExecOK /\ RecoveryOK /\ DoneOK

\* A stuttering step.
LEMMA StutterInv ==
  ASSUME IInv, UNCHANGED vars
  PROVE  IInv'
  <1>1. /\ UNCHANGED <<state, live, lock, exec, runs, obs, recovery, claimed, result>>
        /\ UNCHANGED <<log, pull, main, attempt, clock>>
    BY DEF vars, record
  <1>2. TypeOK'
    BY <1>1 DEF IInv, TypeOK
  <1>3. RecordOK'
    BY <1>1 DEF IInv, RecordOK, LogOK, Sound, PullOK, MainOK, ObsOK, Of, Now
  <1>4. CloudOK' /\ RecoveryOK' /\ DoneOK'
    BY <1>1 DEF IInv, CloudOK, Applying, RecoveryOK, DoneOK, OneEffect
  <1>5. ExecOK'
    <2>1. Grows /\ LogOK
      BY <1>1 DEF Grows, Now, IInv, RecordOK, TypeOK
    <2>2. ASSUME NEW f \in Executors
          PROVE  /\ Reading(f)' => exec'[f].seen \in 0..Now'
                 /\ \A c \in Nat : Admits(f, c)' => Ready(c)'
      <3>1. Reading(f)' => Reading(f) /\ exec'[f].seen = exec[f].seen
        BY <1>1 DEF Reading
      <3>2. \A c \in Nat : Admits(f, c)' => Admits(f, c)
        BY <1>1 DEF Admits
      <3> QED  BY <1>2, <2>1, <3>1, <3>2, ExecStays DEF IInv
    <2> QED  BY <2>2 DEF ExecOK
  <1> QED  BY <1>2, <1>3, <1>4, <1>5 DEF IInv

\* In every reachable state the record names only what was on it before, what
\* was observed to be complete is, the executor that holds the lock is the
\* only one that applies, every executor that may apply has a claim that was
\* the latest of an authorised record, and every recovery run that has got
\* past its dispatch authority runs while the state has New.
THEOREM Invariance == Spec => []IInv
  <1>1. Init => IInv
    BY InitType, InitRecord, InitCloud, InitExec, InitRecovery, InitDone DEF IInv
  <1>2. IInv /\ [Next]_vars => IInv'
    <2>1. ASSUME IInv, Next PROVE IInv'
      <3>1. TypeOK' /\ RecordOK' /\ CloudOK'
        BY <2>1, StepRecord, StepCloud DEF IInv
      <3>2. ExecOK' /\ RecoveryOK' /\ DoneOK'
        BY <2>1, StepExec, StepRecovery, StepDone DEF IInv
      <3> QED  BY <3>1, <3>2 DEF IInv
    <2> QED  BY <2>1, StutterInv
  <1> QED  BY <1>1, <1>2, PTL DEF Spec

\* Every variable of the Slice C recovery keeps its type.
THEOREM TypeCorrect == Spec => []TypeOK
  <1>1. IInv => TypeOK
    BY DEF IInv
  <1> QED  BY <1>1, Invariance, PTL

\* A claim that is admitted is one that is ready.
LEMMA AdmittedReady ==
  ASSUME IInv, NEW c \in Admitted
  PROVE  Ready(c)
  <1>0. Now \in 0..Now /\ c \in Nat /\ TypeOK /\ LogOK
    BY DEF IInv, RecordOK, TypeOK, Now, Admitted, Of
  <1>1. ASSUME NEW e \in Executors, Began(e), exec[e].claim = c PROVE Ready(c)
    BY <1>0, <1>1 DEF Began, IInv, ExecOK, Admits
  <1>2. ASSUME EffectReady(c, Now) PROVE Ready(c)
    BY <1>0, <1>2, EffectReadyGivesReady
  <1> QED  BY <1>1, <1>2 DEF Admitted

\* No two claims of a generation are admitted to the locked effect, and one
\* of a later generation was reviewed after a terminal that found the earlier
\* one without effect (the attempt history, its transition and the chain of
\* terminals).
THEOREM AttemptsOrdered == Spec => []AttemptsInOrder
  <1>1. IInv => AttemptsInOrder
    <2> SUFFICES ASSUME IInv, NEW c \in Admitted, NEW d \in Admitted
                 PROVE  /\ Generation(c) = Generation(d) => c = d
                        /\ Generation(c) < Generation(d) =>
                               \E t \in TerminalsOf(c, Now) :
                                   /\ t < ReviewOf(d)
                                   /\ log[t].second # 0
                                   /\ NoEffect(log[t].first, log[t].second)
      BY DEF AttemptsInOrder
    <2>1. Ready(c) /\ Ready(d)
      BY AdmittedReady
    <2> QED  BY <2>1, ReadyInOrder DEF IInv, RecordOK, Opens
  <1> QED  BY <1>1, Invariance, PTL

\* A claim is admitted to the locked effect only after the control and the
\* activation were merged as they had been reviewed and authorised, the one
\* upon the other, and its plan was reviewed after that (the merge records
\* and the order of the claim).
THEOREM EffectAuthorised == Spec => []EffectIsAuthorised
  <1>1. IInv => EffectIsAuthorised
    <2> SUFFICES ASSUME IInv, NEW c \in Admitted
                 PROVE  AuthorisedBefore(c)
      BY DEF EffectIsAuthorised, AuthorisedBefore
    <2> QED  BY AdmittedReady DEF Ready
  <1> QED  BY <1>1, Invariance, PTL

\* A recovery run has spent its claim only if an executor has replaced Old by
\* New, and the state and the live binding have New alone (the dispatch
\* authority, its terminal and the observation that is of).
THEOREM DispatchAfterEffect == Spec => []DispatchMeansEffect
  <1>1. IInv => DispatchMeansEffect
    BY DEF IInv, RecoveryOK, CloudOK, DispatchMeansEffect
  <1> QED  BY <1>1, Invariance, PTL

\* At most one execution of the locked effect ever completes it, of all that
\* are started, for whatever claims.
THEOREM EffectOnce == Spec => []OneEffect
  <1>1. IInv => OneEffect
    BY DEF IInv, DoneOK
  <1> QED  BY <1>1, Invariance, PTL

\* The claim of the one completed effect.
RecoveryIsAuthorised ==
    claimed # None =>
        \E e \in Executors, c \in Nat :
            /\ exec[e].stage = "done" /\ exec[e].claim = c
            /\ \A f \in Executors : exec[f].stage = "done" => f = e
            /\ AuthorisedBefore(c)

\* From one end of the protocol to the other: when a recovery run has spent
\* its claim, the effect was completed by one execution, whose attempt claim
\* came after the reviewed and authorised merges of the control and of the
\* activation (all validators of the record, the lock and the dispatch).
THEOREM RecoveryAuthorised == Spec => []RecoveryIsAuthorised
  <1>1. IInv => RecoveryIsAuthorised
    <2> SUFFICES ASSUME IInv, claimed # None
                 PROVE  \E e \in Executors, c \in Nat :
                            /\ exec[e].stage = "done" /\ exec[e].claim = c
                            /\ \A f \in Executors : exec[f].stage = "done" => f = e
                            /\ AuthorisedBefore(c)
      BY DEF RecoveryIsAuthorised
    <2>1. PICK e \in Executors : exec[e].stage = "done"
      BY DEF IInv, RecoveryOK, CloudOK
    <2>2. PICK c \in Nat : c = exec[e].claim
      BY DEF IInv, TypeOK, ExecStates
    <2>3. Ready(c)
      BY <2>1, <2>2 DEF IInv, ExecOK, Admits
    <2>4. \A f \in Executors : exec[f].stage = "done" => f = e
      BY <2>1 DEF IInv, DoneOK, OneEffect
    <2> QED  BY <2>1, <2>2, <2>3, <2>4 DEF Ready
  <1> QED  BY <1>1, Invariance, PTL

\* After an observation of success no step changes the state or the binding,
\* however late an executor is (the lock, the serial of the saved plan and
\* the fresh plan of the observation).
THEOREM EffectSettled == Spec => SettledEffect
  <1> DEFINE A == (\E o \in Of("observation", Now) : Succeeded(o)) => UNCHANGED <<state, live>>
  <1>1. IInv /\ [Next]_vars => [A]_vars
    <2>1. ASSUME IInv, Next, \E o \in Of("observation", Now) : Succeeded(o)
          PROVE  UNCHANGED <<state, live>>
      <3>1. state.pin = New
        BY <2>1, SuccessIsNew DEF IInv, RecordOK
      <3> QED  BY <2>1, <3>1, StepCloud DEF IInv
    <2> QED  BY <2>1
  <1> QED  BY <1>1, Invariance, PTL DEF Spec, SettledEffect

\* The dispatch authority is a token of one use: its claim object is created
\* by one run, never to be another's, and a result is left at most once, by a
\* run that has it (gcs_upload_once).
THEOREM RefinesOneUse == Spec => ImplementsOneUse
  <1>1. Init => Token!Init
    BY DEF Init, Token!Init
  <1>2. IInv /\ [Next]_vars => [Token!Next]_Token!vars
    <2> SUFFICES ASSUME IInv, [Next]_vars PROVE [Token!Next]_Token!vars
      OBVIOUS
    <2>1. CASE UNCHANGED <<claimed, result>>
      BY <2>1 DEF Token!vars
    <2>2. ASSUME NEW r \in Recoveries, ClaimRecovery(r) PROVE Token!Next
      <3>1. claimed = None /\ claimed' = r /\ result' = result
        BY <2>2 DEF ClaimRecovery, Creatable
      <3>2. Token!Spend("dispatch", r)
        BY <3>1 DEF Token!Spend
      <3> QED  BY <3>2 DEF Token!Next
    <2>3. ASSUME NEW r \in Recoveries, UploadResult(r) PROVE Token!Next
      <3>1. result = None /\ result' = r /\ claimed' = claimed /\ claimed = r /\ r # None
        BY <2>3, NoneIsNothing DEF UploadResult, Creatable, RecoveryStep, IInv, RecoveryOK
      <3>2. Token!Use("dispatch")
        BY <3>1 DEF Token!Use
      <3> QED  BY <3>2 DEF Token!Next
    <2>4. ASSUME NEW r \in Recoveries, Recover(r), ~ ClaimRecovery(r), ~ UploadResult(r)
          PROVE  UNCHANGED <<claimed, result>>
      BY <2>4 DEF Recover, BindRecovery, ClearBoundary, CompareProduct, FailRecovery, evidence
    <2>5. CASE Owner
      BY <2>1, <2>5 DEF Owner, evidence
    <2>6. ASSUME NEW e \in Executors, Execute(e) PROVE UNCHANGED <<claimed, result>>
      BY <2>6 DEF Execute, ReadRecord, MatchState, CheckAbsent, Verify, Refuse, BeginApply,
           DeleteOld, CreateNew, EndApply, FailApply, LoseApply, NotExec, evidence
    <2>7. CASE ForceUnlock
      BY <2>1, <2>7 DEF ForceUnlock, NotExec, evidence
    <2>8. ASSUME NEW o \in Observers, Observation(o) PROVE UNCHANGED <<claimed, result>>
      BY <2>8 DEF Observation, StartRun, EndRun, Rerun, Observe, ReadState, ReadLive, ReadObjects,
           PlanFresh, PostObservation, NotObs, evidence
    <2>9. CASE UNCHANGED vars
      BY <2>1, <2>9 DEF vars
    <2> QED  BY <2>1, <2>2, <2>3, <2>4, <2>5, <2>6, <2>7, <2>8, <2>9 DEF Next
  <1> QED  BY <1>1, <1>2, Invariance, PTL DEF Spec, ImplementsOneUse, Token!Spec

================================================================================
