--------------------------- MODULE SliceCRecovery ---------------------------
(***************************************************************************)
(* The C5 recovery protocol of scripts/phase5_slice_c_recovery.py and      *)
(* phase5-slice-c-recovery-reusable.yml.  The owner replaces one member of *)
(* a workload identity binding, Old by New, with a Terraform plan that was *)
(* reviewed and claimed in the record (SliceCRecords); a verifier observes *)
(* what became of it; a terminal and a dispatch authority then open one    *)
(* recovery run, which compares the product state and changes nothing.     *)
(*                                                                         *)
(* Executors are commands on the owner's machine, and may be started more  *)
(* than once for a claim; observers and recoveries are Actions runs.  All  *)
(* of them interleave at every call with each other and with the record.   *)
(***************************************************************************)
EXTENDS SliceCRecords

CONSTANTS
    Executors,   \* starts of apply-c5-wif-repin-effect
    Recoveries,  \* first attempts of the recovery workflow
    None

VARIABLES
    state,    \* bootstrap/default.tfstate: serial and recovery member
    live,     \* members of the live recovery binding
    lock,     \* the executor that holds bootstrap/default.tflock, or None
    exec,     \* Executors -> state of the command
    runs,     \* Observers -> whether the run is active
    obs,      \* Observers -> the observation the run is making
    recovery, \* Recoveries -> stage of the run
    claimed,  \* the recovery claim object: the run in it, or None
    result    \* the recovery result object: the run in it, or None

vars == <<record, state, live, lock, exec, runs, obs, recovery, claimed, result>>

cloud == <<state, live, lock>>

evidence == <<claimed, result>>

----------------------------------------------------------------------------
States == [serial : Serial0..MaxSerial, pin : {Old, New, None}]

ExecStages == {"idle", "read", "matched", "free", "ready",
               "applying", "deleted", "created", "done", "partial", "lost"}

ExecStates == [stage : ExecStages, claim : Nat, seen : Nat]

ObsStages == {"idle", "begun", "state", "live", "objects", "planned"}

ObsStates == [stage : ObsStages, observedAt : 0..MaxClock, facts : Facts \cup {None}]

RecoveryStages == {"idle", "bound", "clear", "claimed", "compared", "done", "failed"}

ASSUME NoneIsNothing == None \notin {Old, New} \cup Executors \cup Recoveries \cup Facts

ASSUME SerialsOK == Serial0 < MaxSerial

\* Mutant: no claim is named.
Unstarted_NoClaim == [stage |-> "idle", claim |-> None, seen |-> 0]

Unstarted == [stage |-> "idle", claim |-> 0, seen |-> 0]

Idle == [stage |-> "idle", observedAt |-> 0, facts |-> None]

Absent == claimed = None /\ result = None

\* c5_nonterminal_actions_snapshot: no Actions run is under way.
Quiet ==
    /\ \A o \in Observers : ~runs[o]
    /\ \A r \in Recoveries : recovery[r] \in {"idle", "done", "failed"}

\* The activation is main.
IsActive == main # 0 /\ log[main].pr = "activation"

Init ==
    /\ RecordInit
    /\ state = [serial |-> Serial0, pin |-> Old]
    /\ live = {Old}
    /\ lock = None
    /\ exec = [e \in Executors |-> Unstarted]
    /\ runs = [o \in Observers |-> FALSE]
    /\ obs = [o \in Observers |-> Idle]
    /\ recovery = [r \in Recoveries |-> "idle"]
    /\ claimed = None
    /\ result = None

----------------------------------------------------------------------------
\* The locked effect: verify_c5_wif_repin_pre_effect, terraform apply

ExecStep(e, from, to) ==
    /\ exec[e].stage = from
    /\ exec' = [exec EXCEPT ![e].stage = to]

NotExec == <<record, runs, obs, recovery, evidence>>

\* Main and its caller and WIF pins; then the comments.
ReadRecord(e, c) ==
    /\ exec[e].stage = "idle"
    /\ Below("execution", Cardinality({f \in Executors : exec[f].stage # "idle"}))
    /\ IsActive
    /\ exec' = [exec EXCEPT ![e] = [stage |-> "read", claim |-> c, seen |-> Now]]
    /\ UNCHANGED <<NotExec, cloud>>

\* The saved plan replaces Old by New; verify_c5_bootstrap_state_and_live_iam.
MatchState(e) ==
    /\ ExecStep(e, "read", "matched")
    /\ state = [serial |-> Serial0, pin |-> Old]
    /\ live = {Old}
    /\ UNCHANGED <<NotExec, cloud>>

CheckAbsent(e) ==
    /\ ExecStep(e, "matched", "free")
    /\ lock = None
    /\ Absent
    /\ UNCHANGED <<NotExec, cloud>>

\* The active runs, then the comments that were read; EFFECT_READY.
Verify(e) ==
    /\ exec[e].stage = "free"
    /\ Quiet
    /\ EffectReady(exec[e].claim, exec[e].seen)
    /\ exec' = [exec EXCEPT ![e].stage = "ready", ![e].seen = 0]
    /\ UNCHANGED <<NotExec, cloud>>

\* The command stops before it applies, and may be started again.
Refuse(e) ==
    /\ exec[e].stage \in {"read", "matched", "free", "ready"}
    /\ exec' = [exec EXCEPT ![e] = Unstarted]
    /\ UNCHANGED <<NotExec, cloud>>

\* terraform apply -lock=true of the saved plan, which Terraform refuses when
\* the state is no longer the one it was made of.
BeginApply(e) ==
    /\ ExecStep(e, "ready", "applying")
    /\ lock = None
    /\ state.serial = Serial0
    /\ lock' = e
    /\ UNCHANGED <<NotExec, state, live>>

DeleteOld(e) ==
    /\ ExecStep(e, "applying", "deleted")
    /\ live' = live \ {Old}
    /\ UNCHANGED <<NotExec, state, lock>>

CreateNew(e) ==
    /\ ExecStep(e, "deleted", "created")
    /\ live' = live \cup {New}
    /\ UNCHANGED <<NotExec, state, lock>>

Save(pin) == state' = [serial |-> state.serial + 1, pin |-> pin]

EndApply(e) ==
    /\ ExecStep(e, "created", "done")
    /\ state.serial < MaxSerial
    /\ Save(New)
    /\ lock' = None
    /\ UNCHANGED <<NotExec, live>>

\* C5_EFFECT_APPLY_FAILED__OUTCOME_REQUIRES_OBSERVATION
FailApply(e) ==
    /\ \/ ExecStep(e, "applying", "partial") /\ UNCHANGED state
       \/ ExecStep(e, "deleted", "partial") /\ state.serial < MaxSerial /\ Save(None)
    /\ lock' = None
    /\ UNCHANGED <<NotExec, live>>

\* The machine is lost: nothing is saved and the lock stays.
LoseApply(e) ==
    /\ exec[e].stage \in {"applying", "deleted", "created"}
    /\ exec' = [exec EXCEPT ![e].stage = "lost"]
    /\ UNCHANGED <<NotExec, cloud>>

\* terraform force-unlock, after a machine was lost
ForceUnlock ==
    /\ lock # None
    /\ exec[lock].stage = "lost"
    /\ lock' = None
    /\ UNCHANGED <<NotExec, exec, state, live>>

Execute(e) ==
    \/ exec[e].stage = "idle" /\ \E c \in Of("claim", Now) : ReadRecord(e, c)
    \/ MatchState(e) \/ CheckAbsent(e) \/ Verify(e) \/ Refuse(e)
    \/ BeginApply(e) \/ DeleteOld(e) \/ CreateNew(e) \/ EndApply(e) \/ FailApply(e)
    \/ LoseApply(e)

----------------------------------------------------------------------------
\* post-c5-wif-observation

NotObs == <<pull, main, clock, cloud, exec, recovery, evidence>>

StartRun(o) ==
    /\ ~runs[o]
    /\ IsActive
    /\ Of("claim", Now) # {}
    /\ Below("run", Cardinality({p \in Observers : runs[p]}))
    /\ runs' = [runs EXCEPT ![o] = TRUE]
    /\ UNCHANGED <<log, attempt, obs, NotObs>>

\* The run ends, and may be run again as the next attempt of the same run.
EndRun(o) ==
    /\ runs[o]
    /\ runs' = [runs EXCEPT ![o] = FALSE]
    /\ obs' = [obs EXCEPT ![o] = Idle]
    /\ UNCHANGED <<log, attempt, NotObs>>

Rerun(o) ==
    /\ ~runs[o]
    /\ attempt[o] < MaxAttempt /\ Below("attempt", attempt[o])
    /\ attempt' = [attempt EXCEPT ![o] = @ + 1]
    /\ runs' = [runs EXCEPT ![o] = TRUE]
    /\ UNCHANGED <<log, obs, NotObs>>

\* verify_c5_wif_repin_observation takes the time first, then main, the
\* activation record and the claim.
Observe(o, c) ==
    /\ runs[o] /\ obs[o].stage = "idle"
    /\ IsActive
    /\ \E k, r \in Of("record", Now) : ActivationRecorded(k, r, Now) /\ log[r].merge = main
    /\ "observation" \in Room
    /\ obs' = [obs EXCEPT ![o].stage = "begun", ![o].observedAt = clock,
                          ![o].facts = [claim |-> c, observer |-> o, attempt |-> attempt[o],
                                        serial |-> Serial0, live |-> {}, unlocked |-> FALSE,
                                        absent |-> FALSE, reconciliation |-> "pending"]]
    /\ UNCHANGED <<log, attempt, runs, NotObs>>

\* The state has all of its resources, and the recovery member is one of two.
ReadState(o) ==
    /\ obs[o].stage = "begun"
    /\ state.pin # None
    /\ obs' = [obs EXCEPT ![o].stage = "state", ![o].facts.serial = state.serial]
    /\ UNCHANGED <<log, attempt, runs, NotObs>>

ReadLive(o) ==
    /\ obs[o].stage = "state"
    /\ obs' = [obs EXCEPT ![o].stage = "live", ![o].facts.live = live]
    /\ UNCHANGED <<log, attempt, runs, NotObs>>

ReadObjects(o) ==
    /\ obs[o].stage = "live"
    /\ obs' = [obs EXCEPT ![o].stage = "objects", ![o].facts.unlocked = (lock = None),
                          ![o].facts.absent = Absent]
    /\ UNCHANGED <<log, attempt, runs, NotObs>>

\* Mutant: the counts are taken for the plan.
Reconciled_LiveOnly(mode) ==
    IF mode = "no_change" THEN live = {New} ELSE live = {Old}

\* _c5_fresh_reconciliation: a locked plan of the activation that finds
\* nothing to change, or exactly the reviewed effect, and no drift.
Reconciled(mode) ==
    /\ lock = None
    /\ state.pin \in live
    /\ state.pin = IF mode = "no_change" THEN New ELSE Old

PlanFresh(o, mode) ==
    /\ obs[o].stage = "objects"
    /\ Reconciled(mode)
    /\ obs' = [obs EXCEPT ![o].stage = "planned", ![o].facts.reconciliation = mode]
    /\ UNCHANGED <<log, attempt, runs, NotObs>>

PostObservation(o) ==
    /\ obs[o].stage = "planned"
    /\ "observation" \in Room
    /\ Post([kind |-> "observation", facts |-> obs[o].facts,
             observedAt |-> obs[o].observedAt, createdAt |-> clock])
    /\ obs' = [obs EXCEPT ![o] = Idle]
    /\ UNCHANGED <<attempt, runs, NotObs>>

Observation(o) ==
    \/ StartRun(o) \/ EndRun(o) \/ Rerun(o)
    \/ runs[o] /\ \E c \in Of("claim", Now) : Observe(o, c)
    \/ ReadState(o) \/ ReadLive(o) \/ ReadObjects(o)
    \/ \E mode \in {"no_change", "pending"} : PlanFresh(o, mode)
    \/ PostObservation(o)

----------------------------------------------------------------------------
\* The recovery run

RecoveryStep(r, from, to) ==
    /\ recovery[r] = from
    /\ recovery' = [recovery EXCEPT ![r] = to]

NotRecovery == <<record, cloud, exec, runs, obs>>

\* verify-caller, verify_c5_github_boundary
BindRecovery(r) ==
    /\ RecoveryStep(r, "idle", "bound")
    /\ IsActive
    /\ DispatchValid(Now)
    /\ UNCHANGED <<NotRecovery, evidence>>

\* The login, for which New must be live; verify_successor_cloud_boundary.
ClearBoundary(r) ==
    /\ RecoveryStep(r, "bound", "clear")
    /\ New \in live
    /\ Absent
    /\ UNCHANGED <<NotRecovery, evidence>>

\* Mutant: the object may be there.
Creatable_Always(object) == TRUE

\* gcs_upload_once: ifGenerationMatch=0
Creatable(object) == object = None

\* successor_create_claim; its answer may be lost.
ClaimRecovery(r) ==
    /\ \E to \in {"claimed", "failed"} : RecoveryStep(r, "clear", to)
    /\ Creatable(claimed)
    /\ claimed' = r
    /\ UNCHANGED <<NotRecovery, result>>

\* The product state, terraform plan -detailed-exitcode and the state again,
\* which are what was accepted (verify_successor_no_change_plan).
CompareProduct(r) ==
    /\ RecoveryStep(r, "claimed", "compared")
    /\ UNCHANGED <<NotRecovery, evidence>>

UploadResult(r) ==
    /\ \E to \in {"done", "failed"} : RecoveryStep(r, "compared", to)
    /\ Creatable(result)
    /\ result' = r
    /\ UNCHANGED <<NotRecovery, claimed>>

FailRecovery(r) ==
    /\ recovery[r] \in {"bound", "clear", "claimed", "compared"}
    /\ recovery' = [recovery EXCEPT ![r] = "failed"]
    /\ UNCHANGED <<NotRecovery, evidence>>

Recover(r) ==
    \/ BindRecovery(r) \/ ClearBoundary(r) \/ ClaimRecovery(r) \/ CompareProduct(r)
    \/ UploadResult(r) \/ FailRecovery(r)

----------------------------------------------------------------------------
Owner == RecordNext /\ UNCHANGED <<cloud, exec, runs, obs, recovery, evidence>>

Next ==
    \/ Owner
    \/ \E e \in Executors : Execute(e)
    \/ ForceUnlock
    \/ \E o \in Observers : Observation(o)
    \/ \E r \in Recoveries : Recover(r)

Spec == Init /\ [][Next]_vars

----------------------------------------------------------------------------
\* Every variable has its type.
TypeOK ==
    /\ log \in Seq(Entries)
    /\ pull \in [Pulls -> PullStates]
    /\ main \in Nat
    /\ attempt \in [Observers -> 1..MaxAttempt]
    /\ clock \in 0..MaxClock
    /\ state \in States
    /\ live \in SUBSET {Old, New}
    /\ lock \in Executors \cup {None}
    /\ exec \in [Executors -> ExecStates]
    /\ runs \in [Observers -> BOOLEAN]
    /\ obs \in [Observers -> ObsStates]
    /\ recovery \in [Recoveries -> RecoveryStages]
    /\ claimed \in Recoveries \cup {None}
    /\ result \in Recoveries \cup {None}

Began(e) == exec[e].stage \in {"applying", "deleted", "created", "done", "partial", "lost"}

\* The claims whose effect has begun, or would be let begin.
Admitted ==
    {c \in Of("claim", Now) :
        (\E e \in Executors : Began(e) /\ exec[e].claim = c) \/ EffectReady(c, Now)}

\* No two claims of one generation are admitted; and before one of a later
\* generation was even reviewed, the earlier claim had been seen without
\* effect twice, a minute apart (the attempt history, its transition and the
\* terminal chain).
AttemptsInOrder ==
    \A c, d \in Admitted :
        /\ Generation(c) = Generation(d) => c = d
        /\ Generation(c) < Generation(d) =>
               \E t \in TerminalsOf(c, Now) :
                   /\ t < ReviewOf(d)
                   /\ log[t].second # 0
                   /\ NoEffect(log[t].first, log[t].second)

\* The merge m is of a head the owner had reviewed and then authorised, with
\* the reviewed tree.
Authorised(m) ==
    \E v \in Of("merge_review", m), a \in Of("merge_authority", m) :
        /\ log[v].pr = log[m].pr /\ log[v].head = log[m].head /\ log[v].tree = log[m].tree
        /\ log[a].review = v /\ v < a

\* When a claim is admitted the control and the activation were merged as
\* reviewed and authorised, the activation upon the control and nothing else,
\* and the plan was reviewed after that (validate_c5_control_merge_record,
\* validate_c5_activation_record, the order of the claim).
EffectIsAuthorised ==
    \A c \in Admitted :
        \E k, m \in Of("merge", c) :
            /\ log[k].pr = "control" /\ log[m].pr = "activation"
            /\ Authorised(k) /\ Authorised(m)
            /\ log[m].base = k
            /\ m < ReviewOf(c)

\* A recovery run spends its claim only while New is what the state and the
\* binding hold, and an executor has done that (the outcome of a terminal,
\* the dispatch authority and the boundary of the recovery run).
DispatchMeansEffect ==
    claimed # None =>
        /\ state.pin = New
        /\ live = {New}
        /\ \E e \in Executors : exec[e].stage = "done"

\* Once an observation has found the effect complete nothing changes the
\* state or the binding, however late an executor is (the lock, the saved
\* plan and the fresh plan of the observation).
SettledEffect ==
    [][(\E o \in Of("observation", Now) : Succeeded(o)) => UNCHANGED <<state, live>>]_vars

\* The dispatch authority permits exactly one recovery: its claim is spent
\* by one run, which alone leaves a result, once.
Token == INSTANCE OneUse WITH
    Tokens <- {"dispatch"}, Runs <- Recoveries,
    spentBy <- [t \in {"dispatch"} |-> claimed],
    used <- IF result = None THEN {} ELSE {"dispatch"}

ImplementsOneUse == Token!Spec

=============================================================================
