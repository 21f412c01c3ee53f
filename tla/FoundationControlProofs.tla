---------------------- MODULE FoundationControlProofs ----------------------
(***************************************************************************)
(* Proofs about FoundationControl, for any number of runs, pull requests,  *)
(* commits, issues and addresses.                                          *)
(*                                                                         *)
(* What a run relies on between two calls is said of its record (RunOK),   *)
(* and speaks only of what no step undoes: a commit, a merged pull         *)
(* request and an evidence object stay, and the state that is written has  *)
(* a later version (Grows).  So each action is looked at once for the run  *)
(* it moves (Moves), and once for what it does to the rest.                *)
(***************************************************************************)
EXTENDS FoundationControl, TLAPS

BoundStages == {"bound", "read", "pulled", "planned", "rechecked", "applying", "applied"}

EffectOf(s) ==
    [pr |-> s.pr, head |-> s.head, base |-> s.base, candidate |-> s.candidate,
     generation |-> s.generation, pulled |-> s.pulled, creates |-> Creates(s.plan)]

RunStages == Active \cup {"idle", "queued", "done", "failed"}

\* Which outputs a run has, by its kind and stage.
Named(s) ==
    /\ s.stage = "idle" => s = NewRun
    /\ s.stage # "idle" /\ s.kind = "plan" => s.pr # None
    /\ s.stage # "idle" /\ s.kind # "plan" => s.main # None
    /\ s.kind # "drift" /\ s.stage \in Active \ {"select"} => s.pr # None
    /\ s.kind # "drift" /\ s.stage = "queued" /\ s.job # "select" => s.pr # None
    /\ s.pr # None => s.head # None /\ s.base # None
    /\ s.found # None => s.kind = "drift"
    /\ s.stage \in {"report", "listed"} => s.found # None
    /\ s.stage = "queued" /\ s.job = "report" => s.found # None
    /\ s.stage \in BoundStages => s.candidate # None

\* The commits a run knows are there.
Known(s) ==
    /\ s.head # None => candidateAt[s.head] # None
    /\ s.main # None => candidateAt[s.main] # None

\* An apply run is bound to a merge whose candidate is its own, and then to
\* the evidence of that head.
BoundOK(s) ==
    s.kind = "apply" /\ s.stage \in BoundStages =>
      /\ pr[s.pr].status = "merged" /\ pr[s.pr].merge = s.main
      /\ pr[s.pr].head = s.head /\ pr[s.pr].base = s.base
      /\ s.candidate = candidateAt[s.main]
      /\ s.stage # "bound" => s.reviewed # None /\ evidence[<<s.pr, s.head>>] = s.reviewed

\* A pulled state whose version is the current one is the current one, and a
\* plan is made between the pull and now.
PlannedOK(s) ==
    /\ s.stage \in {"pulled", "planned", "rechecked"} =>
         /\ s.pulled.version <= state.version
         /\ s.pulled.version = state.version => s.pulled = state
    /\ s.stage \in {"planned", "rechecked"} =>
         /\ s.pulled.version <= s.plan.version /\ s.plan.version <= state.version
         /\ s.plan.version = s.pulled.version /\ s.plan.drift = {} =>
              s.plan.prior = s.pulled.resources
    /\ s.stage = "rechecked" =>
         /\ s.plan.version = s.pulled.version
         /\ s.generation = s.pulled.version
    /\ s.stage \in {"planned", "rechecked", "applying"} => s.plan.target = Config(s.candidate)

ApplyingOK(s) ==
    s.stage \in {"applying", "applied"} =>
      s.kind = "apply" /\ Material(s.plan) /\ EffectOf(s) = s.reviewed

ListedOK(s) ==
    s.stage = "listed" /\ s.match = None =>
      \A i \in Issues : OnTime(issues[i]) => issues[i].fingerprint # s.found

RunOK(s) == Named(s) /\ Known(s) /\ BoundOK(s) /\ PlannedOK(s) /\ ApplyingOK(s) /\ ListedOK(s)

\* The commits of the repository are there.
GitInv ==
    /\ candidateAt[main] # None
    /\ \A p \in PullRequests :
         /\ pr[p].status # "none" =>
              /\ pr[p].head # None /\ candidateAt[pr[p].head] # None
              /\ pr[p].base # None /\ candidateAt[pr[p].base] # None
         /\ pr[p].status = "merged" => pr[p].merge # None /\ candidateAt[pr[p].merge] # None

\* What is stored for review is of one state, which lacks what is created.
EvidenceInv ==
    \A k \in Keys : evidence[k] # None =>
      /\ evidence[k].generation = evidence[k].pulled.version
      /\ \A a \in evidence[k].creates : evidence[k].pulled.resources[a] = None

OneActive ==
    \A q, r \in Runs : run[q].stage \in Active /\ run[r].stage \in Active => q = r

Inv == TypeOK /\ GitInv /\ EvidenceInv /\ OneActive /\ \A r \in Runs : RunOK(run[r])

\* Nothing a run relies on is undone.
Grows ==
    /\ \A x \in Shas : candidateAt[x] # None => candidateAt'[x] = candidateAt[x]
    /\ \A p \in PullRequests : pr[p].status = "merged" => pr'[p] = pr[p]
    /\ \A k \in Keys : evidence[k] # None => evidence'[k] = evidence[k]
    /\ state' \in States /\ state.version <= state'.version
    /\ state'.version = state.version => state' = state

\* No issue is opened on time.
NoNewIssue == \A i \in Issues : issues'[i] = issues[i] \/ ~OnTime(issues'[i])

\* Run r becomes s.
Moves(r, s) == run' = [run EXCEPT ![r] = s]

----------------------------------------------------------------------------
(* What values are made of.                                                *)

LEMMA ConfigType == ASSUME NEW c PROVE Config(c) \in Resources
  BY DEF Config, Resources

LEMMA NewRunType ==
  /\ NewRun \in RunStates
  /\ NewRun.stage = "idle" /\ NewRun.kind = "plan" /\ NewRun.job = "select"
  /\ NewRun.pr = None /\ NewRun.head = None /\ NewRun.base = None /\ NewRun.main = None
  /\ NewRun.found = None
  <1>1. Nothing \in Resources
    BY DEF Nothing, Resources
  <1>2. 1 \in 1..MaxVersion
    BY BoundsOK
  <1>3. NoState \in States
    BY <1>1, <1>2 DEF NoState, States
  <1>4. NoPlan \in Plans
    BY <1>1, <1>2 DEF NoPlan, Plans
  <1>5. NewRun \in RunStates
    BY <1>2, <1>3, <1>4 DEF NewRun, RunStates, Jobs
  <1> QED  BY <1>5 DEF NewRun

\* terraform plan makes a plan of the candidate; without drift it has seen the state.
LEMMA PlanType ==
  ASSUME TypeOK, NEW c \in Candidates
  PROVE  /\ TakePlan(c) \in Plans
         /\ TakePlan(c).target = Config(c) /\ TakePlan(c).version = state.version
         /\ TakePlan(c).drift = {} => TakePlan(c).prior = state.resources
  <1> DEFINE x == [a \in Addresses |-> IF state.resources[a] = None THEN None ELSE live[a]]
             d == {a \in Addresses : x[a] # state.resources[a]}
  <1>1. state.resources \in Resources /\ state.version \in 1..MaxVersion
    BY DEF TypeOK, States
  <1>2. x \in Resources
    BY DEF TypeOK, Resources
  <1>3. TakePlan(c) = [target |-> Config(c), prior |-> x, version |-> state.version, drift |-> d]
    BY DEF TakePlan
  <1>4. TakePlan(c) \in Plans
    BY <1>1, <1>2, <1>3, ConfigType DEF Plans
  <1>5. d = {} => x = state.resources
    BY <1>1, <1>2 DEF Resources
  <1> QED  BY <1>3, <1>4, <1>5

\* What is found of a plan is a fingerprint.
LEMMA FingerprintType ==
  ASSUME NEW p \in Plans, NEW c \in Candidates
  PROVE  [candidate |-> c, findings |-> FindingsOf(p)] \in Fingerprints
  <1>1. p.prior \in Resources /\ p.drift \in SUBSET Addresses
    BY DEF Plans
  <1>2. ASSUME NEW a \in Acts(p)
        PROVE  <<a, p.prior[a]>> \in Addresses \X {Declared, Changed, None}
    BY <1>1 DEF Acts, Resources
  <1>3. FindingsOf(p) \in Findings
    BY <1>1, <1>2 DEF FindingsOf, Findings
  <1> QED  BY <1>3 DEF Fingerprints

\* The fields of a run.
LEMMA Fields ==
  ASSUME NEW s \in RunStates
  PROVE  /\ s.kind \in {"plan", "apply", "drift"}
         /\ s.stage \in RunStages /\ s.job \in Jobs
         /\ s.pr \in PullRequests \cup {None} /\ s.head \in Shas \cup {None}
         /\ s.base \in Shas \cup {None} /\ s.main \in Shas \cup {None}
         /\ s.candidate \in Candidates \cup {None} /\ s.generation \in 1..MaxVersion
         /\ s.pulled \in States /\ s.plan \in Plans
         /\ s.reviewed \in Effects \cup {None}
         /\ s.found \in Fingerprints \cup {None} /\ s.match \in Issues \cup {None}
         /\ s.pulled.version \in 1..MaxVersion /\ s.plan.version \in 1..MaxVersion
  <1>1. s.pulled \in States /\ s.plan \in Plans
    BY DEF RunStates
  <1>2. s.pulled.version \in 1..MaxVersion /\ s.plan.version \in 1..MaxVersion
    BY <1>1 DEF States, Plans
  <1>3. /\ s.kind \in {"plan", "apply", "drift"}
        /\ s.stage \in RunStages /\ s.job \in Jobs
        /\ s.pr \in PullRequests \cup {None} /\ s.head \in Shas \cup {None}
        /\ s.base \in Shas \cup {None} /\ s.main \in Shas \cup {None}
    BY DEF RunStates, RunStages
  <1>4. /\ s.candidate \in Candidates \cup {None} /\ s.generation \in 1..MaxVersion
        /\ s.reviewed \in Effects \cup {None}
        /\ s.found \in Fingerprints \cup {None} /\ s.match \in Issues \cup {None}
    BY DEF RunStates
  <1> QED  BY <1>1, <1>2, <1>3, <1>4

\* A run with another field.
LEMMA Edits ==
  ASSUME NEW s \in RunStates
  PROVE  /\ \A x \in {"plan", "apply", "drift"} : [s EXCEPT !.kind = x] \in RunStates
         /\ \A x \in RunStages : [s EXCEPT !.stage = x] \in RunStates
         /\ \A x \in Jobs : [s EXCEPT !.job = x] \in RunStates
         /\ \A x \in PullRequests \cup {None} : [s EXCEPT !.pr = x] \in RunStates
         /\ \A x \in Shas \cup {None} : /\ [s EXCEPT !.head = x] \in RunStates
                                      /\ [s EXCEPT !.base = x] \in RunStates
                                      /\ [s EXCEPT !.main = x] \in RunStates
         /\ \A x \in Candidates \cup {None} : [s EXCEPT !.candidate = x] \in RunStates
         /\ \A x \in 1..MaxVersion : [s EXCEPT !.generation = x] \in RunStates
         /\ \A x \in States : [s EXCEPT !.pulled = x] \in RunStates
         /\ \A x \in Plans : [s EXCEPT !.plan = x] \in RunStates
         /\ \A x \in Effects \cup {None} : [s EXCEPT !.reviewed = x] \in RunStates
         /\ \A x \in Fingerprints \cup {None} : [s EXCEPT !.found = x] \in RunStates
         /\ \A x \in Issues \cup {None} : [s EXCEPT !.match = x] \in RunStates
  <1>1. /\ \A x \in {"plan", "apply", "drift"} : [s EXCEPT !.kind = x] \in RunStates
        /\ \A x \in RunStages : [s EXCEPT !.stage = x] \in RunStates
        /\ \A x \in Jobs : [s EXCEPT !.job = x] \in RunStates
        /\ \A x \in PullRequests \cup {None} : [s EXCEPT !.pr = x] \in RunStates
    BY DEF RunStates, RunStages
  <1>2. \A x \in Shas \cup {None} : /\ [s EXCEPT !.head = x] \in RunStates
                                 /\ [s EXCEPT !.base = x] \in RunStates
                                 /\ [s EXCEPT !.main = x] \in RunStates
    BY DEF RunStates
  <1>3. /\ \A x \in Candidates \cup {None} : [s EXCEPT !.candidate = x] \in RunStates
        /\ \A x \in 1..MaxVersion : [s EXCEPT !.generation = x] \in RunStates
        /\ \A x \in States : [s EXCEPT !.pulled = x] \in RunStates
        /\ \A x \in Plans : [s EXCEPT !.plan = x] \in RunStates
    BY DEF RunStates
  <1>4. /\ \A x \in Effects \cup {None} : [s EXCEPT !.reviewed = x] \in RunStates
        /\ \A x \in Fingerprints \cup {None} : [s EXCEPT !.found = x] \in RunStates
        /\ \A x \in Issues \cup {None} : [s EXCEPT !.match = x] \in RunStates
    BY DEF RunStates
  <1> QED  BY <1>1, <1>2, <1>3, <1>4

\* The fields of a pull request.
LEMMA PrFields ==
  ASSUME TypeOK, NEW p \in PullRequests
  PROVE  /\ pr[p] \in PrStates
         /\ pr[p].head \in Shas \cup {None} /\ pr[p].base \in Shas \cup {None}
         /\ pr[p].merge \in Shas \cup {None}
  BY DEF TypeOK, PrStates

\* What is left of a run that is over.
LEMMA EndedType ==
  ASSUME TypeOK, NEW r \in Runs, NEW end \in {"done", "failed", "report"}
  PROVE  LET s == Ended(r, end) IN
         /\ s \in RunStates
         /\ s.stage = end /\ s.kind = run[r].kind /\ s.pr = run[r].pr /\ s.head = run[r].head
         /\ s.base = run[r].base /\ s.main = run[r].main /\ s.found = run[r].found
  <1>1. run[r] \in RunStates
    BY DEF TypeOK
  <1>2. end \in RunStages
    BY DEF RunStages, Active, Jobs
  <1>3. Ended(r, end) \in RunStates
    BY <1>1, <1>2, NewRunType, Fields, Edits DEF Ended
  <1>4. /\ Ended(r, end).stage = end /\ Ended(r, end).kind = run[r].kind
        /\ Ended(r, end).pr = run[r].pr /\ Ended(r, end).head = run[r].head
        /\ Ended(r, end).base = run[r].base /\ Ended(r, end).main = run[r].main
        /\ Ended(r, end).found = run[r].found
    BY <1>1, NewRunType DEF Ended, RunStates
  <1> QED  BY <1>3, <1>4

\* A run that is over relies on nothing but its outputs.
LEMMA EndedOK ==
  ASSUME TypeOK, NEW r \in Runs, RunOK(run[r]), run[r].stage # "idle", NEW end \in {"done", "failed"}
  PROVE  Ended(r, end) \in RunStates /\ RunOK(Ended(r, end)) /\ Ended(r, end).stage \notin Active
  <1> DEFINE s == Ended(r, end)
  <1>1. /\ s \in RunStates
        /\ s.stage = end /\ s.kind = run[r].kind /\ s.pr = run[r].pr /\ s.head = run[r].head
        /\ s.base = run[r].base /\ s.main = run[r].main /\ s.found = run[r].found
    BY EndedType
  <1> HIDE DEF s
  <1>2. s.stage \notin Active /\ s.stage \notin BoundStages /\ s.stage \notin {"idle", "queued"}
    BY <1>1 DEF Active, Jobs, BoundStages
  <1>3. Named(s)
    BY <1>1, <1>2 DEF RunOK, Named
  <1>4. Known(s)
    BY <1>1 DEF RunOK, Known
  <1>5. BoundOK(s) /\ PlannedOK(s) /\ ApplyingOK(s) /\ ListedOK(s)
    BY <1>1, <1>2 DEF BoundOK, PlannedOK, ApplyingOK, ListedOK
  <1> QED  BY <1>1, <1>2, <1>3, <1>4, <1>5 DEF RunOK, s

----------------------------------------------------------------------------
(* What a run becomes.                                                     *)

\* Run r goes on as a run that is in order, and is active only if it was, or
\* if no other is.
GoesOn(r) ==
    \E s \in RunStates :
      /\ Moves(r, s) /\ RunOK(s)
      /\ s.stage \in Active => run[r].stage \in Active \/ GroupIsFree

\* A run that ends.
LEMMA EndsOn ==
  ASSUME Inv, NEW r \in Runs, run[r].stage # "idle", NEW end \in {"done", "failed"},
         Moves(r, Ended(r, end))
  PROVE  GoesOn(r)
  BY EndedOK DEF Inv, GoesOn

LEMMA TriggerOn == ASSUME Inv, NEW r \in Runs, Trigger(r) PROVE GoesOn(r)
  <1> DEFINE o == run[r]
  <1>1. o = NewRun /\ o \in RunStates
    BY DEF Trigger, Inv, RunOK, Named, TypeOK
  <1>2. "queued" \in RunStages /\ "trusted" \in Jobs /\ "queued" \notin Active /\ "queued" \notin BoundStages
    BY DEF RunStages, Jobs, Active, BoundStages
  <1>3. main \in Shas /\ main # None /\ candidateAt[main] # None
    BY NoneIsNothing DEF Inv, TypeOK, GitInv
  <1>4. CASE \E p \in PullRequests :
               /\ pr[p].status = "open"
               /\ run' = [run EXCEPT ![r].stage = "queued", ![r].pr = p,
                                     ![r].head = pr[p].head, ![r].base = pr[p].base]
    <2>1. PICK p \in PullRequests :
            /\ pr[p].status = "open"
            /\ run' = [run EXCEPT ![r].stage = "queued", ![r].pr = p,
                                  ![r].head = pr[p].head, ![r].base = pr[p].base]
      BY <1>4
    <2> DEFINE s == [o EXCEPT !.stage = "queued", !.pr = p, !.head = pr[p].head, !.base = pr[p].base]
    <2>2. pr[p].head \in Shas \cup {None} /\ pr[p].base \in Shas \cup {None}
      BY PrFields DEF Inv
    <2>3. s \in RunStates
      BY <1>1, <1>2, <2>2, Edits
    <2>4. /\ s.stage = "queued" /\ s.kind = "plan" /\ s.job = "select" /\ s.pr = p
          /\ s.head = pr[p].head /\ s.base = pr[p].base /\ s.main = None /\ s.found = None
      BY <1>1, NewRunType DEF RunStates
    <2>5. Moves(r, s)
      BY <2>1 DEF Moves, Inv, TypeOK
    <2> HIDE DEF s
    <2>6. p # None /\ pr[p].head # None /\ pr[p].base # None /\ candidateAt[pr[p].head] # None
      BY <2>1, NoneIsNothing DEF Inv, GitInv
    <2>7. Named(s)
      BY <1>2, <2>4, <2>6 DEF Named
    <2>8. RunOK(s)
      BY <1>2, <2>4, <2>6, <2>7 DEF RunOK, Known, BoundOK, PlannedOK, ApplyingOK, ListedOK
    <2> QED  BY <1>2, <2>3, <2>4, <2>5, <2>8 DEF GoesOn
  <1>5. ASSUME NEW k \in {"apply", "drift"}, NEW j \in {"select", "trusted"},
               run' = [run EXCEPT ![r].stage = "queued", ![r].kind = k, ![r].main = main, ![r].job = j],
               k = "apply" => j = "select"
        PROVE  GoesOn(r)
    <2> DEFINE s == [o EXCEPT !.stage = "queued", !.kind = k, !.main = main, !.job = j]
    <2>3. s \in RunStates
      BY <1>1, <1>2, <1>3, NewRunType, Edits DEF Jobs
    <2>4. /\ s.stage = "queued" /\ s.kind = k /\ s.job = j /\ s.pr = None
          /\ s.head = None /\ s.base = None /\ s.main = main /\ s.found = None
      BY <1>1, NewRunType DEF RunStates
    <2>5. Moves(r, s)
      BY <1>5 DEF Moves, Inv, TypeOK
    <2> HIDE DEF s
    <2>7. Named(s)
      BY <1>2, <1>3, <1>5, <2>4 DEF Named
    <2>8. RunOK(s)
      BY <1>2, <1>3, <2>4, <2>7 DEF RunOK, Known, BoundOK, PlannedOK, ApplyingOK, ListedOK
    <2> QED  BY <1>2, <2>3, <2>4, <2>5, <2>8 DEF GoesOn
  <1>6. CASE run' = [run EXCEPT ![r].stage = "queued", ![r].kind = "apply", ![r].main = main]
    <2>1. run' = [run EXCEPT ![r].stage = "queued", ![r].kind = "apply", ![r].main = main,
                             ![r].job = "select"]
      <3> DEFINE x == [o EXCEPT !.stage = "queued", !.kind = "apply", !.main = main]
      <3>1. x \in RunStates /\ x.job = "select"
        <4>1. x \in RunStates
          BY <1>1, <1>2, <1>3, NewRunType, Edits
        <4>2. x.job = "select"
          BY <1>1, NewRunType DEF RunStates
        <4> QED  BY <4>1, <4>2
      <3>2. [x EXCEPT !.job = "select"] = x
        <4> HIDE DEF x
        <4> QED  BY <3>1 DEF RunStates
      <3> QED  BY <1>6, <3>2 DEF Inv, TypeOK
    <2> QED  BY <1>5, <2>1
  <1>7. CASE run' = [run EXCEPT ![r].stage = "queued", ![r].kind = "drift", ![r].main = main,
                                ![r].job = "trusted"]
    BY <1>5, <1>7
  <1> QED  BY <1>4, <1>6, <1>7 DEF Trigger

LEMMA StartOn == ASSUME Inv, NEW r \in Runs, Start(r) PROVE GoesOn(r)
  <1> DEFINE o == run[r]
             s == [o EXCEPT !.stage = o.job]
  <1>1. o \in RunStates /\ o.job \in Jobs /\ RunOK(o) /\ o.stage = "queued" /\ GroupIsFree
    BY Fields DEF Start, Inv, TypeOK
  <1>2. s \in RunStates
    BY <1>1, Edits DEF RunStages, Active
  <1>3. /\ s.stage = o.job /\ s.kind = o.kind /\ s.pr = o.pr /\ s.head = o.head /\ s.base = o.base
        /\ s.main = o.main /\ s.found = o.found
    BY <1>1 DEF RunStates
  <1>4. Moves(r, s)
    BY DEF Start, Moves, Inv, TypeOK
  <1> HIDE DEF s
  <1>5. s.stage \in {"select", "trusted", "report"} /\ s.stage \notin BoundStages
    BY <1>1, <1>3 DEF Jobs, BoundStages
  <1>6. Named(s)
    BY <1>1, <1>3, <1>5 DEF RunOK, Named, Active
  <1>7. RunOK(s)
    BY <1>1, <1>3, <1>5, <1>6 DEF RunOK, Known, BoundOK, PlannedOK, ApplyingOK, ListedOK
  <1> QED  BY <1>1, <1>2, <1>4, <1>7 DEF GoesOn

LEMMA RerunOn == ASSUME Inv, NEW r \in Runs, NEW job \in Jobs, Rerun(r, job) PROVE GoesOn(r)
  <1> DEFINE o == run[r]
             s == [o EXCEPT !.stage = "queued", !.job = job]
  <1>1. o \in RunStates /\ RunOK(o) /\ o.stage \in {"done", "failed"}
    BY DEF Rerun, Inv, TypeOK
  <1>2. s \in RunStates
    BY <1>1, Edits DEF RunStages
  <1>3. /\ s.stage = "queued" /\ s.kind = o.kind /\ s.pr = o.pr /\ s.head = o.head /\ s.base = o.base
        /\ s.main = o.main /\ s.found = o.found /\ s.job = job
    BY <1>1 DEF RunStates
  <1>4. Moves(r, s)
    BY DEF Rerun, Moves, Inv, TypeOK
  <1> HIDE DEF s
  <1>5. "queued" \notin Active /\ "queued" \notin BoundStages
    BY DEF Active, Jobs, BoundStages
  <1>6. job \in {"select", "trusted", "report"}
    BY DEF Jobs
  <1>7. Named(s)
    BY <1>1, <1>3, <1>5, <1>6 DEF RunOK, Named, Rerun
  <1>8. RunOK(s)
    BY <1>1, <1>3, <1>5, <1>7 DEF RunOK, Known, BoundOK, PlannedOK, ApplyingOK, ListedOK
  <1> QED  BY <1>2, <1>3, <1>4, <1>5, <1>8 DEF GoesOn

\* The run is bound to the pull request of its trigger, or to the one whose
\* merge its trigger is.
LEMMA SelectOn == ASSUME Inv, NEW r \in Runs, Select(r) PROVE GoesOn(r)
  <1> DEFINE o == run[r]
  <1>1. o \in RunStates /\ RunOK(o) /\ o.stage = "select"
    BY DEF Select, Inv, TypeOK
  <1>2. PICK p \in PullRequests :
          /\ pr[p].status \in {"open", "merged"}
          /\ run' = [run EXCEPT ![r].stage = "trusted", ![r].pr = p,
                                ![r].head = pr[p].head, ![r].base = pr[p].base]
    BY DEF Select
  <1> DEFINE s == [o EXCEPT !.stage = "trusted", !.pr = p, !.head = pr[p].head, !.base = pr[p].base]
  <1>3. s \in RunStates
    BY <1>1, PrFields, Edits DEF RunStages, Active, Jobs, Inv
  <1>4. /\ s.stage = "trusted" /\ s.kind = o.kind /\ s.pr = p /\ s.head = pr[p].head
        /\ s.base = pr[p].base /\ s.main = o.main /\ s.found = o.found
    BY <1>1 DEF RunStates
  <1>5. Moves(r, s)
    BY <1>2 DEF Moves, Inv, TypeOK
  <1> HIDE DEF s
  <1>6. p # None /\ pr[p].head # None /\ pr[p].base # None /\ candidateAt[pr[p].head] # None
    BY <1>2, NoneIsNothing DEF Inv, GitInv
  <1>7. s.stage \notin BoundStages /\ "select" \in Active
    BY <1>4 DEF BoundStages, Active, Jobs
  <1>8. Named(s)
    BY <1>1, <1>4, <1>6, <1>7 DEF RunOK, Named
  <1>9. RunOK(s)
    BY <1>1, <1>4, <1>6, <1>7, <1>8 DEF RunOK, Known, BoundOK, PlannedOK, ApplyingOK, ListedOK
  <1> QED  BY <1>1, <1>3, <1>5, <1>7, <1>9 DEF GoesOn

\* A run that is bound to a candidate of the repository.
LEMMA BindsOn ==
  ASSUME Inv, NEW r \in Runs, run[r].stage = "trusted", NEW x \in Shas, candidateAt[x] # None,
         run' = [run EXCEPT ![r].stage = "bound", ![r].candidate = candidateAt[x]],
         run[r].kind = "apply" =>
           /\ VerifyPr(r, "merged") /\ pr[run[r].pr].merge = run[r].main /\ x = run[r].main
  PROVE  GoesOn(r)
  <1> DEFINE o == run[r]
             c == candidateAt[x]
             s == [o EXCEPT !.stage = "bound", !.candidate = c]
  <1>1. o \in RunStates /\ RunOK(o)
    BY DEF Inv, TypeOK
  <1>2. c \in Candidates /\ c # None
    BY NoneIsNothing DEF Inv, TypeOK
  <1>3. s \in RunStates
    BY <1>1, <1>2, Edits DEF RunStages, Active
  <1>4. /\ s.stage = "bound" /\ s.kind = o.kind /\ s.pr = o.pr /\ s.head = o.head /\ s.base = o.base
        /\ s.main = o.main /\ s.found = o.found /\ s.candidate = c
    BY <1>1 DEF RunStates
  <1>5. Moves(r, s)
    BY DEF Moves, Inv, TypeOK
  <1> HIDE DEF s
  <1>6. "trusted" \in Active
    BY DEF Active, Jobs
  <1>7. Named(s)
    BY <1>1, <1>2, <1>4, <1>6 DEF RunOK, Named
  <1>8. BoundOK(s)
    BY <1>4 DEF BoundOK, VerifyPr
  <1>9. RunOK(s)
    BY <1>1, <1>4, <1>7, <1>8 DEF RunOK, Known, PlannedOK, ApplyingOK, ListedOK
  <1> QED  BY <1>3, <1>5, <1>6, <1>9 DEF GoesOn

LEMMA BindOn ==
  ASSUME Inv, NEW r \in Runs, BindPlan(r) \/ BindApply(r) \/ BindDrift(r)
  PROVE  GoesOn(r)
  <1>1. /\ run[r] \in RunStates /\ run[r].stage = "trusted"
        /\ RunOK(run[r])
    BY DEF Inv, TypeOK, BindPlan, BindApply, BindDrift
  <1>2. run[r].head \in Shas \cup {None} /\ run[r].main \in Shas \cup {None}
    BY <1>1, Fields
  <1>3. "trusted" \in Active \ {"select"}
    BY DEF Active, Jobs
  <1>4. CASE BindPlan(r)
    <2>1. run[r].head \in Shas /\ candidateAt[run[r].head] # None
      BY <1>1, <1>2, <1>3, <1>4 DEF BindPlan, RunOK, Named, Known
    <2> QED  BY <1>1, <1>4, <2>1, BindsOn DEF BindPlan, FetchCandidate
  <1>5. CASE BindApply(r)
    <2>1. run[r].main \in Shas /\ candidateAt[run[r].main] # None
      BY <1>1, <1>2, <1>3, <1>5 DEF BindApply, RunOK, Named, Known
    <2> QED  BY <1>1, <1>5, <2>1, BindsOn DEF BindApply, FetchCandidate
  <1>6. CASE BindDrift(r)
    <2>1. run[r].main \in Shas /\ candidateAt[run[r].main] # None
      BY <1>1, <1>2, <1>3, <1>6 DEF BindDrift, RunOK, Named, Known
    <2> QED  BY <1>1, <1>6, <2>1, BindsOn DEF BindDrift, FetchCandidate
  <1> QED  BY <1>4, <1>5, <1>6

\* The keys a bound run reads and writes evidence under.
LEMMA KeyType ==
  ASSUME NEW s \in RunStates, RunOK(s), s.kind # "drift", s.stage \in BoundStages
  PROVE  /\ s.pr \in PullRequests /\ s.head \in Shas /\ s.base \in Shas
         /\ s.candidate \in Candidates /\ <<s.pr, s.head>> \in Keys
  <1>1. s.stage \in Active \ {"select"}
    BY DEF BoundStages, Active, Jobs
  <1>2. s.pr # None /\ s.head # None /\ s.base # None /\ s.candidate # None
    BY <1>1 DEF RunOK, Named
  <1>3. s.pr \in PullRequests /\ s.head \in Shas /\ s.base \in Shas /\ s.candidate \in Candidates
    BY <1>2, Fields
  <1> QED  BY <1>3 DEF Keys

LEMMA ReadMetadataOn == ASSUME Inv, NEW r \in Runs, ReadMetadata(r) PROVE GoesOn(r)
  <1> DEFINE o == run[r]
             e == IF o.kind = "apply" THEN Download(r) ELSE None
             s == [o EXCEPT !.stage = "read", !.generation = state.version, !.reviewed = e]
  <1>1. o \in RunStates /\ RunOK(o) /\ o.stage = "bound"
    BY DEF ReadMetadata, Inv, TypeOK
  <1>2. e \in Effects \cup {None} /\ (o.kind = "apply" => e # None /\ e = evidence[<<o.pr, o.head>>])
    <2>1. o.kind = "apply" => <<o.pr, o.head>> \in Keys
      BY <1>1, KeyType DEF BoundStages
    <2> QED  BY <2>1 DEF ReadMetadata, Download, Key, Inv, TypeOK
  <1>3. s \in RunStates
    <2>1. state.version \in 1..MaxVersion
      BY DEF Inv, TypeOK, States
    <2> HIDE DEF e
    <2> QED  BY <1>1, <1>2, <2>1, Edits DEF RunStages, Active
  <1>4. /\ s.stage = "read" /\ s.kind = o.kind /\ s.pr = o.pr /\ s.head = o.head /\ s.base = o.base
        /\ s.main = o.main /\ s.found = o.found /\ s.candidate = o.candidate /\ s.reviewed = e
    BY <1>1 DEF RunStates
  <1>5. Moves(r, s)
    BY DEF ReadMetadata, Moves, Inv, TypeOK
  <1> HIDE DEF s, e
  <1>6. "bound" \in Active /\ "bound" \in BoundStages /\ "read" \in Active \ {"select"}
    BY DEF Active, Jobs, BoundStages
  <1>7. Named(s)
    BY <1>1, <1>4, <1>6 DEF RunOK, Named
  <1>8. BoundOK(s)
    BY <1>1, <1>2, <1>4, <1>6 DEF RunOK, BoundOK
  <1>9. RunOK(s)
    BY <1>1, <1>4, <1>7, <1>8 DEF RunOK, Known, PlannedOK, ApplyingOK, ListedOK
  <1> QED  BY <1>1, <1>3, <1>5, <1>6, <1>9 DEF GoesOn

LEMMA PullStateOn == ASSUME Inv, NEW r \in Runs, PullState(r) PROVE GoesOn(r)
  <1> DEFINE o == run[r]
             s == [o EXCEPT !.stage = "pulled", !.pulled = state]
  <1>1. o \in RunStates /\ RunOK(o) /\ o.stage = "read" /\ state \in States
    BY DEF PullState, Inv, TypeOK
  <1>2. s \in RunStates
    BY <1>1, Edits DEF RunStages, Active
  <1>3. /\ s.stage = "pulled" /\ s.kind = o.kind /\ s.pr = o.pr /\ s.head = o.head /\ s.base = o.base
        /\ s.main = o.main /\ s.found = o.found /\ s.candidate = o.candidate /\ s.reviewed = o.reviewed
        /\ s.pulled = state
    BY <1>1 DEF RunStates
  <1>4. Moves(r, s)
    BY DEF PullState, Moves, Inv, TypeOK
  <1> HIDE DEF s
  <1>5. "read" \in BoundStages /\ "read" \in Active \ {"select"} /\ "pulled" \in BoundStages
    BY DEF Active, Jobs, BoundStages
  <1>6. Named(s)
    BY <1>1, <1>3, <1>5 DEF RunOK, Named
  <1>7. BoundOK(s)
    BY <1>1, <1>3, <1>5 DEF RunOK, BoundOK
  <1>8. PlannedOK(s)
    <2>1. state.version \in Nat
      BY <1>1, BoundsOK DEF States
    <2> QED  BY <1>3, <2>1 DEF PlannedOK
  <1>9. RunOK(s)
    BY <1>1, <1>3, <1>6, <1>7, <1>8 DEF RunOK, Known, ApplyingOK, ListedOK
  <1> QED  BY <1>1, <1>2, <1>4, <1>5, <1>9 DEF GoesOn

LEMMA PlanOn == ASSUME Inv, NEW r \in Runs, Plan(r) PROVE GoesOn(r)
  <1> DEFINE o == run[r]
             p == TakePlan(o.candidate)
             s == [o EXCEPT !.stage = "planned", !.plan = p]
  <1>1. o \in RunStates /\ RunOK(o) /\ o.stage = "pulled"
    BY DEF Plan, Inv, TypeOK
  <1>5. "pulled" \in BoundStages /\ "pulled" \in Active \ {"select"} /\ "planned" \in BoundStages
    BY DEF Active, Jobs, BoundStages
  <1>10. o.candidate \in Candidates
    BY <1>1, <1>5, Fields DEF RunOK, Named
  <1>11. /\ p \in Plans /\ p.target = Config(o.candidate) /\ p.version = state.version
         /\ p.drift = {} => p.prior = state.resources
    BY <1>10, PlanType DEF Inv
  <1>4. Moves(r, s)
    BY DEF Plan, Moves, Inv, TypeOK
  <1> HIDE DEF p
  <1>2. s \in RunStates
    BY <1>1, <1>11, Edits DEF RunStages, Active
  <1>3. /\ s.stage = "planned" /\ s.kind = o.kind /\ s.pr = o.pr /\ s.head = o.head /\ s.base = o.base
        /\ s.main = o.main /\ s.found = o.found /\ s.candidate = o.candidate /\ s.reviewed = o.reviewed
        /\ s.pulled = o.pulled /\ s.plan = p
    BY <1>1 DEF RunStates
  <1> HIDE DEF s
  <1>6. Named(s)
    BY <1>1, <1>3, <1>5 DEF RunOK, Named
  <1>7. BoundOK(s)
    BY <1>1, <1>3, <1>5 DEF RunOK, BoundOK
  <1>8. PlannedOK(s)
    <2>1. state.version \in Nat
      BY BoundsOK DEF States, Inv, TypeOK
    <2>2. o.pulled.version <= state.version /\ (o.pulled.version = state.version => o.pulled = state)
      BY <1>1 DEF RunOK, PlannedOK
    <2> QED  BY <1>3, <1>11, <2>1, <2>2 DEF PlannedOK
  <1>9. RunOK(s)
    BY <1>1, <1>3, <1>6, <1>7, <1>8 DEF RunOK, Known, ApplyingOK, ListedOK
  <1> QED  BY <1>1, <1>2, <1>4, <1>5, <1>9 DEF GoesOn

LEMMA RecheckOn == ASSUME Inv, NEW r \in Runs, Recheck(r) PROVE GoesOn(r)
  <1> DEFINE o == run[r]
             s == [o EXCEPT !.stage = "rechecked"]
  <1>1. /\ o \in RunStates /\ RunOK(o) /\ o.stage = "planned" /\ o.kind # "apply"
        /\ state = o.pulled /\ state.version = o.generation
    BY DEF Recheck, Inv, TypeOK
  <1>2. s \in RunStates
    BY <1>1, Edits DEF RunStages, Active
  <1>3. /\ s.stage = "rechecked" /\ s.kind = o.kind /\ s.pr = o.pr /\ s.head = o.head /\ s.base = o.base
        /\ s.main = o.main /\ s.found = o.found /\ s.candidate = o.candidate
        /\ s.pulled = o.pulled /\ s.plan = o.plan /\ s.generation = o.generation
    BY <1>1 DEF RunStates
  <1>4. Moves(r, s)
    BY DEF Recheck, Moves, Inv, TypeOK
  <1> HIDE DEF s
  <1>5. "planned" \in BoundStages /\ "planned" \in Active \ {"select"} /\ "rechecked" \in BoundStages
    BY DEF Active, Jobs, BoundStages
  <1>6. Named(s)
    BY <1>1, <1>3, <1>5 DEF RunOK, Named
  <1>8. PlannedOK(s)
    <2>1. o.pulled.version \in Nat /\ o.plan.version \in Nat
      BY <1>1, Fields, BoundsOK
    <2>2. /\ o.pulled.version <= o.plan.version /\ o.plan.version <= state.version
          /\ o.plan.version = o.pulled.version /\ o.plan.drift = {} => o.plan.prior = o.pulled.resources
          /\ o.plan.target = Config(o.candidate)
      BY <1>1 DEF RunOK, PlannedOK
    <2> QED  BY <1>1, <1>3, <2>1, <2>2 DEF PlannedOK
  <1>9. RunOK(s)
    BY <1>1, <1>3, <1>6, <1>8 DEF RunOK, Known, BoundOK, ApplyingOK, ListedOK
  <1> QED  BY <1>1, <1>2, <1>4, <1>5, <1>9 DEF GoesOn

\* A run that begins to apply, or has applied all of its plan.
LEMMA AppliesOn ==
  ASSUME Inv, NEW r \in Runs, run[r].kind = "apply",
         \/ /\ run[r].stage = "planned" /\ Material(run[r].plan) /\ Reviewed(r)
            /\ run' = [run EXCEPT ![r].stage = "applying"]
         \/ run[r].stage = "applying" /\ run' = [run EXCEPT ![r].stage = "applied"]
  PROVE  GoesOn(r)
  <1> DEFINE o == run[r]
  <1>0. PICK x \in {"applying", "applied"} :
          /\ run' = [run EXCEPT ![r].stage = x]
          /\ x = "applying" => o.stage = "planned" /\ Material(o.plan) /\ Reviewed(r)
          /\ x = "applied" => o.stage = "applying"
    OBVIOUS
  <1> DEFINE s == [o EXCEPT !.stage = x]
  <1>1. o \in RunStates /\ RunOK(o)
    BY DEF Inv, TypeOK
  <1>2. s \in RunStates
    BY <1>1, Edits DEF RunStages, Active
  <1>3. /\ s.stage = x /\ s.kind = o.kind /\ s.pr = o.pr /\ s.head = o.head /\ s.base = o.base
        /\ s.main = o.main /\ s.found = o.found /\ s.candidate = o.candidate
    BY <1>1 DEF RunStates
  <1>4. /\ s.pulled = o.pulled /\ s.plan = o.plan /\ s.generation = o.generation
        /\ s.reviewed = o.reviewed
    BY <1>1 DEF RunStates
  <1>10. Moves(r, s)
    BY <1>0 DEF Moves, Inv, TypeOK
  <1> HIDE DEF s
  <1>5. /\ o.stage \in BoundStages /\ o.stage \in Active \ {"select"} /\ x \in BoundStages
        /\ o.stage # "bound" /\ x # "idle"
    BY <1>0 DEF Active, Jobs, BoundStages
  <1>6. Named(s)
    BY <1>0, <1>1, <1>3, <1>5 DEF RunOK, Named
  <1>7. BoundOK(s)
    BY <1>0, <1>1, <1>3, <1>4, <1>5 DEF RunOK, BoundOK
  <1>8. PlannedOK(s)
    BY <1>0, <1>1, <1>3, <1>4 DEF RunOK, PlannedOK
  <1>9. ApplyingOK(s)
    <2>1. EffectOf(s) = EffectOf(o) /\ EffectOf(o) = Effect(r)
      BY <1>3, <1>4 DEF EffectOf, Effect
    <2> QED  BY <1>0, <1>1, <1>3, <1>4, <2>1 DEF RunOK, ApplyingOK, Reviewed
  <1>11. RunOK(s)
    BY <1>0, <1>1, <1>3, <1>6, <1>7, <1>8, <1>9 DEF RunOK, Known, ListedOK
  <1> QED  BY <1>2, <1>5, <1>10, <1>11 DEF GoesOn

\* A drift run ends, or hands a fingerprint to its report.
LEMMA ManifestOn == ASSUME Inv, NEW r \in Runs, Manifest(r) PROVE GoesOn(r)
  <1> DEFINE o == run[r]
             f == FindingsOf(o.plan)
             fp == [candidate |-> o.candidate, findings |-> f]
  <1>1. o \in RunStates /\ RunOK(o) /\ o.stage = "rechecked" /\ o.kind = "drift"
    BY DEF Manifest, Inv, TypeOK
  <1>2. "rechecked" \in BoundStages /\ "rechecked" \in Active
    BY DEF BoundStages, Active, Jobs
  <1>3. fp \in Fingerprints /\ fp # None
    <2>1. o.candidate \in Candidates /\ o.plan \in Plans
      BY <1>1, <1>2, Fields DEF RunOK, Named
    <2>2. fp \in Fingerprints
      BY <2>1, FingerprintType
    <2> QED  BY <2>2, NoneIsNothing
  <1> HIDE DEF fp
  <1>4. PICK x \in {"report", "done"}, g \in {fp, None} :
          /\ run' = [run EXCEPT ![r] = [Ended(r, x) EXCEPT !.found = g]]
          /\ x = "report" => g = fp
    BY DEF Manifest, fp
  <1> DEFINE t == Ended(r, x)
             s == [t EXCEPT !.found = g]
  <1>5. /\ t \in RunStates
        /\ t.stage = x /\ t.kind = o.kind /\ t.pr = o.pr /\ t.head = o.head
        /\ t.base = o.base /\ t.main = o.main
    BY EndedType DEF Inv
  <1>11. Moves(r, s)
    BY <1>4 DEF Moves
  <1> HIDE DEF t
  <1>6. s \in RunStates
    BY <1>3, <1>5, Edits
  <1>7. /\ s.stage = x /\ s.kind = "drift" /\ s.pr = o.pr /\ s.head = o.head
        /\ s.base = o.base /\ s.main = o.main /\ s.found = g
    BY <1>1, <1>5 DEF RunStates
  <1> HIDE DEF s
  <1>8. x \notin BoundStages /\ x \notin {"idle", "queued"}
    BY DEF BoundStages
  <1>9. Named(s)
    BY <1>1, <1>3, <1>4, <1>7, <1>8 DEF RunOK, Named
  <1>10. RunOK(s)
    BY <1>1, <1>7, <1>8, <1>9 DEF RunOK, Known, BoundOK, PlannedOK, ApplyingOK, ListedOK
  <1> QED  BY <1>1, <1>2, <1>6, <1>10, <1>11 DEF GoesOn

\* A report that found no issue has the fingerprint no issue has.
LEMMA ListIssuesOn == ASSUME Inv, NEW r \in Runs, ListIssues(r) PROVE GoesOn(r)
  <1> DEFINE o == run[r]
             found == Matches(o.found)
  <1>1. o \in RunStates /\ RunOK(o) /\ o.stage = "report"
    BY DEF ListIssues, Inv, TypeOK
  <1>2. PICK i \in IF found = {} THEN {None} ELSE found :
          run' = [run EXCEPT ![r].stage = "listed", ![r].match = i]
    BY DEF ListIssues
  <1>3. /\ i \in Issues \cup {None}
        /\ i = None => \A j \in Issues : OnTime(issues[j]) => issues[j].fingerprint # o.found
    BY <1>2, NoneIsNothing DEF Matches, OnTime
  <1> DEFINE s == [o EXCEPT !.stage = "listed", !.match = i]
  <1>4. s \in RunStates
    BY <1>1, <1>3, Edits DEF RunStages, Active
  <1>5. /\ s.stage = "listed" /\ s.kind = o.kind /\ s.pr = o.pr /\ s.head = o.head /\ s.base = o.base
        /\ s.main = o.main /\ s.found = o.found /\ s.match = i
    BY <1>1 DEF RunStates
  <1>6. Moves(r, s)
    BY <1>2 DEF Moves, Inv, TypeOK
  <1> HIDE DEF s
  <1>7. "listed" \notin BoundStages /\ "report" \in Active \ {"select"}
    BY DEF BoundStages, Active, Jobs
  <1>8. Named(s)
    BY <1>1, <1>5, <1>7 DEF RunOK, Named
  <1>9. RunOK(s)
    BY <1>1, <1>3, <1>5, <1>7, <1>8 DEF RunOK, Known, BoundOK, PlannedOK, ApplyingOK, ListedOK
  <1> QED  BY <1>1, <1>4, <1>6, <1>7, <1>9 DEF GoesOn

\* Whatever a run does, it goes on as a run that is in order.
LEMMA WorkflowOn == ASSUME Inv, NEW r \in Runs, Workflow(r) PROVE GoesOn(r)
  <1>1. CASE Trigger(r) \/ Start(r) \/ Select(r) \/ \E job \in Jobs : Rerun(r, job)
    BY <1>1, TriggerOn, StartOn, SelectOn, RerunOn
  <1>2. CASE BindPlan(r) \/ BindApply(r) \/ BindDrift(r) \/ ReadMetadata(r)
    BY <1>2, BindOn, ReadMetadataOn
  <1>3. CASE PullState(r) \/ Plan(r) \/ Recheck(r) \/ Manifest(r) \/ ListIssues(r)
    BY <1>3, PullStateOn, PlanOn, RecheckOn, ManifestOn, ListIssuesOn
  <1>4. CASE Upload(r) \/ NoChange(r) \/ Report(r) \/ ReportLate(r) \/ Fail(r) \/ LosePlan(r)
    <2>1. PICK end \in {"done", "failed"} : Moves(r, Ended(r, end))
      BY <1>4 DEF Upload, NoChange, Report, ReportLate, Fail, LosePlan, Moves
    <2>2. run[r].stage # "idle"
      BY <1>4 DEF Upload, NoChange, Report, ReportLate, Fail, LosePlan, Active, Jobs
    <2> QED  BY <2>1, <2>2, EndsOn
  <1>5. CASE BeginApply(r)
    BY <1>5, AppliesOn DEF BeginApply
  <1>6. ASSUME NEW done \in SUBSET Addresses, EndApply(r, done) PROVE GoesOn(r)
    <2>1. run[r].stage = "applying" /\ run[r].kind = "apply"
      BY <1>6 DEF EndApply, Inv, RunOK, ApplyingOK
    <2>2. CASE done = Acts(run[r].plan)
      <3>1. run' = [run EXCEPT ![r].stage = "applied"]
        BY <1>6, <2>2 DEF EndApply
      <3> QED  BY <2>1, <3>1, AppliesOn
    <2>3. CASE done # Acts(run[r].plan)
      <3>1. Moves(r, Ended(r, "failed"))
        BY <1>6, <2>3 DEF EndApply, Moves, Inv, TypeOK
      <3> QED  BY <2>1, <3>1, EndsOn
    <2> QED  BY <2>2, <2>3
  <1>7. ASSUME NEW done \in SUBSET Addresses, NEW saved \in SUBSET done, LoseApply(r, done, saved)
        PROVE  GoesOn(r)
    BY <1>7, EndsOn DEF LoseApply, Moves
  <1> QED  BY <1>1, <1>2, <1>3, <1>4, <1>5, <1>6, <1>7 DEF Workflow, Apply

----------------------------------------------------------------------------
(* What a step does to the rest.                                           *)

\* What a run relies on stays, when nothing is undone.
LEMMA Carried ==
  ASSUME TypeOK, Grows, NEW q \in Runs, NEW s \in RunStates, RunOK(s), run'[q] = s,
         s.stage = "listed" => NoNewIssue
  PROVE  RunOK(run[q])'
  <1>1. /\ s.head \in Shas \cup {None} /\ s.main \in Shas \cup {None}
        /\ s.found \in Fingerprints \cup {None}
        /\ s.pulled.version \in 1..MaxVersion /\ s.plan.version \in 1..MaxVersion
    BY Fields
  <1>2. Named(run[q])'
    BY DEF RunOK, Named
  <1>3. Known(run[q])'
    BY <1>1 DEF RunOK, Known, Grows
  <1>4. BoundOK(run[q])'
    <2>1. SUFFICES ASSUME s.kind = "apply", s.stage \in BoundStages
                   PROVE  /\ pr'[s.pr].status = "merged" /\ pr'[s.pr].merge = s.main
                          /\ pr'[s.pr].head = s.head /\ pr'[s.pr].base = s.base
                          /\ s.candidate = candidateAt'[s.main]
                          /\ s.stage # "bound" => /\ s.reviewed # None
                                                  /\ evidence'[<<s.pr, s.head>>] = s.reviewed
      BY DEF BoundOK
    <2>2. /\ s.pr \in PullRequests /\ <<s.pr, s.head>> \in Keys /\ s.candidate \in Candidates
      BY <2>1, KeyType
    <2>3. /\ pr[s.pr].status = "merged" /\ pr[s.pr].merge = s.main
          /\ pr[s.pr].head = s.head /\ pr[s.pr].base = s.base
          /\ s.candidate = candidateAt[s.main]
          /\ s.stage # "bound" => s.reviewed # None /\ evidence[<<s.pr, s.head>>] = s.reviewed
      BY <2>1 DEF RunOK, BoundOK
    <2>4. s.main \in Shas /\ candidateAt[s.main] # None
      <3>1. s.main # None
        BY <2>1 DEF RunOK, Named, BoundStages
      <3> QED  BY <1>1, <3>1 DEF RunOK, Known
    <2>5. pr'[s.pr] = pr[s.pr] /\ candidateAt'[s.main] = candidateAt[s.main]
      BY <2>2, <2>3, <2>4 DEF Grows
    <2>6. s.stage # "bound" => evidence'[<<s.pr, s.head>>] = evidence[<<s.pr, s.head>>]
      BY <2>2, <2>3 DEF Grows
    <2> QED  BY <2>3, <2>5, <2>6
  <1>5. PlannedOK(run[q])'
    <2>1. /\ state.version \in Nat /\ state'.version \in Nat /\ state.version <= state'.version
          /\ state'.version = state.version => state' = state
      BY BoundsOK DEF TypeOK, States, Grows
    <2>3. /\ s.stage \in {"pulled", "planned", "rechecked"} =>
               /\ s.pulled.version <= state'.version
               /\ s.pulled.version = state'.version => s.pulled = state'
          /\ s.stage \in {"planned", "rechecked"} => s.plan.version <= state'.version
      BY <1>1, <2>1 DEF RunOK, PlannedOK
    <2>4. /\ s.stage \in {"planned", "rechecked"} =>
               /\ s.pulled.version <= s.plan.version
               /\ s.plan.version = s.pulled.version /\ s.plan.drift = {} =>
                    s.plan.prior = s.pulled.resources
          /\ s.stage = "rechecked" =>
               /\ s.plan.version = s.pulled.version
               /\ s.generation = s.pulled.version
          /\ s.stage \in {"planned", "rechecked", "applying"} => s.plan.target = Config(s.candidate)
      BY DEF RunOK, PlannedOK
    <2> QED  BY <2>3, <2>4 DEF PlannedOK
  <1>6. ApplyingOK(run[q])'
    BY DEF RunOK, ApplyingOK, EffectOf
  <1>7. ListedOK(run[q])'
    <2>1. SUFFICES ASSUME s.stage = "listed", s.match = None
                   PROVE  \A i \in Issues : OnTime(issues'[i]) => issues'[i].fingerprint # s.found
      BY DEF ListedOK, OnTime
    <2> QED  BY <2>1 DEF NoNewIssue, RunOK, ListedOK
  <1> QED  BY <1>2, <1>3, <1>4, <1>5, <1>6, <1>7 DEF RunOK

\* Of a step of one run, the others only see what it leaves in the stores.
LEMMA RunsStay ==
  ASSUME Inv, NEW r \in Runs, GoesOn(r), Grows,
         NoNewIssue \/ (run[r].stage \in Active /\ run'[r].stage # "listed")
  PROVE  run' \in [Runs -> RunStates] /\ OneActive' /\ \A q \in Runs : RunOK(run[q])'
  <1>1. PICK s \in RunStates :
          /\ Moves(r, s) /\ RunOK(s)
          /\ s.stage \in Active => run[r].stage \in Active \/ GroupIsFree
    BY DEF GoesOn
  <1>2. run' = [run EXCEPT ![r] = s] /\ run \in [Runs -> RunStates]
    BY <1>1 DEF Moves, Inv, TypeOK
  <1>3. run' \in [Runs -> RunStates] /\ run'[r] = s /\ \A q \in Runs \ {r} : run'[q] = run[q]
    BY <1>2
  <1>4. OneActive'
    BY <1>1, <1>3 DEF OneActive, Inv, GroupIsFree
  <1>5. RunOK(run[r])'
    BY <1>1, <1>3, Carried DEF Inv
  <1>6. ASSUME NEW q \in Runs \ {r} PROVE RunOK(run[q])'
    <2>1. run[q].stage = "listed" => NoNewIssue
      <3>1. "listed" \in Active
        BY DEF Active
      <3> QED  BY <3>1 DEF Inv, OneActive
    <2> QED  BY <1>2, <1>3, <2>1, Carried DEF Inv
  <1> QED  BY <1>3, <1>4, <1>5, <1>6

\* A run changes neither commits nor pull requests.
LEMMA GithubStays == ASSUME NEW r \in Runs, Workflow(r) PROVE UNCHANGED <<candidateAt, main, pr>>
  BY DEF Workflow, Apply, Trigger, Start, Select, Rerun, BindPlan, BindApply, BindDrift, ReadMetadata,
         PullState, Plan, Recheck, Upload, BeginApply, EndApply, LoseApply, NoChange, Manifest,
         ListIssues, Report, ReportLate, Fail, LosePlan, github

\* What terraform apply leaves, in the project and in the state.
LEMMA SavedType ==
  ASSUME TypeOK, NEW p \in Plans, NEW done \in SUBSET Addresses, NEW saved \in SUBSET done,
         state.version < MaxVersion
  PROVE  /\ Changes(p, done, live) \in Resources
         /\ Saved(p, saved) \in States
         /\ state.version <= Saved(p, saved).version
         /\ Saved(p, saved).version = state.version => Saved(p, saved) = state
  <1>1. p.target \in Resources /\ live \in Resources /\ state.resources \in Resources
    BY DEF Plans, TypeOK, States
  <1>2. ASSUME NEW base \in Resources, NEW set \in SUBSET Addresses
        PROVE  Changes(p, set, base) \in Resources
    BY <1>1 DEF Changes, Resources
  <1>3. state \in States /\ state.version \in 1..MaxVersion /\ MaxVersion \in Nat
    BY BoundsOK DEF TypeOK, States
  <1>4. state.version + 1 \in 1..MaxVersion
    BY <1>3
  <1>5. saved \in SUBSET Addresses
    OBVIOUS
  <1> DEFINE x == [version |-> state.version + 1, resources |-> Changes(p, saved, state.resources)]
  <1>6. x \in States
    BY <1>1, <1>2, <1>4, <1>5 DEF States
  <1>7. Saved(p, saved) = IF saved = {} THEN state ELSE x
    BY DEF Saved
  <1>8. Changes(p, done, live) \in Resources
    BY <1>1, <1>2
  <1>9. x.version = state.version + 1
    OBVIOUS
  <1> HIDE DEF x
  <1>10. Saved(p, saved) \in States
    BY <1>3, <1>6, <1>7
  <1>11. /\ state.version <= Saved(p, saved).version
         /\ Saved(p, saved).version = state.version => Saved(p, saved) = state
    BY <1>3, <1>7, <1>9
  <1> QED  BY <1>8, <1>10, <1>11

\* What a plan run stores is an effect of the one state it has read.
LEMMA UploadStores ==
  ASSUME Inv, NEW r \in Runs, Upload(r)
  PROVE  /\ evidence' \in [Keys -> Effects \cup {None}] /\ EvidenceInv'
         /\ \A k \in Keys : evidence[k] # None => evidence'[k] = evidence[k]
  <1> DEFINE o == run[r]
             e == Effect(r)
  <1>1. o \in RunStates /\ RunOK(o) /\ o.stage = "rechecked" /\ o.kind = "plan"
    BY DEF Upload, Inv, TypeOK
  <1>2. /\ o.pr \in PullRequests /\ o.head \in Shas /\ o.base \in Shas
        /\ o.candidate \in Candidates /\ Key(r) \in Keys
    BY <1>1, KeyType DEF BoundStages, Key
  <1>3. o.generation \in 1..MaxVersion /\ o.pulled \in States /\ o.plan \in Plans
    BY <1>1, Fields
  <1>4. Creates(o.plan) \in SUBSET Addresses
    BY DEF Creates, Acts
  <1>5. e \in Effects
    BY <1>2, <1>3, <1>4 DEF Effect, Effects
  <1>6. e.generation = o.generation /\ e.pulled = o.pulled /\ e.creates = Creates(o.plan)
    BY DEF Effect
  <1>7. evidence[Key(r)] = None /\ evidence' = [evidence EXCEPT ![Key(r)] = e]
    BY DEF Upload, Creatable
  <1> HIDE DEF e
  <1>8. e.generation = e.pulled.version
    BY <1>1, <1>6 DEF RunOK, PlannedOK
  <1>9. \A a \in e.creates : e.pulled.resources[a] = None
    <2>1. o.plan.drift = {}
      BY DEF Upload, Material
    <2>2. o.plan.prior = o.pulled.resources
      BY <1>1, <2>1 DEF RunOK, PlannedOK
    <2> QED  BY <1>6, <2>2 DEF Creates
  <1>10. evidence \in [Keys -> Effects \cup {None}] /\ EvidenceInv
    BY DEF Inv, TypeOK
  <1>11. \A k \in Keys : evidence'[k] = IF k = Key(r) THEN e ELSE evidence[k]
    BY <1>2, <1>7, <1>10
  <1>12. evidence' \in [Keys -> Effects \cup {None}]
    BY <1>5, <1>7, <1>10
  <1>13. EvidenceInv'
    BY <1>8, <1>9, <1>10, <1>11 DEF EvidenceInv
  <1>14. \A k \in Keys : evidence[k] # None => evidence'[k] = evidence[k]
    BY <1>7, <1>11
  <1> QED  BY <1>12, <1>13, <1>14

\* An apply that ends, or is lost, leaves a state and resources.
LEMMA ApplyStores ==
  ASSUME Inv, NEW r \in Runs, NEW done \in SUBSET Addresses, NEW saved \in SUBSET done,
         state.version < MaxVersion,
         live' = Changes(run[r].plan, done, live), state' = Saved(run[r].plan, saved)
  PROVE  /\ live' \in Resources /\ state' \in States
         /\ state.version <= state'.version
         /\ state'.version = state.version => state' = state
  <1>1. run[r].plan \in Plans
    BY Fields DEF Inv, TypeOK
  <1> QED  BY <1>1, SavedType DEF Inv

\* What a step of a run does to the stores.
LEMMA WorkflowStores ==
  ASSUME Inv, NEW r \in Runs, Workflow(r)
  PROVE  /\ evidence' \in [Keys -> Effects \cup {None}] /\ EvidenceInv'
         /\ live' \in Resources /\ locked' \in BOOLEAN /\ events' \in 0..MaxEvents
         /\ Grows
  <1>0. UNCHANGED <<candidateAt, main, pr>>
    BY GithubStays
  <1>1. /\ evidence \in [Keys -> Effects \cup {None}] /\ EvidenceInv
        /\ live \in Resources /\ locked \in BOOLEAN /\ events \in 0..MaxEvents
        /\ state \in States /\ state.version \in Nat
    BY BoundsOK DEF Inv, TypeOK, States
  <1>2. ASSUME UNCHANGED <<evidence, state>>
        PROVE  /\ evidence' \in [Keys -> Effects \cup {None}] /\ EvidenceInv'
               /\ Grows
    BY <1>0, <1>1, <1>2 DEF Grows, EvidenceInv
  <1>3. CASE Trigger(r) \/ Select(r) \/ (\E job \in Jobs : Rerun(r, job)) \/ BindPlan(r) \/ BindApply(r)
             \/ BindDrift(r) \/ ReadMetadata(r) \/ PullState(r) \/ Plan(r) \/ Recheck(r)
             \/ NoChange(r) \/ Manifest(r) \/ ListIssues(r) \/ Report(r) \/ ReportLate(r)
             \/ Fail(r)
    <2>1. UNCHANGED <<evidence, state, live, locked, events>>
      BY <1>3 DEF Trigger, Select, Rerun, BindPlan, BindApply, BindDrift, ReadMetadata, PullState,
         Plan, Recheck, NoChange, Manifest, ListIssues, Report, ReportLate, Fail, cloud, rest
    <2> QED  BY <1>1, <1>2, <2>1
  <1>4. CASE Start(r) \/ BeginApply(r) \/ LosePlan(r)
    <2>1. UNCHANGED <<evidence, state, live>>
      BY <1>4 DEF Start, BeginApply, LosePlan, cloud, rest
    <2>2. locked' \in BOOLEAN
      BY <1>1, <1>4 DEF Start, BeginApply, LosePlan, cloud, rest
    <2>3. events' \in 0..MaxEvents
      BY <1>1, <1>4, BoundsOK DEF Start, BeginApply, LosePlan, cloud, rest
    <2> QED  BY <1>1, <1>2, <2>1, <2>2, <2>3
  <1>5. CASE Upload(r)
    <2>1. UNCHANGED <<state, live, locked, events>>
      BY <1>5 DEF Upload, cloud, rest
    <2> QED  BY <1>0, <1>1, <1>5, <2>1, UploadStores DEF Grows
  <1>6. ASSUME NEW done \in SUBSET Addresses, EndApply(r, done)
        PROVE  /\ evidence' \in [Keys -> Effects \cup {None}] /\ EvidenceInv'
               /\ live' \in Resources /\ locked' \in BOOLEAN /\ events' \in 0..MaxEvents
               /\ Grows
    <2>1. UNCHANGED <<evidence, events>> /\ locked' \in BOOLEAN
      BY <1>6 DEF EndApply, rest
    <2>2. /\ live' \in Resources /\ state' \in States
          /\ state.version <= state'.version
          /\ state'.version = state.version => state' = state
      BY <1>6, ApplyStores DEF EndApply
    <2> QED  BY <1>0, <1>1, <2>1, <2>2 DEF Grows, EvidenceInv
  <1>7. ASSUME NEW done \in SUBSET Addresses, NEW saved \in SUBSET done, LoseApply(r, done, saved)
        PROVE  /\ evidence' \in [Keys -> Effects \cup {None}] /\ EvidenceInv'
               /\ live' \in Resources /\ locked' \in BOOLEAN /\ events' \in 0..MaxEvents
               /\ Grows
    <2>1. UNCHANGED <<evidence, events, locked>>
      BY <1>7 DEF LoseApply, rest
    <2>2. /\ live' \in Resources /\ state' \in States
          /\ state.version <= state'.version
          /\ state'.version = state.version => state' = state
      BY <1>7, ApplyStores DEF LoseApply
    <2> QED  BY <1>0, <1>1, <2>1, <2>2 DEF Grows, EvidenceInv
  <1> QED  BY <1>3, <1>4, <1>5, <1>6, <1>7 DEF Workflow, Apply

\* What opens an issue keeps the type of the issues.
LEMMA OpenIssueType ==
  ASSUME TypeOK, NEW f \in Fingerprints, NEW isLate \in BOOLEAN, OpenIssue(f, isLate)
  PROVE  issues' \in [Issues -> DriftIssues \cup {None}]
  BY DEF OpenIssue, DriftIssues, TypeOK

\* Only a report writes or posts an issue, of its fingerprint, and is over then.
LEMMA WorkflowIssues ==
  ASSUME Inv, NEW r \in Runs, Workflow(r)
  PROVE  /\ issues' \in [Issues -> DriftIssues \cup {None}] /\ late' \subseteq Posts
         /\ NoNewIssue \/ (run[r].stage \in Active /\ run'[r].stage # "listed")
  <1>1. /\ issues \in [Issues -> DriftIssues \cup {None}] /\ late \subseteq Posts
        /\ run[r].stage = "listed" => run[r].found \in Fingerprints
    BY Fields DEF Inv, TypeOK, RunOK, Named
  <1>2. UNCHANGED issues => NoNewIssue
    BY DEF NoNewIssue
  <1>3. CASE Report(r)
    <2>1. run[r].stage = "listed" /\ late' = late
      BY <1>3 DEF Report
    <2>2. issues' \in [Issues -> DriftIssues \cup {None}]
      BY <1>1, <1>3, <2>1, OpenIssueType DEF Report, Inv
    <2>3. PICK end \in {"done", "failed"} : run' = [run EXCEPT ![r] = Ended(r, end)]
      BY <1>3 DEF Report
    <2>4. run'[r].stage = end
      BY <2>3, EndedType DEF Inv, TypeOK
    <2> QED  BY <1>1, <2>1, <2>2, <2>4 DEF Active
  <1>4. CASE ReportLate(r)
    <2>1. [attempt |-> events, fingerprint |-> run[r].found] \in Posts
      BY <1>1, <1>4 DEF ReportLate, Posts, Inv, TypeOK
    <2> QED  BY <1>1, <1>2, <1>4, <2>1 DEF ReportLate
  <1>5. ~Report(r) /\ ~ReportLate(r) => UNCHANGED <<issues, late>>
    BY DEF Workflow, Apply, Trigger, Start, Select, Rerun, BindPlan, BindApply, BindDrift, ReadMetadata,
         PullState, Plan, Recheck, Upload, BeginApply, EndApply, LoseApply, NoChange, Manifest,
         ListIssues, Fail, LosePlan, rest
  <1> QED  BY <1>1, <1>2, <1>3, <1>4, <1>5

LEMMA WorkflowInv == ASSUME Inv, NEW r \in Runs, Workflow(r) PROVE Inv'
  <1>1. UNCHANGED <<candidateAt, main, pr>>
    BY GithubStays
  <1>2. /\ evidence' \in [Keys -> Effects \cup {None}] /\ EvidenceInv'
        /\ live' \in Resources /\ locked' \in BOOLEAN /\ events' \in 0..MaxEvents
        /\ Grows
    BY WorkflowStores
  <1>3. /\ issues' \in [Issues -> DriftIssues \cup {None}] /\ late' \subseteq Posts
        /\ NoNewIssue \/ (run[r].stage \in Active /\ run'[r].stage # "listed")
    BY WorkflowIssues
  <1>4. run' \in [Runs -> RunStates] /\ OneActive' /\ \A q \in Runs : RunOK(run[q])'
    BY <1>2, <1>3, WorkflowOn, RunsStay
  <1>5. TypeOK'
    BY <1>1, <1>2, <1>3, <1>4 DEF Inv, TypeOK, Grows
  <1>6. GitInv'
    BY <1>1 DEF Inv, GitInv
  <1> QED  BY <1>2, <1>4, <1>5, <1>6 DEF Inv

\* A new commit takes a number that has none.
LEMMA CommitGrows ==
  ASSUME TypeOK, NEW s \in Shas, NEW c \in Candidates, Commit(s, c)
  PROVE  /\ candidateAt' \in [Shas -> Candidates \cup {None}]
         /\ candidateAt'[s] # None
         /\ \A x \in Shas : candidateAt[x] # None => candidateAt'[x] = candidateAt[x]
         /\ \A x \in Shas \cup {None} : candidateAt[x] # None /\ x # None => candidateAt'[x] # None
  BY NoneIsNothing DEF TypeOK, Commit

\* What the owner does to the repository.
LEMMA RepositoryStores ==
  ASSUME Inv, Repository
  PROVE  /\ TypeOK' /\ GitInv'
         /\ \A x \in Shas : candidateAt[x] # None => candidateAt'[x] = candidateAt[x]
         /\ \A p \in PullRequests : pr[p].status = "merged" => pr'[p] = pr[p]
  <1>1. /\ main \in Shas /\ candidateAt[main] # None
        /\ pr \in [PullRequests -> PrStates]
    BY DEF Inv, GitInv, TypeOK
  <1>2. ASSUME NEW s \in Shas, NEW c \in Candidates, Commit(s, c), UNCHANGED pr, main' \in {s, main}
        PROVE  GitInv'
    <2>1. ASSUME NEW p \in PullRequests
          PROVE  /\ pr[p].status # "none" => candidateAt'[pr[p].head] # None /\ candidateAt'[pr[p].base] # None
                 /\ pr[p].status = "merged" => candidateAt'[pr[p].merge] # None
      BY <1>2, CommitGrows, PrFields DEF Inv, GitInv
    <2> QED  BY <1>1, <1>2, <2>1, CommitGrows DEF Inv, GitInv
  <1>3. ASSUME NEW s \in Shas, NEW c \in Candidates, Commit(s, c), main' \in {s, main},
               NEW p \in PullRequests, NEW v \in PrStates, pr' = [pr EXCEPT ![p] = v],
               pr[p].status # "merged", v.status \in {"open", "merged"},
               v.head = s \/ (v.head = pr[p].head /\ pr[p].status = "open"),
               v.base = main \/ (v.base = pr[p].base /\ pr[p].status = "open"),
               v.status = "merged" => v.merge = s
        PROVE  /\ pr' \in [PullRequests -> PrStates] /\ GitInv'
               /\ \A q \in PullRequests : pr[q].status = "merged" => pr'[q] = pr[q]
    <2>1. /\ pr' \in [PullRequests -> PrStates] /\ pr'[p] = v
          /\ \A q \in PullRequests : q # p => pr'[q] = pr[q]
      BY <1>1, <1>3
    <2>2. s # None /\ main # None /\ candidateAt'[s] # None /\ candidateAt'[main] # None
      BY <1>1, <1>3, CommitGrows, NoneIsNothing DEF Inv
    <2>3. ASSUME NEW q \in PullRequests
          PROVE  /\ pr[q].status # "none" =>
                      /\ pr[q].head # None /\ candidateAt'[pr[q].head] # None
                      /\ pr[q].base # None /\ candidateAt'[pr[q].base] # None
                 /\ pr[q].status = "merged" => pr[q].merge # None /\ candidateAt'[pr[q].merge] # None
      BY <1>3, CommitGrows, PrFields DEF Inv, GitInv
    <2>4. /\ v.head # None /\ candidateAt'[v.head] # None
          /\ v.base # None /\ candidateAt'[v.base] # None
          /\ v.status = "merged" => v.merge # None /\ candidateAt'[v.merge] # None
      BY <1>3, <2>2, <2>3
    <2>5. GitInv'
      BY <1>3, <2>1, <2>2, <2>3, <2>4 DEF GitInv
    <2> QED  BY <1>3, <2>1, <2>5
  <1>4. ASSUME NEW s \in Shas, NEW p \in PullRequests, NEW c \in Candidates, Open(p, s, c)
        PROVE  /\ TypeOK' /\ GitInv'
               /\ \A q \in PullRequests : pr[q].status = "merged" => pr'[q] = pr[q]
    <2> DEFINE v == [status |-> "open", head |-> s, base |-> main, merge |-> None]
    <2>1. v \in PrStates
      BY <1>1 DEF PrStates
    <2>2. /\ pr' \in [PullRequests -> PrStates] /\ GitInv'
          /\ \A q \in PullRequests : pr[q].status = "merged" => pr'[q] = pr[q]
      <3>1. /\ pr' = [pr EXCEPT ![p] = v] /\ pr[p].status = "none" /\ Commit(s, c) /\ main' = main
            /\ v.status = "open" /\ v.head = s /\ v.base = main
        BY <1>4 DEF Open
      <3> HIDE DEF v
      <3> QED  BY <1>3, <2>1, <3>1
    <2> QED  BY <1>4, <2>2, CommitGrows DEF Open, Inv, TypeOK, cloud, rest
  <1>5. ASSUME NEW s \in Shas, NEW p \in PullRequests, NEW c \in Candidates, PushHead(p, s, c)
        PROVE  /\ TypeOK' /\ GitInv'
               /\ \A q \in PullRequests : pr[q].status = "merged" => pr'[q] = pr[q]
    <2>1. PICK base \in {pr[p].base, main} : pr' = [pr EXCEPT ![p].head = s, ![p].base = base]
      BY <1>5 DEF PushHead
    <2> DEFINE v == [pr[p] EXCEPT !.head = s, !.base = base]
    <2>2. pr[p] \in PrStates /\ base \in Shas \cup {None}
      BY <1>1, <2>1, PrFields DEF Inv
    <2>3. v \in PrStates
      BY <2>2 DEF PrStates
    <2>4. /\ v.status = pr[p].status /\ v.head = s /\ v.base = base
      BY <2>2 DEF PrStates
    <2>5. pr' = [pr EXCEPT ![p] = v]
      BY <1>1, <2>1
    <2> HIDE DEF v
    <2>6. /\ pr' \in [PullRequests -> PrStates] /\ GitInv'
          /\ \A q \in PullRequests : pr[q].status = "merged" => pr'[q] = pr[q]
      <3>1. pr[p].status = "open" /\ Commit(s, c) /\ main' = main
        BY <1>5 DEF PushHead
      <3>2. /\ v.status = "open" /\ v.head = s /\ v.base \in {main, pr[p].base}
        BY <2>1, <2>4, <3>1
      <3> QED  BY <1>3, <2>3, <2>5, <3>1, <3>2
    <2> QED  BY <1>5, <2>6, CommitGrows DEF PushHead, Inv, TypeOK, cloud, rest
  <1>6. ASSUME NEW s \in Shas, NEW p \in PullRequests, Merge(p, s)
        PROVE  /\ TypeOK' /\ GitInv'
               /\ \A q \in PullRequests : pr[q].status = "merged" => pr'[q] = pr[q]
               /\ \A x \in Shas : candidateAt[x] # None => candidateAt'[x] = candidateAt[x]
    <2>1. PICK c \in MergeResults(p) : Commit(s, c)
      BY <1>6 DEF Merge
    <2>2. c \in Candidates
      <3>1. pr[p].head \in Shas /\ candidateAt[pr[p].head] # None
        BY <1>6, PrFields DEF Merge, Inv, GitInv
      <3> QED  BY <1>1, <2>1, <3>1 DEF MergeResults, Inv, TypeOK
    <2> DEFINE v == [pr[p] EXCEPT !.status = "merged", !.merge = s]
    <2>3. v \in PrStates
      <3>1. pr[p] \in PrStates
        BY <1>1
      <3> QED  BY <3>1 DEF PrStates
    <2>4. /\ v.status = "merged" /\ v.head = pr[p].head /\ v.base = pr[p].base /\ v.merge = s
      <3>1. pr[p] \in PrStates
        BY <1>1
      <3> QED  BY <3>1 DEF PrStates
    <2>5. pr' = [pr EXCEPT ![p] = v]
      BY <1>1, <1>6 DEF Merge
    <2> HIDE DEF v
    <2>6. /\ pr' \in [PullRequests -> PrStates] /\ GitInv'
          /\ \A q \in PullRequests : pr[q].status = "merged" => pr'[q] = pr[q]
      <3>1. pr[p].status = "open" /\ Commit(s, c) /\ main' = s
        BY <1>6, <2>1 DEF Merge
      <3> QED  BY <1>3, <2>2, <2>3, <2>4, <2>5, <3>1
    <2> QED  BY <1>6, <2>1, <2>2, <2>6, CommitGrows DEF Merge, Inv, TypeOK, cloud, rest
  <1>7. ASSUME NEW s \in Shas, NEW c \in Candidates, MainMoves(s, c)
        PROVE  TypeOK' /\ GitInv'
    <2>1. Commit(s, c) /\ UNCHANGED pr /\ main' = s
      BY <1>7 DEF MainMoves
    <2>2. GitInv'
      BY <1>2, <2>1
    <2> QED  BY <1>7, <2>1, <2>2, CommitGrows DEF MainMoves, Inv, TypeOK, cloud, rest
  <1>8. ASSUME NEW i \in Issues, CloseIssue(i) PROVE TypeOK' /\ GitInv'
    <2>1. UNCHANGED <<candidateAt, main, pr, evidence, state, locked, live, late, run>>
      BY <1>8 DEF CloseIssue, github, cloud
    <2>2. issues' \in [Issues -> DriftIssues \cup {None}] /\ events' \in 0..MaxEvents
      BY <1>8, BoundsOK DEF CloseIssue, Inv, TypeOK
    <2> QED  BY <2>1, <2>2 DEF Inv, TypeOK, GitInv
  <1>9. ASSUME NEW p \in late, LateIssue(p) PROVE TypeOK' /\ GitInv'
    <2>1. UNCHANGED <<candidateAt, main, pr, evidence, state, locked, live, events, run>>
      BY <1>9 DEF LateIssue, github, cloud
    <2>2. late' \subseteq Posts
      BY <1>9 DEF LateIssue, Inv, TypeOK
    <2>3. p.fingerprint \in Fingerprints
      BY DEF Inv, TypeOK, Posts
    <2>4. issues' \in [Issues -> DriftIssues \cup {None}]
      BY <1>9, <2>3, OpenIssueType DEF LateIssue, Inv
    <2> QED  BY <2>1, <2>2, <2>4 DEF Inv, TypeOK, GitInv
  <1> QED  BY <1>4, <1>5, <1>6, <1>7, <1>8, <1>9, CommitGrows
           DEF Repository, Open, PushHead, MainMoves, CloseIssue, LateIssue, github, Inv

\* The owner closes issues, and GitHub opens one that is late.
LEMMA RepositoryOpens ==
  ASSUME TypeOK, Repository
  PROVE  NoNewIssue
  <1>1. CASE UNCHANGED issues
    BY <1>1 DEF NoNewIssue
  <1>2. ASSUME NEW i \in Issues, CloseIssue(i) PROVE NoNewIssue
    BY <1>2 DEF CloseIssue, NoNewIssue, OnTime, TypeOK
  <1>3. ASSUME NEW p \in late, LateIssue(p) PROVE NoNewIssue
    <2>1. PICK i \in Issues :
            issues' = [issues EXCEPT ![i] = [fingerprint |-> p.fingerprint, late |-> TRUE]]
      BY <1>3 DEF LateIssue, OpenIssue
    <2> QED  BY <2>1 DEF NoNewIssue, OnTime, TypeOK
  <1> QED  BY <1>1, <1>2, <1>3 DEF Repository, Open, PushHead, Merge, MainMoves, rest

\* Changes by hand write the state as Terraform does, or only the resources.
LEMMA ByHandStores ==
  ASSUME Inv, ByHand
  PROVE  TypeOK' /\ GitInv' /\ Grows
         /\ UNCHANGED <<evidence, issues, run, candidateAt, pr>>
  <1>1. /\ state \in States /\ state.version \in Nat /\ state.resources \in Resources
        /\ live \in Resources /\ events \in 0..MaxEvents /\ MaxVersion \in Nat /\ MaxEvents \in Nat
    BY BoundsOK DEF Inv, TypeOK, States
  <1>2. ASSUME NEW a \in Editable, NEW v \in {Changed, None}, ChangeLive(a, v)
        PROVE  TypeOK' /\ GitInv' /\ Grows /\ UNCHANGED <<evidence, issues, run, candidateAt, pr>>
    <2>1. UNCHANGED <<candidateAt, main, pr, evidence, state, locked, issues, late, run>>
      BY <1>2 DEF ChangeLive, github
    <2>2. live' \in Resources
      BY <1>1, <1>2, EditableOK DEF ChangeLive, Resources
    <2>3. events' \in 0..MaxEvents
      BY <1>1, <1>2 DEF ChangeLive
    <2> QED  BY <1>1, <2>1, <2>2, <2>3 DEF Inv, TypeOK, GitInv, Grows
  <1>3. ASSUME NEW a \in Editable, NEW v \in {live[a], None}, ChangeState(a, v)
        PROVE  TypeOK' /\ GitInv' /\ Grows /\ UNCHANGED <<evidence, issues, run, candidateAt, pr>>
    <2>1. UNCHANGED <<candidateAt, main, pr, evidence, live, locked, issues, late, run>>
      BY <1>3 DEF ChangeState, github
    <2>2. events' \in 0..MaxEvents
      BY <1>1, <1>3 DEF ChangeState
    <2> DEFINE x == [state.resources EXCEPT ![a] = v]
    <2>3. x \in Resources
      BY <1>1, EditableOK DEF Resources
    <2>4. state' = [version |-> state.version + 1, resources |-> x] /\ state.version + 1 \in 1..MaxVersion
      BY <1>1, <1>3 DEF ChangeState
    <2> HIDE DEF x
    <2>5. state' \in States /\ state'.version = state.version + 1
      BY <2>3, <2>4 DEF States
    <2>6. Grows
      BY <1>1, <2>1, <2>5 DEF Grows
    <2> QED  BY <2>1, <2>2, <2>5, <2>6 DEF Inv, TypeOK, GitInv
  <1>4. ASSUME ForceUnlock
        PROVE  TypeOK' /\ GitInv' /\ Grows /\ UNCHANGED <<evidence, issues, run, candidateAt, pr>>
    <2>1. UNCHANGED <<candidateAt, main, pr, evidence, state, live, issues, late, events, run>> /\ locked' = FALSE
      BY <1>4 DEF ForceUnlock, github, rest
    <2>2. TypeOK'
      BY <2>1 DEF Inv, TypeOK
    <2>3. GitInv' /\ Grows
      BY <1>1, <2>1 DEF Inv, GitInv, Grows
    <2> QED  BY <2>1, <2>2, <2>3
  <1> QED  BY <1>2, <1>3, <1>4 DEF ByHand

----------------------------------------------------------------------------
(* The inductive invariant, and what follows.                              *)

LEMMA InitInv == Init => Inv
  <1> SUFFICES ASSUME Init PROVE Inv
    OBVIOUS
  <1>1. PICK s \in Shas, c \in Candidates :
          /\ candidateAt = [x \in Shas |-> IF x = s THEN c ELSE None]
          /\ main = s
          /\ state = [version |-> 1, resources |-> Config(c)]
    BY DEF Init
  <1>2. state \in States /\ live \in Resources
    BY <1>1, ConfigType, BoundsOK DEF Init, States
  <1>3. /\ candidateAt \in [Shas -> Candidates \cup {None}] /\ main \in Shas
        /\ candidateAt[main] # None
    BY <1>1, NoneIsNothing
  <1>4. pr \in [PullRequests -> PrStates] /\ \A p \in PullRequests : pr[p].status = "none"
    BY DEF Init, PrStates
  <1>5. run \in [Runs -> RunStates] /\ \A r \in Runs : run[r] = NewRun
    BY NewRunType DEF Init
  <1>6. TypeOK
    <2>1. events \in 0..MaxEvents
      BY BoundsOK DEF Init
    <2>2. /\ evidence \in [Keys -> Effects \cup {None}]
          /\ issues \in [Issues -> DriftIssues \cup {None}] /\ late \subseteq Posts
      BY DEF Init
    <2>3. locked \in BOOLEAN
      BY DEF Init
    <2> QED  BY <1>2, <1>3, <1>4, <1>5, <2>1, <2>2, <2>3 DEF TypeOK
  <1>7. GitInv /\ EvidenceInv
    BY <1>3, <1>4 DEF Init, GitInv, EvidenceInv
  <1>8. "idle" \notin Active /\ "idle" \notin BoundStages
    BY DEF Active, Jobs, BoundStages
  <1>9. OneActive
    BY <1>5, <1>8, NewRunType DEF OneActive
  <1>10. Named(NewRun)
    BY <1>8, NewRunType DEF Named
  <1>11. RunOK(NewRun)
    BY <1>8, <1>10, NewRunType DEF RunOK, Known, BoundOK, PlannedOK, ApplyingOK, ListedOK
  <1> QED  BY <1>5, <1>6, <1>7, <1>9, <1>11 DEF Inv

\* Where no run moves, every run is in order still.
LEMMA NoRunMoves ==
  ASSUME Inv, TypeOK', GitInv', Grows, NoNewIssue, UNCHANGED <<run, evidence>>
  PROVE  Inv'
  <1>1. ASSUME NEW r \in Runs PROVE RunOK(run[r])'
    BY Carried DEF Inv, TypeOK
  <1>2. OneActive' /\ EvidenceInv'
    BY DEF Inv, OneActive, EvidenceInv
  <1> QED  BY <1>1, <1>2 DEF Inv

LEMMA StepInv == Inv /\ [Next]_vars => Inv'
  <1> SUFFICES ASSUME Inv, [Next]_vars PROVE Inv'
    OBVIOUS
  <1>0. state \in States /\ state.version \in Nat
    BY BoundsOK DEF Inv, TypeOK, States
  <1>1. CASE Repository
    <2>1. UNCHANGED <<state, evidence, run>>
      BY <1>1 DEF Repository, Open, PushHead, Merge, MainMoves, CloseIssue, LateIssue, cloud
    <2>2. NoNewIssue
      BY <1>1, RepositoryOpens DEF Inv
    <2>3. Grows
      BY <1>0, <1>1, <2>1, RepositoryStores DEF Grows
    <2> QED  BY <1>1, <2>1, <2>2, <2>3, RepositoryStores, NoRunMoves
  <1>2. CASE ByHand
    BY <1>2, ByHandStores, NoRunMoves DEF NoNewIssue
  <1>3. ASSUME NEW r \in Runs, Workflow(r) PROVE Inv'
    BY <1>3, WorkflowInv
  <1>4. CASE UNCHANGED vars
    <2>1. /\ TypeOK' /\ GitInv'
      BY <1>4 DEF vars, Inv, TypeOK, GitInv
    <2>2. Grows /\ NoNewIssue
      BY <1>0, <1>4 DEF vars, Grows, NoNewIssue
    <2> QED  BY <1>4, <2>1, <2>2, NoRunMoves DEF vars
  <1> QED  BY <1>1, <1>2, <1>3, <1>4 DEF Next

THEOREM Invariance == Spec => []Inv
  BY InitInv, StepInv, PTL DEF Spec

\* Every variable keeps its type.
THEOREM TypeCorrect == Spec => []TypeOK
  <1>1. Inv => TypeOK
    BY DEF Inv
  <1> QED  BY <1>1, Invariance, PTL

\* Of the open issues with one fingerprint at most one was stored on time: the
\* run that opens one is the only active one, and found none that has it;
\* only what a failed run had posted may be stored since.
THEOREM OneOpenIssue == Spec => []OneIssue
  <1>1. Init => OneIssue
    BY DEF Init, OneIssue, OnTime
  <1>2. Inv /\ OneIssue /\ [Next]_vars => OneIssue'
    <2> SUFFICES ASSUME Inv, OneIssue, [Next]_vars PROVE OneIssue'
      OBVIOUS
    <2>1. issues \in [Issues -> DriftIssues \cup {None}]
      BY DEF Inv, TypeOK
    <2>2. ASSUME NoNewIssue PROVE OneIssue'
      BY <2>2 DEF NoNewIssue, OneIssue, OnTime
    <2>3. ASSUME NEW r \in Runs, Report(r) PROVE OneIssue'
      <3>1. run[r].stage = "listed" /\ RunOK(run[r])
        BY <2>3 DEF Report, Inv
      <3>2. CASE run[r].match # None
        BY <2>3, <3>2 DEF Report, OneIssue, OnTime
      <3>3. CASE run[r].match = None
        <4> DEFINE new == [fingerprint |-> run[r].found, late |-> FALSE]
        <4>1. PICK i \in Issues : issues' = [issues EXCEPT ![i] = new]
          BY <2>3, <3>3 DEF Report, OpenIssue
        <4>2. \A j \in Issues : OnTime(issues[j]) => issues[j].fingerprint # run[r].found
          BY <3>1, <3>3 DEF RunOK, ListedOK
        <4>3. \A j \in Issues : issues'[j] = IF j = i THEN new ELSE issues[j]
          BY <2>1, <4>1
        <4>4. new.fingerprint = run[r].found
          OBVIOUS
        <4> HIDE DEF new
        <4> QED  BY <4>2, <4>3, <4>4 DEF OneIssue, OnTime
      <3> QED  BY <3>2, <3>3
    <2>4. ASSUME NEW r \in Runs, Workflow(r), ~Report(r) PROVE NoNewIssue
      <3>1. UNCHANGED issues
        BY <2>4 DEF Workflow, Apply, Trigger, Start, Select, Rerun, BindPlan, BindApply, BindDrift,
           ReadMetadata, PullState, Plan, Recheck, Upload, BeginApply, EndApply, LoseApply, NoChange,
           Manifest, ListIssues, ReportLate, Fail, LosePlan, rest
      <3> QED  BY <3>1 DEF NoNewIssue
    <2>5. ASSUME Repository PROVE NoNewIssue
      BY <2>5, RepositoryOpens DEF Inv
    <2>6. ASSUME ByHand PROVE NoNewIssue
      BY <2>6, ByHandStores DEF NoNewIssue
    <2>7. ASSUME UNCHANGED vars PROVE NoNewIssue
      BY <2>7 DEF vars, NoNewIssue
    <2>8. NoNewIssue => OneIssue'
      BY <2>2
    <2> QED  BY <2>3, <2>4, <2>5, <2>6, <2>7, <2>8 DEF Next
  <1> QED  BY <1>1, <1>2, Invariance, PTL DEF Spec

\* What is said of a step of run r that changes resources.
Reviews(r) ==
    LET p == pr[run[r].pr]
        e == evidence[Key(r)]
    IN /\ p.status = "merged" /\ p.head = run[r].head
       /\ e # None
       /\ e.base = p.base
       /\ e.generation = run[r].generation /\ e.pulled = run[r].pulled
       /\ e.generation = e.pulled.version
       /\ \A a \in Addresses : live'[a] # live[a] =>
              /\ live[a] = None
              /\ a \in e.creates
              /\ live'[a] = Config(candidateAt[p.merge])[a]
              /\ e.pulled.resources[a] = None

\* An apply does what was reviewed of the state that was reviewed.
LEMMA ApplyReviews ==
  ASSUME Inv, NEW r \in Runs, run[r].stage = "applying", NEW done \in SUBSET Addresses,
         Succeeds(run[r].plan, done), live' = Changes(run[r].plan, done, live)
  PROVE  Reviews(r)
  <1> DEFINE o == run[r]
             p == pr[o.pr]
             e == evidence[Key(r)]
  <1>1. o \in RunStates /\ RunOK(o) /\ "applying" \in BoundStages
    BY DEF Inv, TypeOK, BoundStages
  <1>2. o.kind = "apply" /\ Material(o.plan) /\ EffectOf(o) = o.reviewed
    BY <1>1 DEF RunOK, ApplyingOK
  <1>3. /\ p.status = "merged" /\ p.merge = o.main /\ p.head = o.head /\ p.base = o.base
        /\ o.candidate = candidateAt[o.main]
        /\ o.reviewed # None /\ e = o.reviewed
    BY <1>1, <1>2 DEF RunOK, BoundOK, Key
  <1>4. Key(r) \in Keys
    BY <1>1, <1>2, KeyType DEF Key
  <1>5. e = EffectOf(o)
    BY <1>2, <1>3
  <1>6. /\ e.base = o.base /\ e.generation = o.generation /\ e.pulled = o.pulled
        /\ e.creates = Creates(o.plan)
    BY <1>5 DEF EffectOf
  <1>7. /\ e.generation = e.pulled.version
        /\ \A a \in e.creates : e.pulled.resources[a] = None
    BY <1>3, <1>4 DEF Inv, EvidenceInv
  <1>8. o.plan.target = Config(o.candidate)
    BY <1>1 DEF RunOK, PlannedOK
  <1>9. ASSUME NEW a \in Addresses, live'[a] # live[a]
        PROVE  /\ live[a] = None /\ a \in e.creates
               /\ live'[a] = Config(candidateAt[p.merge])[a]
               /\ e.pulled.resources[a] = None
    <2>1. a \in done /\ live'[a] = o.plan.target[a]
      BY <1>9 DEF Changes
    <2>2. a \in Creates(o.plan) /\ live[a] = None
      BY <1>2, <1>9, <2>1 DEF Succeeds, Material
    <2> QED  BY <1>3, <1>6, <1>7, <1>8, <2>1, <2>2
  <1> HIDE DEF e, p, o
  <1>10. /\ p.status = "merged" /\ p.head = o.head /\ e # None /\ e.base = p.base
         /\ e.generation = o.generation /\ e.pulled = o.pulled
    BY <1>3, <1>6
  <1> QED  BY <1>7, <1>9, <1>10 DEF Reviews, e, p, o

\* A step of a run that changes a resource does what was reviewed.
THEOREM AppliesReviewed == Spec => AppliesTheReviewed
  <1>1. ASSUME Inv, [Next]_vars
        PROVE  [\A r \in Runs : run'[r] # run[r] /\ live' # live =>
                  LET p == pr[run[r].pr]
                      e == evidence[Key(r)]
                  IN /\ p.status = "merged" /\ p.head = run[r].head
                     /\ e # None
                     /\ e.base = p.base
                     /\ e.generation = run[r].generation /\ e.pulled = run[r].pulled
                     /\ e.generation = e.pulled.version
                     /\ \A a \in Addresses : live'[a] # live[a] =>
                            /\ live[a] = None
                            /\ a \in e.creates
                            /\ live'[a] = Config(candidateAt[p.merge])[a]
                            /\ e.pulled.resources[a] = None]_vars
    <2> SUFFICES ASSUME NEW r \in Runs, run'[r] # run[r], live' # live PROVE Reviews(r)
      BY DEF Reviews
    <2>1. ~Repository /\ ~ByHand /\ ~(UNCHANGED vars)
      <3>1. Repository => live' = live
        BY DEF Repository, Open, PushHead, Merge, MainMoves, CloseIssue, LateIssue, cloud
      <3>2. ByHand => run' = run
        BY ByHandStores, <1>1
      <3> QED  BY <3>1, <3>2 DEF vars
    <2>2. PICK q \in Runs : Workflow(q)
      BY <1>1, <2>1 DEF Next
    <2>3. q = r
      <3>1. \E s \in RunStates : run' = [run EXCEPT ![q] = s]
        BY <1>1, <2>2, WorkflowOn DEF GoesOn, Moves
      <3> QED  BY <1>1, <3>1 DEF Inv, TypeOK
    <2>4. PICK done \in SUBSET Addresses :
            /\ run[r].stage = "applying" /\ Succeeds(run[r].plan, done)
            /\ live' = Changes(run[r].plan, done, live)
      BY <2>2, <2>3 DEF Workflow, Apply, Trigger, Start, Select, Rerun, BindPlan, BindApply, BindDrift,
         ReadMetadata, PullState, Plan, Recheck, Upload, BeginApply, EndApply, LoseApply, NoChange,
         Manifest, ListIssues, Report, ReportLate, Fail, LosePlan, cloud
    <2> QED  BY <1>1, <2>4, ApplyReviews
  <1> QED  BY <1>1, Invariance, PTL DEF Spec, AppliesTheReviewed

=============================================================================
