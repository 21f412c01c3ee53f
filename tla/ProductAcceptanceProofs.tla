------------------------ MODULE ProductAcceptanceProofs ------------------------
(***************************************************************************)
(* The deployment, verification and acceptance of the product, for any     *)
(* number of releases, authorities and runs.                               *)
(*                                                                         *)
(* As long as the owner deletes nothing, the services that exist are a     *)
(* prefix of the three and of one run: a run creates a service, now or     *)
(* when its request takes effect at last, only with all the earlier ones   *)
(* its own (ServicesOK).  A service that is ready stays ready and of its   *)
(* release, so what a reader has seen of the earlier services still holds  *)
(* when it has come to the last (VerifyInv, AcceptInv).                    *)
(***************************************************************************)
EXTENDS ProductAcceptance, TLAPS

-----------------------------------------------------------------------------
(* Fields of the runs.                                                      *)

SetAuthority(r, x, a) == deploy' = [deploy EXCEPT ![r].stage = x, ![r].authority = a]
SetConsumption(r, x) == deploy' = [deploy EXCEPT ![r].stage = x, ![r].consumption = TRUE]
SetAt(r, x, s) == deploy' = [deploy EXCEPT ![r].stage = x, ![r].at = s]

\* What an assignment to fields of a deployment run leaves of the others.
LEMMA DeployStage ==
  ASSUME deploy \in [DeployRuns -> DeployStates], NEW r \in DeployRuns, NEW x \in DeployStages,
         deploy' = [deploy EXCEPT ![r].stage = x]
  PROVE  /\ deploy' \in [DeployRuns -> DeployStates]
         /\ \A q \in DeployRuns :
                /\ deploy'[q].authority = deploy[q].authority
                /\ deploy'[q].consumption = deploy[q].consumption
                /\ deploy'[q].at = deploy[q].at
                /\ deploy'[q].stage = IF q = r THEN x ELSE deploy[q].stage
  <1> DEFINE new == [deploy[r] EXCEPT !.stage = x]
  <1>1. deploy' = [deploy EXCEPT ![r] = new]
    OBVIOUS
  <1>2. /\ new \in DeployStates
        /\ new.authority = deploy[r].authority
        /\ new.consumption = deploy[r].consumption
        /\ new.at = deploy[r].at
        /\ new.stage = x
    BY DEF DeployStates
  <1> HIDE DEF new
  <1>3. ASSUME NEW q \in DeployRuns PROVE deploy'[q] = IF q = r THEN new ELSE deploy[q]
    BY <1>1
  <1>4. deploy' \in [DeployRuns -> DeployStates]
    BY <1>1, <1>2
  <1> QED  BY <1>2, <1>3, <1>4

LEMMA DeployAuthority ==
  ASSUME deploy \in [DeployRuns -> DeployStates], NEW r \in DeployRuns, NEW x \in DeployStages,
         NEW a \in Authorities,
         SetAuthority(r, x, a)
  PROVE  /\ deploy' \in [DeployRuns -> DeployStates]
         /\ \A q \in DeployRuns :
                /\ deploy'[q].authority = IF q = r THEN a ELSE deploy[q].authority
                /\ deploy'[q].consumption = deploy[q].consumption
                /\ deploy'[q].at = deploy[q].at
                /\ deploy'[q].stage = IF q = r THEN x ELSE deploy[q].stage
  <1> DEFINE new == [deploy[r] EXCEPT !.stage = x, !.authority = a]
  <1>1. deploy' = [deploy EXCEPT ![r] = new]
    BY DEF SetAuthority
  <1>2. /\ new \in DeployStates
        /\ new.authority = a
        /\ new.consumption = deploy[r].consumption
        /\ new.at = deploy[r].at
        /\ new.stage = x
    BY DEF DeployStates
  <1> HIDE DEF new
  <1>3. ASSUME NEW q \in DeployRuns PROVE deploy'[q] = IF q = r THEN new ELSE deploy[q]
    BY <1>1
  <1>4. deploy' \in [DeployRuns -> DeployStates]
    BY <1>1, <1>2
  <1> QED  BY <1>2, <1>3, <1>4

LEMMA DeployConsumption ==
  ASSUME deploy \in [DeployRuns -> DeployStates], NEW r \in DeployRuns, NEW x \in DeployStages,
         SetConsumption(r, x)
  PROVE  /\ deploy' \in [DeployRuns -> DeployStates]
         /\ \A q \in DeployRuns :
                /\ deploy'[q].authority = deploy[q].authority
                /\ deploy'[q].consumption <=> (q = r \/ deploy[q].consumption)
                /\ deploy'[q].at = deploy[q].at
                /\ deploy'[q].stage = IF q = r THEN x ELSE deploy[q].stage
  <1> DEFINE new == [deploy[r] EXCEPT !.stage = x, !.consumption = TRUE]
  <1>1. deploy' = [deploy EXCEPT ![r] = new]
    BY DEF SetConsumption
  <1>2. /\ new \in DeployStates
        /\ new.authority = deploy[r].authority
        /\ new.consumption
        /\ new.at = deploy[r].at
        /\ new.stage = x
    BY DEF DeployStates
  <1> HIDE DEF new
  <1>3. ASSUME NEW q \in DeployRuns PROVE deploy'[q] = IF q = r THEN new ELSE deploy[q]
    BY <1>1
  <1>4. deploy' \in [DeployRuns -> DeployStates]
    BY <1>1, <1>2
  <1> QED  BY <1>2, <1>3, <1>4

LEMMA DeployAt ==
  ASSUME deploy \in [DeployRuns -> DeployStates], NEW r \in DeployRuns, NEW x \in DeployStages,
         NEW s \in Services,
         SetAt(r, x, s)
  PROVE  /\ deploy' \in [DeployRuns -> DeployStates]
         /\ \A q \in DeployRuns :
                /\ deploy'[q].authority = deploy[q].authority
                /\ deploy'[q].consumption = deploy[q].consumption
                /\ deploy'[q].at = IF q = r THEN s ELSE deploy[q].at
                /\ deploy'[q].stage = IF q = r THEN x ELSE deploy[q].stage
  <1> DEFINE new == [deploy[r] EXCEPT !.stage = x, !.at = s]
  <1>1. deploy' = [deploy EXCEPT ![r] = new]
    BY DEF SetAt
  <1>2. /\ new \in DeployStates
        /\ new.authority = deploy[r].authority
        /\ new.consumption = deploy[r].consumption
        /\ new.at = s
        /\ new.stage = x
    BY DEF DeployStates
  <1> HIDE DEF new
  <1>3. ASSUME NEW q \in DeployRuns PROVE deploy'[q] = IF q = r THEN new ELSE deploy[q]
    BY <1>1
  <1>4. deploy' \in [DeployRuns -> DeployStates]
    BY <1>1, <1>2
  <1> QED  BY <1>2, <1>3, <1>4


\* The same for verification and acceptance runs, whose states have one form.
SetRelease(f, g, v, x, l) == g = [f EXCEPT ![v].stage = x, ![v].release = l]
SetPlace(f, g, v, x, s) == g = [f EXCEPT ![v].stage = x, ![v].at = s]

ReaderStates(stages) == [stage : stages, release : Releases \cup {None}, at : Services]

LEMMA ReaderStage ==
  ASSUME NEW R, NEW stages, NEW f \in [R -> ReaderStates(stages)], NEW v \in R, NEW x \in stages,
         NEW g, g = [f EXCEPT ![v].stage = x]
  PROVE  /\ g \in [R -> ReaderStates(stages)]
         /\ \A w \in R :
                /\ g[w].release = f[w].release
                /\ g[w].at = f[w].at
                /\ g[w].stage = IF w = v THEN x ELSE f[w].stage
  <1> DEFINE new == [f[v] EXCEPT !.stage = x]
  <1>1. g = [f EXCEPT ![v] = new]
    OBVIOUS
  <1>2. /\ new \in ReaderStates(stages)
        /\ new.release = f[v].release
        /\ new.at = f[v].at
        /\ new.stage = x
    BY DEF ReaderStates
  <1> HIDE DEF new
  <1>3. ASSUME NEW w \in R PROVE g[w] = IF w = v THEN new ELSE f[w]
    BY <1>1
  <1>4. g \in [R -> ReaderStates(stages)]
    BY <1>1, <1>2
  <1> QED  BY <1>2, <1>3, <1>4

LEMMA ReaderRelease ==
  ASSUME NEW R, NEW stages, NEW f \in [R -> ReaderStates(stages)], NEW v \in R, NEW x \in stages,
         NEW l \in Releases, NEW g, SetRelease(f, g, v, x, l)
  PROVE  /\ g \in [R -> ReaderStates(stages)]
         /\ \A w \in R :
                /\ g[w].release = IF w = v THEN l ELSE f[w].release
                /\ g[w].at = f[w].at
                /\ g[w].stage = IF w = v THEN x ELSE f[w].stage
  <1> DEFINE new == [f[v] EXCEPT !.stage = x, !.release = l]
  <1>1. g = [f EXCEPT ![v] = new]
    BY DEF SetRelease
  <1>2. /\ new \in ReaderStates(stages)
        /\ new.release = l
        /\ new.at = f[v].at
        /\ new.stage = x
    BY DEF ReaderStates
  <1> HIDE DEF new
  <1>3. ASSUME NEW w \in R PROVE g[w] = IF w = v THEN new ELSE f[w]
    BY <1>1
  <1>4. g \in [R -> ReaderStates(stages)]
    BY <1>1, <1>2
  <1> QED  BY <1>2, <1>3, <1>4

LEMMA ReaderAt ==
  ASSUME NEW R, NEW stages, NEW f \in [R -> ReaderStates(stages)], NEW v \in R, NEW x \in stages,
         NEW s \in Services, NEW g, SetPlace(f, g, v, x, s)
  PROVE  /\ g \in [R -> ReaderStates(stages)]
         /\ \A w \in R :
                /\ g[w].release = f[w].release
                /\ g[w].at = IF w = v THEN s ELSE f[w].at
                /\ g[w].stage = IF w = v THEN x ELSE f[w].stage
  <1> DEFINE new == [f[v] EXCEPT !.stage = x, !.at = s]
  <1>1. g = [f EXCEPT ![v] = new]
    BY DEF SetPlace
  <1>2. /\ new \in ReaderStates(stages)
        /\ new.release = f[v].release
        /\ new.at = s
        /\ new.stage = x
    BY DEF ReaderStates
  <1> HIDE DEF new
  <1>3. ASSUME NEW w \in R PROVE g[w] = IF w = v THEN new ELSE f[w]
    BY <1>1
  <1>4. g \in [R -> ReaderStates(stages)]
    BY <1>1, <1>2
  <1> QED  BY <1>2, <1>3, <1>4

-----------------------------------------------------------------------------
(* The inductive invariant.                                                 *)

\* A run that has started has its authority, a consumption it holds is on the
\* issue, and its requests are on their way only when it has failed.
AuthorityOK ==
    /\ \A r \in DeployRuns :
           /\ deploy[r].stage # "new" => deploy[r].authority \in Authorities
           /\ deploy[r].stage = "new" => ~ deploy[r].consumption
           /\ deploy[r].consumption => r \in consumed
    /\ \A r \in DeployRuns, s \in Services : <<r, s>> \in flying => deploy[r].stage = "failed"

OneActive == \A r, q \in DeployRuns : Active(r) /\ Active(q) => r = q

\* Nobody is under way with an authority that another run has spent.
SpentOK ==
    \A r, q \in DeployRuns :
        Active(r) /\ deploy[q].consumption /\ deploy[r].authority = deploy[q].authority => r = q

ControlInv == AuthorityOK /\ OneActive /\ SpentOK /\ AuthorityIsSpentOnce

LEMMA InitControl == AcceptInit => ControlInv
  BY DEF AcceptInit, Init, ControlInv, AuthorityOK, OneActive, SpentOK, AuthorityIsSpentOnce, Active

\* A run whose stage alone changes keeps all this.
LEMMA ControlStage ==
  ASSUME DeployTypeOK, ControlInv, NEW r \in DeployRuns, Active(r), consumed \subseteq consumed',
         NEW x \in DeployStages \ {"new"}, NEW s \in Services,
         \/ deploy' = [deploy EXCEPT ![r].stage = x]
         \/ SetAt(r, x, s),
         flying' \subseteq flying \/ (x = "failed" /\ flying' \subseteq flying \cup ({r} \X Services))
  PROVE  ControlInv'
  <1>1. \A q \in DeployRuns :
            /\ deploy'[q].authority = deploy[q].authority
            /\ deploy'[q].consumption = deploy[q].consumption
            /\ deploy'[q].stage = IF q = r THEN x ELSE deploy[q].stage
    BY DeployStage, DeployAt DEF DeployTypeOK
  <1>2. \A q \in DeployRuns : Active(q)' => Active(q)
    BY <1>1 DEF Active
  <1>3. deploy[r].stage # "failed" /\ deploy[r].stage # "new"
    BY DEF Active
  <1>4. AuthorityOK'
    BY <1>1, <1>3 DEF AuthorityOK, ControlInv
  <1> QED
    BY <1>1, <1>2, <1>4 DEF ControlInv, OneActive, SpentOK, AuthorityIsSpentOnce

\* The loop goes on to another stage of some service.
LEMMA ProceedIsStep ==
  ASSUME DeployTypeOK, NEW r \in DeployRuns, NEW x \in DeployStages, NEW y \in DeployStages,
         Proceed(r, x, y)
  PROVE  LET s == deploy[r].at
             z == IF s = 3 THEN y ELSE x
             t == IF s = 3 THEN 1 ELSE s + 1
         IN  /\ z \in {x, y} /\ t \in Services
             /\ SetAt(r, z, t)
  <1>1. deploy[r].at \in 1..3
    BY DEF DeployTypeOK, DeployStates, Services
  <1> QED  BY <1>1 DEF Proceed, Last, Api, Services, SetAt

LEMMA StepControl ==
  ASSUME DeployTypeOK, ControlInv, Next
  PROVE  ControlInv'
  <1>1. CASE UNCHANGED <<deploy, consumed>> /\ flying' \subseteq flying
    BY <1>1 DEF ControlInv, AuthorityOK, OneActive, SpentOK, AuthorityIsSpentOnce, Active
  <1>2. ASSUME NEW r \in DeployRuns, Deploy(r) PROVE ControlInv'
    <2> DEFINE o == deploy[r]
    <2>0. o \in DeployStates /\ o.at \in Services
      BY DEF DeployTypeOK, DeployStates
    <2>1. ASSUME NEW a \in Authorities, Start(r, a) PROVE ControlInv'
      <3>1. \A q \in DeployRuns :
                /\ deploy'[q].authority = IF q = r THEN a ELSE deploy[q].authority
                /\ deploy'[q].consumption = deploy[q].consumption
                /\ deploy'[q].stage = IF q = r THEN "available" ELSE deploy[q].stage
        <4>1. SetAuthority(r, "available", a)
          BY <2>1 DEF Start, SetAuthority
        <4>2. deploy \in [DeployRuns -> DeployStates] /\ "available" \in DeployStages
          BY DEF DeployTypeOK, DeployStages
        <4> QED  BY <4>1, <4>2, DeployAuthority
      <3>2. /\ consumed' = consumed /\ flying' = flying
            /\ o.stage = "new" /\ ~ o.consumption
        BY <2>1 DEF Start, comments, provider, At, ControlInv, AuthorityOK
      <3>3. \A q \in DeployRuns : Active(q)' => q = r
        BY <2>1, <3>1 DEF Start, GroupFree, Active
      <3>4. \A q \in DeployRuns : deploy[q].consumption => q # r /\ deploy[q].authority # a
        BY <2>1, <3>2 DEF Start, Available, ControlInv, AuthorityOK
      <3>5. AuthorityOK'
        BY <3>1, <3>2 DEF ControlInv, AuthorityOK
      <3>6. OneActive'
        BY <3>3 DEF OneActive
      <3>7. SpentOK'
        BY <3>1, <3>3, <3>4 DEF SpentOK
      <3>8. AuthorityIsSpentOnce'
        BY <3>1, <3>4 DEF AuthorityIsSpentOnce, ControlInv
      <3> QED  BY <3>5, <3>6, <3>7, <3>8 DEF ControlInv
    <2>2. CASE Post(r)
      BY <2>2, <2>0, ControlStage
      DEF Post, At, To, Active, DeployStages, provider, comments
    <2>3. CASE StoreLate(r)
      BY <2>3
      DEF StoreLate, provider, ControlInv, AuthorityOK, OneActive, SpentOK, AuthorityIsSpentOnce, Active
    <2>4. CASE VerifyConsumption(r)
      <3>1. \A q \in DeployRuns :
                /\ deploy'[q].authority = deploy[q].authority
                /\ deploy'[q].consumption <=> (q = r \/ deploy[q].consumption)
                /\ deploy'[q].stage = IF q = r THEN "consumed" ELSE deploy[q].stage
        <4>1. SetConsumption(r, "consumed")
          BY <2>4 DEF VerifyConsumption, SetConsumption
        <4>2. deploy \in [DeployRuns -> DeployStates] /\ "consumed" \in DeployStages
          BY DEF DeployTypeOK, DeployStages
        <4> QED  BY <4>1, <4>2, DeployConsumption
      <3>2. /\ consumed' = consumed /\ flying' = flying
            /\ o.stage = "posted" /\ r \in consumed
        BY <2>4 DEF VerifyConsumption, comments, provider, At
      <3>3. Active(r) /\ \A q \in DeployRuns : Active(q)' => Active(q)
        BY <3>1, <3>2 DEF Active
      <3>4. AuthorityOK'
        BY <3>1, <3>2 DEF ControlInv, AuthorityOK
      <3>5. OneActive'
        BY <3>3 DEF OneActive, ControlInv
      <3>6. SpentOK'
        BY <3>1, <3>3 DEF SpentOK, OneActive, ControlInv
      <3>7. AuthorityIsSpentOnce'
        BY <3>1, <3>3 DEF AuthorityIsSpentOnce, SpentOK, ControlInv
      <3> QED  BY <3>4, <3>5, <3>6, <3>7 DEF ControlInv
    <2>5. CASE Rebind(r)
      <3>1. SetAt(r, "absent", 1)
        BY <2>5 DEF Rebind, SetAt
      <3>2. Active(r) /\ consumed' = consumed /\ flying' = flying
        BY <2>5 DEF Rebind, At, Active, provider, comments
      <3>3. "absent" \in DeployStages \ {"new"} /\ 1 \in Services
        BY DEF DeployStages, Services
      <3> QED  BY <3>1, <3>2, <3>3, ControlStage
    <2>6. CASE CheckAbsent(r)
      <3>1. Proceed(r, "absent", "create")
        BY <2>6 DEF CheckAbsent
      <3>2. Active(r) /\ consumed' = consumed /\ flying' = flying
        BY <2>6 DEF CheckAbsent, At, Active, provider, comments
      <3>3. "absent" \in DeployStages \ {"new"} /\ "create" \in DeployStages \ {"new"}
        BY DEF DeployStages
      <3> QED  BY <3>1, <3>2, <3>3, ProceedIsStep, ControlStage
    <2>7. CASE CreateAccepted(r)
      BY <2>7, <2>0, ControlStage
      DEF CreateAccepted, At, To, Active, DeployStages, comments
    <2>8. CASE CreateRefused(r)
      BY <2>8, <2>0, ControlStage
      DEF CreateRefused, At, To, Active, DeployStages, comments, provider
    <2>9. CASE CreateUnanswered(r)
      <3>1. flying' \subseteq flying \cup ({r} \X Services)
        BY <2>9, <2>0 DEF CreateUnanswered
      <3> QED
        BY <2>9, <2>0, <3>1, ControlStage
        DEF CreateUnanswered, At, To, Active, DeployStages, comments
    <2>10. CASE Poll(r)
      BY <2>10, <2>0, ControlStage
      DEF Poll, At, To, Active, DeployStages, comments, provider
    <2>11. CASE ReadBack(r)
      <3>1. Proceed(r, "create", "done")
        BY <2>11 DEF ReadBack
      <3>2. Active(r) /\ consumed' = consumed /\ flying' = flying
        BY <2>11 DEF ReadBack, At, Active, provider, comments
      <3>3. "create" \in DeployStages \ {"new"} /\ "done" \in DeployStages \ {"new"}
        BY DEF DeployStages
      <3> QED  BY <3>1, <3>2, <3>3, ProceedIsStep, ControlStage
    <2>12. CASE Fail(r)
      BY <2>12, <2>0, ControlStage
      DEF Fail, To, DeployStages, provider, comments
    <2> QED
      BY <1>2, <2>1, <2>2, <2>3, <2>4, <2>5, <2>6, <2>7, <2>8, <2>9, <2>10, <2>11, <2>12 DEF Deploy
  <1>3. CASE World
    <2>1. UNCHANGED <<deploy, consumed>> /\ flying' \subseteq flying
      BY <1>3 DEF World, TakesEffect, OperationEnds, DeleteByHand, Grant, RecordD5, EndD5, comments, provider
    <2> QED  BY <1>1, <2>1
  <1>4. ASSUME NEW v \in VerifyRuns, Verify(v) PROVE ControlInv'
    <2>1. UNCHANGED <<deploy, consumed>> /\ flying' \subseteq flying
      BY <1>4
      DEF Verify, StartVerify, ReadService, ReadPolicy, ReadRevision, PostBinding, FailVerify, comments, provider
    <2> QED  BY <1>1, <2>1
  <1>5. CASE UNCHANGED vars
    BY <1>1, <1>5 DEF vars
  <1>6. CASE \E a \in AcceptRuns : Accept(a)
    BY <1>5, <1>6
    DEF Accept, StartAcceptance, ResolveService, ResolvePolicy, ProveAbsent, Submit, PollApi,
        ReadAgain, BeDenied, FailAcceptance
  <1>7. CASE \E m \in Messages : Deliver(m)
    BY <1>5, <1>7 DEF Deliver
  <1> QED
    BY <1>2, <1>3, <1>4, <1>6, <1>7 DEF Next, DeployNext

-----------------------------------------------------------------------------
(* What happens to the services, and types.                                 *)

LEMMA CreateEffect ==
  ASSUME DeployTypeOK, NEW r \in DeployRuns, NEW s \in Services,
         deploy[r].authority \in Authorities, Create(r, s)
  PROVE  /\ service' \in [Services -> ServiceStates \cup {None}]
         /\ service[s] = None
         /\ service'[s] # None /\ service'[s].by = r
         /\ \A t \in Services : t # s => service'[t] = service[t]
  <1> DEFINE new == [release |-> ReleaseOf(r), by |-> r, state |-> "pending"]
  <1>1. service' = [service EXCEPT ![s] = new] /\ service[s] = None
    BY DEF Create, Creatable
  <1>2. ReleaseOf(r) \in Releases
    BY AuthoritiesNameReleases DEF ReleaseOf
  <1>3. new \in ServiceStates
    BY <1>2 DEF ServiceStates
  <1>4. new # None /\ new.by = r
    BY <1>3, NoneIsNoService
  <1> HIDE DEF new
  <1> QED  BY <1>1, <1>3, <1>4 DEF DeployTypeOK

LEMMA EndEffect ==
  ASSUME DeployTypeOK, NEW s \in Services, NEW x \in {"ready", "failed"}, OperationEnds(s, x)
  PROVE  /\ service' \in [Services -> ServiceStates \cup {None}]
         /\ service[s] # None /\ service[s].state = "pending"
         /\ service'[s] # None /\ service'[s].by = service[s].by
         /\ \A t \in Services : t # s => service'[t] = service[t]
  <1> DEFINE new == [service[s] EXCEPT !.state = x]
  <1>1. /\ service' = [service EXCEPT ![s] = new]
        /\ service[s] # None /\ service[s].state = "pending"
    BY DEF OperationEnds
  <1>2. service[s] \in ServiceStates
    BY <1>1 DEF DeployTypeOK
  <1>3. new \in ServiceStates /\ new.by = service[s].by
    BY <1>2 DEF ServiceStates
  <1>4. new # None
    BY <1>3, NoneIsNoService
  <1> HIDE DEF new
  <1> QED  BY <1>1, <1>3, <1>4 DEF DeployTypeOK

\* A step of a deployment run gives its run a state, and perhaps a service.
LEMMA DeployType ==
  ASSUME DeployTypeOK, ControlInv, NEW r \in DeployRuns, Deploy(r)
  PROVE  DeployTypeOK'
  <1> DEFINE typed == deploy' \in [DeployRuns -> DeployStates]
  <1>0. /\ deploy \in [DeployRuns -> DeployStates]
        /\ deploy[r].at \in Services
    BY DEF DeployTypeOK, DeployStates
  <1>1. ASSUME \E x \in DeployStages : To(r, x) PROVE typed
    BY <1>0, <1>1, DeployStage DEF To
  <1>2. CASE \E a \in Authorities : Start(r, a)
    <2>1. PICK a \in Authorities : Start(r, a)
      BY <1>2
    <2>2. SetAuthority(r, "available", a)
      BY <2>1 DEF Start, SetAuthority
    <2> QED
      BY <2>1, <2>2, <1>0, DeployAuthority
      DEF Start, DeployStages, comments, provider, verification, DeployTypeOK
  <1>3. CASE StoreLate(r)
    BY <1>3 DEF StoreLate, provider, verification, DeployTypeOK
  <1>4. CASE VerifyConsumption(r)
    <2>1. SetConsumption(r, "consumed")
      BY <1>4 DEF VerifyConsumption, SetConsumption
    <2> QED
      BY <2>1, <1>4, <1>0, DeployConsumption
      DEF VerifyConsumption, DeployStages, comments, provider, verification, DeployTypeOK
  <1>5. CASE Rebind(r)
    <2>1. SetAt(r, "absent", 1)
      BY <1>5 DEF Rebind, SetAt
    <2>2. "absent" \in DeployStages /\ 1 \in Services
      BY DEF DeployStages, Services
    <2>3. typed
      BY <2>1, <2>2, <1>0, DeployAt
    <2> QED
      BY <2>3, <1>5 DEF Rebind, comments, provider, verification, DeployTypeOK
  <1>6. CASE \/ CheckAbsent(r)
             \/ ReadBack(r)
    <2>1. \E x, y \in DeployStages : Proceed(r, x, y)
      BY <1>6 DEF CheckAbsent, ReadBack, DeployStages
    <2>2. PICK x \in DeployStages, t \in Services : SetAt(r, x, t)
      BY <2>1, ProceedIsStep
    <2>3. typed
      BY <2>2, <1>0, DeployAt
    <2> QED
      BY <2>3, <1>6 DEF CheckAbsent, ReadBack, comments, provider, verification, DeployTypeOK
  <1>7. CASE Post(r)
    <2>1. typed
      BY <1>7, <1>1 DEF Post, DeployStages
    <2> QED
      BY <2>1, <1>7 DEF Post, comments, provider, verification, DeployTypeOK
  <1>8. CASE CreateAccepted(r)
    <2>1. typed
      BY <1>8, <1>1 DEF CreateAccepted, DeployStages
    <2>2. deploy[r].authority \in Authorities
      BY <1>8 DEF CreateAccepted, At, ControlInv, AuthorityOK
    <2>3. service' \in [Services -> ServiceStates \cup {None}]
      BY <1>8, <1>0, <2>2, CreateEffect DEF CreateAccepted
    <2> QED
      BY <2>1, <2>3, <1>8 DEF CreateAccepted, comments, verification, DeployTypeOK
  <1>9. CASE CreateUnanswered(r)
    <2>1. typed
      BY <1>9, <1>1 DEF CreateUnanswered, DeployStages
    <2>2. flying' \subseteq DeployRuns \X Services
      BY <1>9, <1>0 DEF CreateUnanswered, DeployTypeOK
    <2> QED
      BY <2>1, <2>2, <1>9 DEF CreateUnanswered, comments, verification, DeployTypeOK
  <1>10. CASE CreateRefused(r) \/ Poll(r) \/ Fail(r)
    <2>1. typed
      BY <1>10, <1>1 DEF CreateRefused, Poll, Fail, DeployStages
    <2> QED
      BY <2>1, <1>10 DEF CreateRefused, Poll, Fail, comments, provider, verification, DeployTypeOK
  <1> QED
    BY <1>2, <1>3, <1>4, <1>5, <1>6, <1>7, <1>8, <1>9, <1>10 DEF Deploy

\* The owner and the provider keep the types of what they touch.
LEMMA WorldType ==
  ASSUME DeployTypeOK, ControlInv, World
  PROVE  DeployTypeOK'
  <1>1. ASSUME NEW r \in DeployRuns, NEW s \in Services, TakesEffect(r, s) PROVE DeployTypeOK'
    <2>1. Create(r, s) /\ deploy[r].authority \in Authorities
      BY <1>1 DEF TakesEffect, ControlInv, AuthorityOK
    <2>2. service' \in [Services -> ServiceStates \cup {None}]
      BY <2>1, CreateEffect
    <2> QED  BY <1>1, <2>2 DEF TakesEffect, DeployTypeOK, comments, verification
  <1>2. ASSUME NEW s \in Services, NEW x \in {"ready", "failed"}, OperationEnds(s, x)
        PROVE DeployTypeOK'
    BY <1>2, EndEffect DEF OperationEnds, DeployTypeOK, comments, verification
  <1>3. ASSUME NEW s \in Services, DeleteByHand(s) PROVE DeployTypeOK'
    BY <1>3, MaxDeletionsIsNumber DEF DeleteByHand, DeployTypeOK, comments, verification
  <1>4. ASSUME NEW s \in Services, Grant(s) PROVE DeployTypeOK'
    BY <1>4 DEF Grant, DeployTypeOK, comments, verification
  <1>5. CASE RecordD5 \/ \E conclusion \in {"success", "failure"} : EndD5(conclusion)
    BY <1>5 DEF RecordD5, EndD5, DeployTypeOK, comments, provider
  <1> QED  BY <1>1, <1>2, <1>3, <1>4, <1>5 DEF World

\* A request is taken up: a service that was not there is r's.
Created(r, s) ==
    /\ service[s] = None
    /\ service'[s] # None /\ service'[s].by = r
    /\ \A t \in Services : t # s => service'[t] = service[t]

\* An operation ends: a pending service has become another of the same run.
Ended(s) ==
    /\ service[s] # None /\ service[s].state = "pending"
    /\ service'[s] # None /\ service'[s].by = service[s].by
    /\ \A t \in Services : t # s => service'[t] = service[t]

\* Who may create what.
MayCreate(r, s) == <<r, s>> \in flying \/ (At(r, "create") /\ deploy[r].at = s)

LEMMA ServiceMoves ==
  ASSUME TypeOK, ControlInv, Next, deletions' = 0
  PROVE  /\ deletions = 0
         /\ granted \subseteq granted'
         /\ \/ service' = service
            \/ \E r \in DeployRuns, s \in Services : MayCreate(r, s) /\ Created(r, s)
            \/ \E s \in Services : Ended(s)
  <1>0. DeployTypeOK /\ deletions \in Nat
    BY MaxDeletionsIsNumber DEF TypeOK, DeployTypeOK
  <1>1. ASSUME NEW r \in DeployRuns, Deploy(r), ~ CreateAccepted(r) PROVE UNCHANGED provider \/ UNCHANGED <<service, granted, deletions>>
    BY <1>1 DEF Deploy, Start, Post, StoreLate, VerifyConsumption, Rebind, CheckAbsent,
         CreateRefused, CreateUnanswered, Poll, ReadBack, Fail
  <1>2. ASSUME NEW r \in DeployRuns, CreateAccepted(r)
        PROVE  /\ UNCHANGED <<granted, deletions>>
               /\ MayCreate(r, deploy[r].at) /\ Created(r, deploy[r].at) /\ deploy[r].at \in Services
    <2>1. deploy[r].at \in Services
      BY <1>0 DEF DeployTypeOK, DeployStates
    <2>2. deploy[r].authority \in Authorities /\ At(r, "create")
      BY <1>2 DEF CreateAccepted, At, ControlInv, AuthorityOK
    <2> QED  BY <1>0, <1>2, <2>1, <2>2, CreateEffect DEF CreateAccepted, MayCreate, Created
  <1>3. ASSUME NEW r \in DeployRuns, NEW s \in Services, TakesEffect(r, s)
        PROVE  UNCHANGED <<granted, deletions>> /\ MayCreate(r, s) /\ Created(r, s)
    <2>1. deploy[r].authority \in Authorities
      BY <1>3 DEF TakesEffect, ControlInv, AuthorityOK
    <2> QED  BY <1>0, <1>3, <2>1, CreateEffect DEF TakesEffect, MayCreate, Created
  <1>4. ASSUME NEW s \in Services, NEW x \in {"ready", "failed"}, OperationEnds(s, x)
        PROVE  UNCHANGED <<granted, deletions>> /\ Ended(s)
    BY <1>0, <1>4, EndEffect DEF OperationEnds, Ended
  <1>5. ~ \E s \in Services : DeleteByHand(s)
    BY <1>0 DEF DeleteByHand
  <1>6. ASSUME NEW s \in Services, Grant(s)
        PROVE  UNCHANGED <<service, deletions>> /\ granted \subseteq granted'
    BY <1>6 DEF Grant
  <1>7. CASE World
    BY <1>3, <1>4, <1>5, <1>6, <1>7 DEF World, RecordD5, EndD5, provider
  <1>8. CASE \E v \in VerifyRuns : Verify(v)
    BY <1>8 DEF Verify, StartVerify, ReadService, ReadPolicy, ReadRevision, PostBinding, FailVerify, provider
  <1>9. CASE UNCHANGED vars
    BY <1>9 DEF vars
  <1>10. CASE \/ \E a \in AcceptRuns : Accept(a)
              \/ \E m \in Messages : Deliver(m)
    <2>1. UNCHANGED vars
      BY <1>10
      DEF Accept, StartAcceptance, ResolveService, ResolvePolicy, ProveAbsent, Submit, PollApi,
          ReadAgain, BeDenied, FailAcceptance, Deliver
    <2> QED  BY <2>1, <1>9
  <1>11. CASE \E r \in DeployRuns : Deploy(r)
    BY <1>1, <1>2, <1>11 DEF provider
  <1> QED  BY <1>7, <1>8, <1>10, <1>11 DEF Next, DeployNext

\* While nothing is deleted, services stay, of their run, and those that
\* serve a release go on serving it.
LEMMA ServicesStay ==
  ASSUME TypeOK, ControlInv, Next, deletions' = 0, NEW s \in Services
  PROVE  /\ service[s] # None => service'[s] # None /\ service'[s].by = service[s].by
         /\ \A l \in Releases : Serves(s, l) => Serves(s, l)'
  BY ServiceMoves DEF Created, Ended, Serves

-----------------------------------------------------------------------------
(* One run serves.                                                          *)

\* All services before s are there, of run r.
AllBefore(r, s) == \A t \in Services : t < s => service[t] # None /\ service[t].by = r

\* Whoever may create a service has created those before it.
CreatorOK(r) ==
    /\ At(r, "create") \/ At(r, "poll") \/ At(r, "read") => AllBefore(r, deploy[r].at)
    /\ At(r, "poll") \/ At(r, "read") =>
           LET s == deploy[r].at IN service[s] # None /\ service[s].by = r

RequestOK(r, s) == <<r, s>> \in flying => AllBefore(r, s)

ServicesOK ==
    deletions = 0 =>
        /\ OneRunServes
        /\ \A r \in DeployRuns : CreatorOK(r)
        /\ \A r \in DeployRuns, s \in Services : RequestOK(r, s)

LEMMA InitServices == AcceptInit => ServicesOK
  BY DEF AcceptInit, Init, ServicesOK, OneRunServes, CreatorOK, RequestOK, At

\* A service is created only after all that are before it, so never under one that is there.
LEMMA StepOneRun ==
  ASSUME TypeOK, ControlInv, ServicesOK, Next, deletions' = 0
  PROVE  OneRunServes'
  <1>1. CASE service' = service
    BY <1>1, ServiceMoves DEF ServicesOK, OneRunServes
  <1>2. ASSUME NEW r \in DeployRuns, NEW s \in Services, MayCreate(r, s), Created(r, s)
        PROVE OneRunServes'
    <2>1. deletions = 0 /\ AllBefore(r, s)
      BY <1>2, ServiceMoves DEF ServicesOK, MayCreate, RequestOK, CreatorOK
    <2>2. ASSUME NEW t \in Services, s < t PROVE service[t] = None
      BY <1>2, <2>1, <2>2 DEF ServicesOK, OneRunServes, Created
    <2>3. ASSUME NEW a \in Services, NEW b \in Services, a < b, service'[b] # None
          PROVE  service'[a] # None /\ service'[a].by = service'[b].by
      <3>1. a \in 1..3 /\ b \in 1..3 /\ s \in 1..3
        BY DEF Services
      <3>2. CASE b = s
        BY <1>2, <2>1, <2>3, <3>1, <3>2 DEF AllBefore, Created
      <3>3. CASE b # s
        <4>1. service'[b] = service[b]
          BY <1>2, <3>3 DEF Created
        <4>2. service[a] # None /\ service[a].by = service[b].by
          BY <2>1, <2>3, <4>1 DEF ServicesOK, OneRunServes
        <4> QED  BY <1>2, <4>1, <4>2 DEF Created
      <3> QED  BY <3>2, <3>3
    <2> QED  BY <2>3 DEF OneRunServes
  <1>3. ASSUME NEW s \in Services, Ended(s) PROVE OneRunServes'
    <2>1. \A t \in Services : /\ service'[t] # None => service[t] # None
                              /\ service[t] # None => service'[t] # None
                              /\ service[t] # None => service'[t].by = service[t].by
      BY <1>3 DEF Ended
    <2>2. deletions = 0
      BY ServiceMoves
    <2> QED  BY <2>1, <2>2 DEF ServicesOK, OneRunServes
  <1> QED  BY <1>1, <1>2, <1>3, ServiceMoves

\* A deployment run that has come to a service has created those before it.
LEMMA StepCreator ==
  ASSUME TypeOK, ControlInv, ServicesOK, Next, deletions' = 0, NEW q \in DeployRuns
  PROVE  CreatorOK(q)'
  <1>0. deletions = 0 /\ DeployTypeOK
    BY ServiceMoves DEF TypeOK
  <1>1. /\ CreatorOK(q)
        /\ \A s \in Services : AllBefore(q, s) => AllBefore(q, s)'
        /\ \A s \in Services :
               service[s] # None /\ service[s].by = q => service'[s] # None /\ service'[s].by = q
    BY <1>0, ServicesStay DEF ServicesOK, AllBefore
  <1>2. deploy[q].at \in 1..3 /\ deploy[q].at \in Services
    BY <1>0 DEF DeployTypeOK, DeployStates, Services
  <1>3. CASE deploy'[q] = deploy[q]
    BY <1>1, <1>2, <1>3 DEF CreatorOK, At, AllBefore
  <1>4. ASSUME NEW r \in DeployRuns, Deploy(r) PROVE CreatorOK(q)'
    <2>0. deploy \in [DeployRuns -> DeployStates]
      BY <1>0 DEF DeployTypeOK
    <2>1. CASE r # q
      <3>1. deploy'[q] = deploy[q]
        BY <1>4, <2>0, <2>1
        DEF Deploy, Start, Post, StoreLate, VerifyConsumption, Rebind, CheckAbsent, CreateAccepted,
            CreateRefused, CreateUnanswered, Poll, ReadBack, Fail, To, Proceed
      <3> QED  BY <3>1, <1>3
    <2>2. CASE r = q
      <3>1. ASSUME NEW x \in {"posted", "failed"}, To(q, x) PROVE CreatorOK(q)'
        <4>1. deploy'[q].stage = x
          BY <2>0, <3>1, DeployStage DEF To, DeployStages
        <4> QED  BY <4>1 DEF CreatorOK, At
      <3>2. ASSUME NEW a \in Authorities, Start(q, a) PROVE CreatorOK(q)'
        <4>1. SetAuthority(q, "available", a)
          BY <3>2 DEF Start, SetAuthority
        <4>2. deploy'[q].stage = "available"
          BY <2>0, <4>1, DeployAuthority DEF DeployStages
        <4> QED  BY <4>2 DEF CreatorOK, At
      <3>3. CASE VerifyConsumption(q)
        <4>1. SetConsumption(q, "consumed")
          BY <3>3 DEF VerifyConsumption, SetConsumption
        <4>2. deploy'[q].stage = "consumed"
          BY <2>0, <4>1, DeployConsumption DEF DeployStages
        <4> QED  BY <4>2 DEF CreatorOK, At
      <3>4. CASE Rebind(q)
        <4>1. SetAt(q, "absent", 1)
          BY <3>4 DEF Rebind, SetAt
        <4>2. "absent" \in DeployStages /\ 1 \in Services
          BY DEF DeployStages, Services
        <4>3. deploy'[q].stage = "absent"
          BY <2>0, <4>1, <4>2, DeployAt
        <4> QED  BY <4>3 DEF CreatorOK, At
      <3>5. CASE CheckAbsent(q)
        <4>1. Proceed(q, "absent", "create")
          BY <3>5 DEF CheckAbsent
        <4> DEFINE z == IF deploy[q].at = 3 THEN "create" ELSE "absent"
                   t == IF deploy[q].at = 3 THEN 1 ELSE deploy[q].at + 1
        <4>2. z \in DeployStages /\ t \in Services /\ SetAt(q, z, t)
          BY <1>0, <4>1, ProceedIsStep DEF DeployStages
        <4>3. deploy'[q].stage = z /\ deploy'[q].at = t
          BY <2>0, <4>2, DeployAt
        <4>4. deploy'[q].stage = "absent" \/ (deploy'[q].stage = "create" /\ deploy'[q].at = 1)
          BY <4>3
        <4> QED  BY <4>4 DEF CreatorOK, At, AllBefore, Services
      <3>6. CASE CreateAccepted(q)
        <4>1. deploy'[q].stage = "poll" /\ deploy'[q].at = deploy[q].at
          BY <2>0, <3>6, DeployStage DEF CreateAccepted, To, DeployStages
        <4>2. At(q, "create") /\ deploy[q].authority \in Authorities
          BY <3>6 DEF CreateAccepted, At, ControlInv, AuthorityOK
        <4>3. service'[deploy[q].at] # None /\ service'[deploy[q].at].by = q
          BY <1>0, <1>2, <3>6, <4>2, CreateEffect DEF CreateAccepted
        <4>4. AllBefore(q, deploy[q].at)'
          BY <1>1, <1>2, <4>1, <4>2 DEF CreatorOK, AllBefore
        <4> QED  BY <4>1, <4>3, <4>4 DEF CreatorOK, At
      <3>7. CASE Poll(q)
        <4>1. deploy'[q].stage = "read" /\ deploy'[q].at = deploy[q].at /\ At(q, "poll")
          BY <2>0, <3>7, DeployStage DEF Poll, To, At, DeployStages
        <4>2. AllBefore(q, deploy[q].at)'
          BY <1>1, <1>2, <4>1 DEF CreatorOK, AllBefore
        <4> QED  BY <1>1, <1>2, <4>1, <4>2 DEF CreatorOK, At
      <3>8. CASE ReadBack(q)
        <4>1. Proceed(q, "create", "done") /\ At(q, "read")
          BY <3>8 DEF ReadBack
        <4> DEFINE z == IF deploy[q].at = 3 THEN "done" ELSE "create"
                   t == IF deploy[q].at = 3 THEN 1 ELSE deploy[q].at + 1
        <4>2. z \in DeployStages /\ t \in Services /\ SetAt(q, z, t)
          BY <1>0, <4>1, ProceedIsStep DEF DeployStages
        <4>3. deploy'[q].stage = z /\ deploy'[q].at = t
          BY <2>0, <4>2, DeployAt
        <4>4. CASE deploy'[q].stage = "done"
          BY <4>4 DEF CreatorOK, At
        <4>5. CASE deploy'[q].stage = "create"
          <5>1. deploy'[q].at = deploy[q].at + 1
            BY <4>3, <4>5
          <5>2. /\ AllBefore(q, deploy[q].at)
                /\ service[deploy[q].at] # None /\ service[deploy[q].at].by = q
            BY <1>1, <4>1 DEF CreatorOK
          <5>3. AllBefore(q, deploy[q].at + 1)
            BY <1>2, <5>2 DEF AllBefore, Services
          <5>4. AllBefore(q, deploy[q].at)'
            BY <1>1, <4>2, <4>3, <5>1, <5>3 DEF AllBefore
          <5> QED  BY <4>5, <5>4 DEF CreatorOK, At
        <4> QED  BY <4>3, <4>4, <4>5
      <3>9. CASE StoreLate(q)
        BY <1>3, <3>9 DEF StoreLate
      <3> QED
        BY <1>4, <2>2, <3>1, <3>2, <3>3, <3>4, <3>5, <3>6, <3>7, <3>8, <3>9
        DEF Deploy, Post, CreateRefused, CreateUnanswered, Fail
    <2> QED  BY <2>1, <2>2
  <1>5. CASE ~ \E r \in DeployRuns : Deploy(r)
    <2>1. deploy' = deploy
      BY <1>5
      DEF Next, DeployNext, World, TakesEffect, OperationEnds, DeleteByHand, Grant, RecordD5, EndD5,
          Verify, StartVerify, ReadService, ReadPolicy, ReadRevision, PostBinding, FailVerify,
          Accept, StartAcceptance, ResolveService, ResolvePolicy, ProveAbsent, Submit, PollApi,
          ReadAgain, BeDenied, FailAcceptance, Deliver, vars
    <2> QED  BY <2>1, <1>3
  <1> QED  BY <1>4, <1>5

\* A request is sent by a run that has created the services before.
LEMMA StepRequest ==
  ASSUME TypeOK, ControlInv, ServicesOK, Next, deletions' = 0,
         NEW q \in DeployRuns, NEW s \in Services
  PROVE  RequestOK(q, s)'
  <1>0. deletions = 0 /\ DeployTypeOK
    BY ServiceMoves DEF TypeOK
  <1>1. AllBefore(q, s) => AllBefore(q, s)'
    BY ServicesStay DEF AllBefore
  <1>2. CASE <<q, s>> \in flying
    BY <1>0, <1>1, <1>2 DEF ServicesOK, RequestOK
  <1>3. ASSUME <<q, s>> \in flying', <<q, s>> \notin flying
        PROVE  CreateUnanswered(q) /\ deploy[q].at = s
    <2>1. ASSUME NEW r \in DeployRuns, Deploy(r), ~ CreateUnanswered(r) PROVE flying' = flying
      BY <2>1
      DEF Deploy, Start, Post, StoreLate, VerifyConsumption, Rebind, CheckAbsent,
          CreateAccepted, CreateRefused, Poll, ReadBack, Fail, provider
    <2>2. ASSUME NEW r \in DeployRuns, CreateUnanswered(r)
          PROVE  r = q /\ deploy[q].at = s
      <3>1. <<q, s>> = <<r, deploy[r].at>>
        BY <1>3, <2>2 DEF CreateUnanswered
      <3> QED  BY <3>1
    <2>3. CASE ~ \E r \in DeployRuns : Deploy(r)
      <3>1. flying' \subseteq flying
        BY <2>3
        DEF Next, DeployNext, World, TakesEffect, OperationEnds, DeleteByHand, Grant, RecordD5,
            EndD5, Verify, StartVerify, ReadService, ReadPolicy, ReadRevision, PostBinding,
            FailVerify, Accept, StartAcceptance, ResolveService, ResolvePolicy, ProveAbsent, Submit,
            PollApi, ReadAgain, BeDenied, FailAcceptance, Deliver, vars, provider
      <3> QED  BY <1>3, <3>1
    <2> QED  BY <1>3, <2>1, <2>2, <2>3
  <1>4. CASE <<q, s>> \in flying' /\ <<q, s>> \notin flying
    BY <1>0, <1>1, <1>3, <1>4 DEF CreateUnanswered, ServicesOK, CreatorOK, RequestOK
  <1> QED  BY <1>2, <1>4 DEF RequestOK

LEMMA StepServices ==
  ASSUME TypeOK, ControlInv, ServicesOK, Next
  PROVE  ServicesOK'
  BY StepOneRun, StepCreator, StepRequest DEF ServicesOK

-----------------------------------------------------------------------------
(* What a reader has seen still holds.                                      *)

\* The services before the one a reader is at serve the release it reads for.
Before(o) == \A t \in Services : t < o.at => Serves(t, o.release)

VerifierOK(v) ==
    LET o == verify[v] IN
    /\ o.stage = "new" => o.at = 1
    /\ o.stage \notin {"new", "failed"} => o.release \in Releases /\ d5 = "success"
    /\ deletions = 0 =>
           /\ o.stage \in {"service", "policy", "revision"} => Before(o)
           /\ o.stage \in {"policy", "revision"} => Serves(o.at, o.release)
           /\ o.stage \in {"binding", "done"} => Deployed(o.release)

D5OK == deletions = 0 /\ d5 # "none" => granted = Services

VerifyInv == D5OK /\ BindingHolds /\ \A v \in VerifyRuns : VerifierOK(v)

LEMMA InitVerify == AcceptInit => VerifyInv
  BY DEF AcceptInit, Init, VerifyInv, D5OK, BindingHolds, VerifierOK

LEMMA DeployedIsServes ==
  ASSUME NEW l PROVE Deployed(l) <=> \A s \in Services : Serves(s, l)
  BY DEF Deployed, Serves

\* What was seen of services is still so, if nothing was deleted.
LEMMA SeenStays ==
  ASSUME TypeOK, ControlInv, Next, deletions' = 0, NEW l \in Releases
  PROVE  /\ \A s \in Services : Serves(s, l) => Serves(s, l)'
         /\ Deployed(l) => Deployed(l)'
  <1>1. \A s \in Services : Serves(s, l) => Serves(s, l)'
    BY ServicesStay
  <1>2. Deployed(l)' <=> \A s \in Services : Serves(s, l)'
    BY DEF Deployed, Serves
  <1> QED  BY <1>1, <1>2, DeployedIsServes

\* A verification run that does not move, while d5 stays where it succeeded.
LEMMA VerifierStays ==
  ASSUME TypeOK, ControlInv, Next, NEW v \in VerifyRuns, VerifierOK(v),
         verify'[v] = verify[v], d5 = "success" => d5' = "success"
  PROVE  VerifierOK(v)'
  <1> DEFINE o == verify[v]
  <1>1. o.stage \notin {"new", "failed"} => o.release \in Releases /\ d5' = "success"
    BY DEF VerifierOK
  <1>2. ASSUME deletions' = 0, o.stage \notin {"new", "failed"}
        PROVE  /\ o.stage \in {"service", "policy", "revision"} => Before(verify[v])'
               /\ o.stage \in {"policy", "revision"} => Serves(verify[v].at, verify[v].release)'
               /\ o.stage \in {"binding", "done"} => Deployed(verify[v].release)'
    <2>1. deletions = 0 /\ o.release \in Releases
      BY <1>1, <1>2, ServiceMoves
    <2>2. o.at \in Services
      BY DEF TypeOK, DeployTypeOK, VerifyStates
    <2>3. /\ \A s \in Services : Serves(s, o.release) => Serves(s, o.release)'
          /\ Deployed(o.release) => Deployed(o.release)'
      BY <1>2, <2>1, SeenStays
    <2> QED  BY <2>1, <2>2, <2>3 DEF VerifierOK, Before, Serves, Deployed
  <1>3. verify'[v].stage = "new" => verify'[v].at = 1
    BY DEF VerifierOK
  <1> QED  BY <1>1, <1>2, <1>3 DEF VerifierOK

\* A step of a verification run.
LEMMA VerifyStep ==
  ASSUME TypeOK, VerifyInv, NEW v \in VerifyRuns, Verify(v)
  PROVE  /\ DeployTypeOK'
         /\ UNCHANGED <<comments, deploy, provider, d5>>
         /\ VerifierOK(v)'
         /\ \A w \in VerifyRuns : w # v => verify'[w] = verify[w]
         /\ bindings' # bindings => \E l \in Releases :
                /\ bindings' = bindings \cup {[release |-> l, run |-> v]}
                /\ d5 = "success"
                /\ deletions = 0 => Deployed(l)
  <1> DEFINE o == verify[v]
  <1>0. /\ DeployTypeOK /\ VerifierOK(v)
        /\ verify \in [VerifyRuns -> ReaderStates(VerifyStages)]
        /\ o.at \in Services /\ o.at \in 1..3
    BY DEF TypeOK, DeployTypeOK, VerifyInv, VerifyStates, ReaderStates, Services
  <1>1. UNCHANGED <<comments, deploy, provider, d5>>
    BY DEF Verify, StartVerify, ReadService, ReadPolicy, ReadRevision, PostBinding, FailVerify
  <1>2. /\ service' = service /\ deletions' = deletions /\ d5' = d5
        /\ consumed' = consumed /\ late' = late /\ flying' = flying /\ granted' = granted
    BY <1>1 DEF provider, comments
  <1> DEFINE typed == verify' \in [VerifyRuns -> ReaderStates(VerifyStages)]
             others == \A w \in VerifyRuns : w # v => verify'[w] = verify[w]
  <1>3. ASSUME NEW x \in VerifyStages, Advance(v, x)
        PROVE  /\ typed /\ others
               /\ verify'[v].stage = x /\ verify'[v].release = o.release /\ verify'[v].at = o.at
    <2>1. verify' = [verify EXCEPT ![v].stage = x]
      BY <1>3 DEF Advance
    <2>2. others
      BY <2>1, <1>0
    <2> QED  BY <1>0, <2>1, <2>2, ReaderStage
  <1>4. ASSUME typed, bindings' \subseteq [release : Releases, run : VerifyRuns]
        PROVE DeployTypeOK'
    BY <1>0, <1>1, <1>2, <1>4 DEF DeployTypeOK, VerifyStates, ReaderStates
  <1>11. bindings \subseteq [release : Releases, run : VerifyRuns]
    BY <1>0 DEF DeployTypeOK
  <1>5. ASSUME NEW l \in Releases, StartVerify(v, l)
        PROVE  typed /\ others /\ VerifierOK(v)' /\ bindings' = bindings
    <2>1. SetRelease(verify, verify', v, "service", l)
      BY <1>5 DEF StartVerify, SetRelease
    <2>2. others /\ bindings' = bindings
      BY <1>0, <1>5 DEF StartVerify
    <2>3. /\ typed
          /\ verify'[v].stage = "service" /\ verify'[v].release = l /\ verify'[v].at = o.at
      <3>1. "service" \in VerifyStages
        BY DEF VerifyStages
      <3> QED  BY <1>0, <2>1, <3>1, ReaderRelease
    <2>4. o.at = 1 /\ d5 = "success"
      BY <1>0, <1>5 DEF StartVerify, Verifying, VerifierOK
    <2> QED
      BY <1>2, <2>2, <2>3, <2>4 DEF VerifierOK, Before, Services
  <1>6. CASE ReadService(v)
    <2>1. /\ typed /\ others /\ bindings' = bindings
          /\ verify'[v].stage = "policy" /\ verify'[v].release = o.release /\ verify'[v].at = o.at
      BY <1>3, <1>6 DEF ReadService, VerifyStages
    <2>2. o.stage = "service" /\ Serves(o.at, o.release)
      BY <1>6 DEF ReadService, Verifying
    <2>3. VerifierOK(v)'
      BY <1>0, <1>2, <2>1, <2>2 DEF VerifierOK, Before, Serves
    <2> QED  BY <1>1, <1>4, <1>11, <2>1, <2>3
  <1>7. CASE ReadPolicy(v)
    <2>1. /\ typed /\ others /\ bindings' = bindings
          /\ verify'[v].stage = "revision" /\ verify'[v].release = o.release /\ verify'[v].at = o.at
      BY <1>3, <1>7 DEF ReadPolicy, VerifyStages
    <2>2. o.stage = "policy"
      BY <1>7 DEF ReadPolicy, Verifying
    <2>3. VerifierOK(v)'
      BY <1>0, <1>2, <2>1, <2>2 DEF VerifierOK, Before, Serves
    <2> QED  BY <1>1, <1>4, <1>11, <2>1, <2>3
  <1>8. CASE ReadRevision(v)
    <2> DEFINE z == IF o.at = 3 THEN "binding" ELSE "service"
               t == IF o.at = 3 THEN 3 ELSE o.at + 1
    <2>1. SetPlace(verify, verify', v, z, t) /\ others /\ bindings' = bindings
      BY <1>0, <1>8 DEF ReadRevision, SetPlace, Last, Api
    <2>2. z \in VerifyStages /\ t \in Services
      BY <1>0 DEF VerifyStages, Services
    <2>3. /\ typed
          /\ verify'[v].stage = z /\ verify'[v].release = o.release /\ verify'[v].at = t
      BY <1>0, <2>1, <2>2, ReaderAt
    <2>4. o.stage = "revision"
      BY <1>8 DEF ReadRevision, Verifying
    <2>5. /\ o.release \in Releases /\ d5 = "success"
          /\ deletions = 0 => Before(o) /\ Serves(o.at, o.release)
      BY <1>0, <2>4 DEF VerifierOK
    <2>6. CASE o.at = 3
      <3>1. deletions = 0 => Deployed(o.release)
        BY <2>5, <2>6, DeployedIsServes DEF Before, Services
      <3>2. z = "binding"
        BY <2>6
      <3>3. VerifierOK(v)'
        BY <1>2, <2>3, <2>5, <3>1, <3>2 DEF VerifierOK, Deployed
      <3> QED  BY <1>1, <1>4, <1>11, <2>1, <2>3, <3>3
    <2>7. CASE o.at # 3
      <3>1. z = "service" /\ t = o.at + 1
        BY <2>7
      <3>2. deletions = 0 => \A u \in Services : u < t => Serves(u, o.release)
        BY <1>0, <2>5, <3>1 DEF Before, Services
      <3>3. VerifierOK(v)'
        BY <1>2, <2>3, <2>5, <3>1, <3>2 DEF VerifierOK, Before, Serves
      <3> QED  BY <1>1, <1>4, <1>11, <2>1, <2>3, <3>3
    <2> QED  BY <2>6, <2>7
  <1>9. CASE PostBinding(v)
    <2>1. /\ typed /\ others
          /\ verify'[v].stage \in {"done", "failed"}
          /\ verify'[v].release = o.release /\ verify'[v].at = o.at
      BY <1>3, <1>9 DEF PostBinding, VerifyStages
    <2>2. o.stage = "binding" /\ bindings' = bindings \cup {[release |-> o.release, run |-> v]}
      BY <1>9 DEF PostBinding, Verifying
    <2>3. o.release \in Releases /\ d5 = "success" /\ (deletions = 0 => Deployed(o.release))
      BY <1>0, <2>2 DEF VerifierOK
    <2>4. VerifierOK(v)'
      BY <1>2, <2>1, <2>3 DEF VerifierOK, Deployed
    <2>5. DeployTypeOK'
      BY <1>4, <1>11, <2>1, <2>2, <2>3
    <2> QED  BY <1>1, <2>1, <2>2, <2>3, <2>4, <2>5
  <1>10. CASE FailVerify(v)
    <2>1. /\ typed /\ others /\ bindings' = bindings /\ verify'[v].stage = "failed"
      BY <1>3, <1>10 DEF FailVerify, VerifyStages
    <2>2. VerifierOK(v)'
      BY <2>1 DEF VerifierOK
    <2> QED  BY <1>1, <1>4, <1>11, <2>1, <2>2
  <1> QED
    BY <1>1, <1>4, <1>11, <1>5, <1>6, <1>7, <1>8, <1>9, <1>10 DEF Verify

LEMMA StepVerify ==
  ASSUME TypeOK, ControlInv, VerifyInv, Next
  PROVE  VerifyInv'
  <1>0. d5 = "success" => d5' = "success"
    BY DEF Next, DeployNext, Deploy, Start, Post, StoreLate, VerifyConsumption, Rebind, CheckAbsent,
        CreateAccepted, CreateRefused, CreateUnanswered, Poll, ReadBack, Fail, World, TakesEffect,
        OperationEnds, DeleteByHand, Grant, RecordD5, EndD5, Verify, StartVerify, ReadService,
        ReadPolicy, ReadRevision, PostBinding, FailVerify, Accept, StartAcceptance,
        ResolveService, ResolvePolicy, ProveAbsent, Submit, PollApi, ReadAgain, BeDenied,
        FailAcceptance, Deliver, vars, verification
  <1>1. D5OK'
    <2>1. d5 = "none" /\ d5' # "none" => granted = Services
      BY DEF Next, DeployNext, Deploy, Start, Post, StoreLate, VerifyConsumption, Rebind, CheckAbsent,
          CreateAccepted, CreateRefused, CreateUnanswered, Poll, ReadBack, Fail, World, TakesEffect,
          OperationEnds, DeleteByHand, Grant, RecordD5, EndD5, Verify, StartVerify, ReadService,
          ReadPolicy, ReadRevision, PostBinding, FailVerify, Accept, StartAcceptance,
          ResolveService, ResolvePolicy, ProveAbsent, Submit, PollApi, ReadAgain, BeDenied,
          FailAcceptance, Deliver, vars, verification
    <2>2. deletions' = 0 => deletions = 0 /\ granted \subseteq granted'
      BY ServiceMoves
    <2>3. granted' \subseteq Services
      BY DEF TypeOK, DeployTypeOK, Next, DeployNext, Deploy, Start, Post, StoreLate, VerifyConsumption,
          Rebind, CheckAbsent, CreateAccepted, CreateRefused, CreateUnanswered, Poll, ReadBack, Fail,
          World, TakesEffect, OperationEnds, DeleteByHand, Grant, RecordD5, EndD5, Verify, StartVerify,
          ReadService, ReadPolicy, ReadRevision, PostBinding, FailVerify, Accept, StartAcceptance,
          ResolveService, ResolvePolicy, ProveAbsent, Submit, PollApi, ReadAgain, BeDenied,
          FailAcceptance, Deliver, vars, provider
    <2> QED  BY <2>1, <2>2, <2>3 DEF VerifyInv, D5OK
  <1>2. ASSUME deletions' = 0, NEW b \in bindings
        PROVE  d5' = "success" /\ granted' = Services /\ Deployed(b.release)'
    <2>1. deletions = 0 /\ d5 = "success" /\ Deployed(b.release) /\ b.release \in Releases
      BY <1>2, ServiceMoves DEF VerifyInv, BindingHolds, TypeOK, DeployTypeOK
    <2>2. Deployed(b.release)'
      BY <1>2, <2>1, SeenStays
    <2> QED  BY <1>0, <1>1, <1>2, <2>1, <2>2 DEF D5OK
  <1>3. ASSUME NEW v \in VerifyRuns, Verify(v) PROVE VerifyInv'
    <2>1. \A w \in VerifyRuns : VerifierOK(w)'
      BY <1>0, <1>3, VerifyStep, VerifierStays DEF VerifyInv
    <2>2. ASSUME deletions' = 0, NEW b \in bindings', b \notin bindings
          PROVE  d5' = "success" /\ granted' = Services /\ Deployed(b.release)'
      <3>1. PICK l \in Releases : /\ bindings' = bindings \cup {[release |-> l, run |-> v]}
                                  /\ d5 = "success"
                                  /\ deletions = 0 => Deployed(l)
        BY <1>3, <2>2, VerifyStep
      <3>2. b.release = l
        BY <2>2, <3>1
      <3>3. deletions = 0 /\ Deployed(l)'
        BY <2>2, <3>1, ServiceMoves, SeenStays
      <3>4. d5' = "success" /\ granted' = Services
        BY <1>0, <1>1, <2>2, <3>1 DEF D5OK
      <3> QED  BY <3>2, <3>3, <3>4 DEF Deployed
    <2> QED  BY <1>1, <1>2, <2>1, <2>2 DEF VerifyInv, BindingHolds, Deployed
  <1>4. CASE ~ \E v \in VerifyRuns : Verify(v)
    <2>1. verify' = verify /\ bindings' = bindings
      BY <1>4
      DEF Next, DeployNext, Deploy, Start, Post, StoreLate, VerifyConsumption, Rebind, CheckAbsent,
          CreateAccepted, CreateRefused, CreateUnanswered, Poll, ReadBack, Fail, World, TakesEffect,
          OperationEnds, DeleteByHand, Grant, RecordD5, EndD5, Accept, StartAcceptance,
          ResolveService, ResolvePolicy, ProveAbsent, Submit, PollApi, ReadAgain, BeDenied,
          FailAcceptance, Deliver, vars, verification
    <2>2. \A w \in VerifyRuns : VerifierOK(w)'
      BY <1>0, <2>1, VerifierStays DEF VerifyInv
    <2> QED  BY <1>1, <1>2, <2>1, <2>2 DEF VerifyInv, BindingHolds, Deployed
  <1> QED  BY <1>3, <1>4

-----------------------------------------------------------------------------
(* The acceptance runs.                                                     *)

\* What acceptance run a has seen of the services and of the record.
AccepterOK(a) ==
    LET o == accept[a] IN
    /\ o.stage = "new" => o.at = 1
    /\ o.stage \notin {"new", "failed"} => o.release \in Releases
    /\ deletions = 0 =>
           /\ o.stage \in {"service", "policy"} => Before(o)
           /\ o.stage = "policy" => Serves(o.at, o.release)
           /\ o.stage \notin {"new", "failed", "service", "policy"} => Deployed(o.release)
    /\ o.stage \in {"replay", "again", "deny", "done"} => recorded = <<a, "first">>
    /\ o.stage \in {"again", "deny", "done"} => <<a, "replay">> \in topic

AcceptInv == \A a \in AcceptRuns : AccepterOK(a)

AcceptTypeOK ==
    /\ accept \in [AcceptRuns -> AcceptStates]
    /\ topic \subseteq Messages
    /\ recorded \in Messages \cup {None}

LEMMA InitAccept == AcceptInit => AcceptInv
  BY DEF AcceptInit, AcceptInv, AccepterOK

\* A first message is a message, so it is not None.
LEMMA FirstIsMessage ==
  ASSUME NEW a \in AcceptRuns PROVE <<a, "first">> # None
  BY NoneIsNoMessage DEF Messages

\* The first message recorded stays, and what is published stays published.
LEMMA RecordStays ==
  ASSUME Next
  PROVE  topic \subseteq topic' /\ (recorded # None => recorded' = recorded)
  BY DEF Next, acceptance, Accept, StartAcceptance, ResolveService, ResolvePolicy, ProveAbsent,
      Submit, PollApi, ReadAgain, BeDenied, FailAcceptance, Deliver

\* An acceptance run that does not move.
LEMMA AccepterStays ==
  ASSUME TypeOK, ControlInv, Next, NEW a \in AcceptRuns, AccepterOK(a), accept'[a] = accept[a]
  PROVE  AccepterOK(a)'
  <1> DEFINE o == accept[a]
  <1>1. /\ o.stage = "new" => o.at = 1
        /\ o.stage \notin {"new", "failed"} => o.release \in Releases
    BY DEF AccepterOK
  <1>2. ASSUME deletions' = 0, o.stage \notin {"new", "failed"}
        PROVE  /\ o.stage \in {"service", "policy"} => Before(accept[a])'
               /\ o.stage = "policy" => Serves(accept[a].at, accept[a].release)'
               /\ o.stage \notin {"service", "policy"} => Deployed(accept[a].release)'
    <2>1. deletions = 0 /\ o.release \in Releases
      BY <1>1, <1>2, ServiceMoves
    <2>2. o.at \in Services
      BY DEF TypeOK, AcceptStates
    <2>3. /\ \A s \in Services : Serves(s, o.release) => Serves(s, o.release)'
          /\ Deployed(o.release) => Deployed(o.release)'
      BY <1>2, <2>1, SeenStays
    <2> QED  BY <1>2, <2>1, <2>2, <2>3 DEF AccepterOK, Before, Serves, Deployed
  <1>3. /\ o.stage \in {"replay", "again", "deny", "done"} => recorded' = <<a, "first">>
        /\ o.stage \in {"again", "deny", "done"} => <<a, "replay">> \in topic'
    BY RecordStays, FirstIsMessage DEF AccepterOK
  <1> QED  BY <1>1, <1>2, <1>3 DEF AccepterOK

\* A step of an acceptance run.
LEMMA AcceptStep ==
  ASSUME TypeOK, AcceptInv, NEW a \in AcceptRuns, Accept(a)
  PROVE  /\ AcceptTypeOK'
         /\ UNCHANGED vars
         /\ AccepterOK(a)'
         /\ \A b \in AcceptRuns : b # a => accept'[b] = accept[b]
  <1> DEFINE o == accept[a]
  <1>0. /\ AccepterOK(a)
        /\ accept \in [AcceptRuns -> ReaderStates(AcceptStages)]
        /\ topic \subseteq Messages /\ recorded \in Messages \cup {None}
        /\ o.at \in Services /\ o.at \in 1..3
    BY DEF TypeOK, AcceptInv, AcceptStates, ReaderStates, Services
  <1>1. UNCHANGED vars
    BY DEF Accept, StartAcceptance, ResolveService, ResolvePolicy, ProveAbsent, Submit, PollApi,
        ReadAgain, BeDenied, FailAcceptance
  <1>2. service' = service /\ deletions' = deletions
    BY <1>1 DEF vars
  <1> DEFINE typed == accept' \in [AcceptRuns -> ReaderStates(AcceptStages)]
             others == \A b \in AcceptRuns : b # a => accept'[b] = accept[b]
             same == topic' = topic /\ recorded' = recorded
             goal == AcceptTypeOK' /\ others /\ AccepterOK(a)'
  <1>3. ASSUME NEW x \in AcceptStages, Onward(a, x)
        PROVE  /\ typed /\ others
               /\ accept'[a].stage = x /\ accept'[a].release = o.release /\ accept'[a].at = o.at
    <2>1. accept' = [accept EXCEPT ![a].stage = x]
      BY <1>3 DEF Onward
    <2>2. others
      BY <2>1, <1>0
    <2> QED  BY <1>0, <2>1, <2>2, ReaderStage
  <1>4. ASSUME typed, topic' \subseteq Messages, recorded' = recorded
        PROVE  AcceptTypeOK'
    BY <1>0, <1>4 DEF AcceptTypeOK, AcceptStates, ReaderStates
  <1>5. ASSUME NEW l \in Releases, StartAcceptance(a, l)
        PROVE  goal
    <2>1. SetRelease(accept, accept', a, "service", l) /\ others /\ same
      BY <1>0, <1>5 DEF StartAcceptance, SetRelease
    <2>2. "service" \in AcceptStages
      BY DEF AcceptStages
    <2>3. /\ typed
          /\ accept'[a].stage = "service" /\ accept'[a].release = l /\ accept'[a].at = o.at
      BY <1>0, <2>1, <2>2, ReaderRelease
    <2>4. o.at = 1
      BY <1>0, <1>5 DEF StartAcceptance, Accepting, AccepterOK
    <2>5. AccepterOK(a)'
      BY <1>2, <2>3, <2>4 DEF AccepterOK, Before, Services
    <2> QED  BY <1>0, <1>4, <2>1, <2>3, <2>5
  <1>6. ASSUME ResolveService(a) PROVE goal
    <2>1. /\ typed /\ others /\ same
          /\ accept'[a].stage = "policy" /\ accept'[a].release = o.release /\ accept'[a].at = o.at
      BY <1>3, <1>6 DEF ResolveService, AcceptStages
    <2>2. o.stage = "service" /\ Serves(o.at, o.release)
      BY <1>6 DEF ResolveService, Accepting
    <2>3. AccepterOK(a)'
      BY <1>0, <1>2, <2>1, <2>2 DEF AccepterOK, Before, Serves
    <2> QED  BY <1>0, <1>4, <2>1, <2>3
  <1>7. ASSUME ResolvePolicy(a) PROVE goal
    <2> DEFINE z == IF o.at = 3 THEN "absent" ELSE "service"
               t == IF o.at = 3 THEN 3 ELSE o.at + 1
    <2>1. SetPlace(accept, accept', a, z, t) /\ others /\ same
      BY <1>0, <1>7 DEF ResolvePolicy, SetPlace, Last, Api
    <2>2. z \in AcceptStages /\ t \in Services
      BY <1>0 DEF AcceptStages, Services
    <2>3. /\ typed
          /\ accept'[a].stage = z /\ accept'[a].release = o.release /\ accept'[a].at = t
      BY <1>0, <2>1, <2>2, ReaderAt
    <2>4. o.stage = "policy"
      BY <1>7 DEF ResolvePolicy, Accepting
    <2>5. /\ o.release \in Releases
          /\ deletions = 0 => Before(o) /\ Serves(o.at, o.release)
      BY <1>0, <2>4 DEF AccepterOK
    <2>6. CASE o.at = 3
      <3>1. deletions = 0 => Deployed(o.release)
        BY <2>5, <2>6, DeployedIsServes DEF Before, Services
      <3>2. z = "absent"
        BY <2>6
      <3>3. AccepterOK(a)'
        BY <1>2, <2>3, <2>5, <3>1, <3>2 DEF AccepterOK, Deployed
      <3> QED  BY <1>0, <1>4, <2>1, <2>3, <3>3
    <2>7. CASE o.at # 3
      <3>1. z = "service" /\ t = o.at + 1
        BY <2>7
      <3>2. deletions = 0 => \A u \in Services : u < t => Serves(u, o.release)
        BY <1>0, <2>5, <3>1 DEF Before, Services
      <3>3. AccepterOK(a)'
        BY <1>2, <2>3, <2>5, <3>1, <3>2 DEF AccepterOK, Before, Serves
      <3> QED  BY <1>0, <1>4, <2>1, <2>3, <3>3
    <2> QED  BY <2>6, <2>7
  <1>8. ASSUME ProveAbsent(a) PROVE goal
    <2>1. /\ typed /\ others /\ same
          /\ accept'[a].stage = "submit" /\ accept'[a].release = o.release
      BY <1>3, <1>8 DEF ProveAbsent, AcceptStages
    <2>2. o.stage = "absent"
      BY <1>8 DEF ProveAbsent, Accepting
    <2>3. AccepterOK(a)'
      BY <1>0, <1>2, <2>1, <2>2 DEF AccepterOK, Deployed
    <2> QED  BY <1>0, <1>4, <2>1, <2>3
  <1>9. ASSUME Submit(a, "submit", "first", "poll") PROVE goal
    <2>1. /\ typed /\ others /\ recorded' = recorded
          /\ accept'[a].stage \in {"poll", "failed"} /\ accept'[a].release = o.release
      BY <1>3, <1>9 DEF Submit, AcceptStages
    <2>2. o.stage = "submit" /\ topic' = topic \cup {<<a, "first">>}
      BY <1>9 DEF Submit, Accepting
    <2>3. topic' \subseteq Messages
      BY <1>0, <2>2 DEF Messages
    <2>4. AccepterOK(a)'
      BY <1>0, <1>2, <2>1, <2>2 DEF AccepterOK, Deployed
    <2> QED  BY <1>4, <2>1, <2>3, <2>4
  <1>10. ASSUME PollApi(a) PROVE goal
    <2>1. /\ typed /\ others /\ same
          /\ accept'[a].stage = "replay" /\ accept'[a].release = o.release
      BY <1>3, <1>10 DEF PollApi, AcceptStages
    <2>2. o.stage = "poll" /\ recorded = <<a, "first">>
      BY <1>10 DEF PollApi, Accepting, ReadBackHolds
    <2>3. AccepterOK(a)'
      BY <1>0, <1>2, <2>1, <2>2 DEF AccepterOK, Deployed
    <2> QED  BY <1>0, <1>4, <2>1, <2>3
  <1>11. ASSUME Submit(a, "replay", "replay", "again") PROVE goal
    <2>1. /\ typed /\ others /\ recorded' = recorded
          /\ accept'[a].stage \in {"again", "failed"} /\ accept'[a].release = o.release
      BY <1>3, <1>11 DEF Submit, AcceptStages
    <2>2. o.stage = "replay" /\ topic' = topic \cup {<<a, "replay">>}
      BY <1>11 DEF Submit, Accepting
    <2>3. topic' \subseteq Messages
      BY <1>0, <2>2 DEF Messages
    <2>4. AccepterOK(a)'
      BY <1>0, <1>2, <2>1, <2>2 DEF AccepterOK, Deployed
    <2> QED  BY <1>4, <2>1, <2>3, <2>4
  <1>12. ASSUME ReadAgain(a) PROVE goal
    <2>1. /\ typed /\ others /\ same
          /\ accept'[a].stage = "deny" /\ accept'[a].release = o.release
      BY <1>3, <1>12 DEF ReadAgain, AcceptStages
    <2>2. o.stage = "again"
      BY <1>12 DEF ReadAgain, Accepting
    <2>3. AccepterOK(a)'
      BY <1>0, <1>2, <2>1, <2>2 DEF AccepterOK, Deployed
    <2> QED  BY <1>0, <1>4, <2>1, <2>3
  <1>13. ASSUME BeDenied(a) PROVE goal
    <2>1. /\ typed /\ others /\ same
          /\ accept'[a].stage = "done" /\ accept'[a].release = o.release
      BY <1>3, <1>13 DEF BeDenied, AcceptStages
    <2>2. o.stage = "deny"
      BY <1>13 DEF BeDenied, Accepting
    <2>3. AccepterOK(a)'
      BY <1>0, <1>2, <2>1, <2>2 DEF AccepterOK, Deployed
    <2> QED  BY <1>0, <1>4, <2>1, <2>3
  <1>14. ASSUME FailAcceptance(a) PROVE goal
    <2>1. typed /\ others /\ same /\ accept'[a].stage = "failed"
      BY <1>3, <1>14 DEF FailAcceptance, AcceptStages
    <2>2. AccepterOK(a)'
      BY <2>1 DEF AccepterOK
    <2> QED  BY <1>0, <1>4, <2>1, <2>2
  <1> QED
    BY <1>1, <1>5, <1>6, <1>7, <1>8, <1>9, <1>10, <1>11, <1>12, <1>13, <1>14 DEF Accept

LEMMA StepAccept ==
  ASSUME TypeOK, ControlInv, AcceptInv, Next
  PROVE  AcceptInv'
  <1>1. ASSUME NEW a \in AcceptRuns, Accept(a) PROVE AcceptInv'
    BY <1>1, AcceptStep, AccepterStays DEF AcceptInv
  <1>2. ASSUME accept' = accept PROVE AcceptInv'
    BY <1>2, AccepterStays DEF AcceptInv
  <1>3. CASE DeployNext /\ UNCHANGED acceptance
    BY <1>2, <1>3 DEF acceptance
  <1>4. CASE \E m \in Messages : Deliver(m)
    BY <1>2, <1>4 DEF Deliver
  <1> QED  BY <1>1, <1>3, <1>4 DEF Next

-----------------------------------------------------------------------------
(* The theorems.                                                            *)

LEMMA InitType == AcceptInit => TypeOK
  <1> SUFFICES ASSUME AcceptInit PROVE TypeOK
    OBVIOUS
  <1>1. 0 \in 0..MaxDeletions
    BY MaxDeletionsIsNumber
  <1>2. DeployTypeOK
    BY <1>1
    DEF AcceptInit, Init, DeployTypeOK, DeployStates, DeployStages, VerifyStates, VerifyStages, Services
  <1>3. AcceptTypeOK
    BY DEF AcceptInit, AcceptTypeOK, AcceptStates, AcceptStages, Services
  <1> QED  BY <1>2, <1>3 DEF TypeOK, AcceptTypeOK

LEMMA StepType ==
  ASSUME TypeOK, ControlInv, VerifyInv, AcceptInv, Next
  PROVE  TypeOK'
  <1>0. DeployTypeOK /\ AcceptTypeOK
    BY DEF TypeOK, AcceptTypeOK
  <1>1. ASSUME DeployNext, UNCHANGED acceptance PROVE TypeOK'
    <2>1. AcceptTypeOK'
      BY <1>0, <1>1 DEF AcceptTypeOK, acceptance
    <2>2. DeployTypeOK'
      BY <1>0, <1>1, DeployType, WorldType, VerifyStep DEF DeployNext
    <2> QED  BY <2>1, <2>2 DEF TypeOK, AcceptTypeOK
  <1>2. ASSUME UNCHANGED vars PROVE DeployTypeOK'
    BY <1>0, <1>2 DEF vars, DeployTypeOK
  <1>3. ASSUME NEW a \in AcceptRuns, Accept(a) PROVE TypeOK'
    BY <1>2, <1>3, AcceptStep DEF TypeOK, AcceptTypeOK
  <1>4. ASSUME NEW m \in Messages, Deliver(m) PROVE TypeOK'
    BY <1>0, <1>2, <1>4 DEF Deliver, TypeOK, AcceptTypeOK
  <1> QED  BY <1>1, <1>3, <1>4 DEF Next

IInv == TypeOK /\ ControlInv /\ ServicesOK /\ VerifyInv /\ AcceptInv

LEMMA Stutter ==
  ASSUME IInv, UNCHANGED allvars
  PROVE  IInv'
  <1>1. /\ UNCHANGED <<consumed, late, deploy, flying, service>>
        /\ UNCHANGED <<granted, deletions, d5, verify, bindings>>
        /\ UNCHANGED <<accept, topic, recorded>>
    BY DEF allvars, vars, acceptance
  <1>2. TypeOK'
    BY <1>1 DEF IInv, TypeOK, DeployTypeOK
  <1>3. ControlInv'
    BY <1>1 DEF IInv, ControlInv, AuthorityOK, OneActive, SpentOK, AuthorityIsSpentOnce, Active
  <1>4. ServicesOK'
    BY <1>1 DEF IInv, ServicesOK, OneRunServes, CreatorOK, RequestOK, AllBefore, At
  <1>5. VerifyInv'
    BY <1>1 DEF IInv, VerifyInv, D5OK, BindingHolds, VerifierOK, Before, Serves, Deployed
  <1>6. AcceptInv'
    BY <1>1 DEF IInv, AcceptInv, AccepterOK, Before, Serves, Deployed
  <1> QED  BY <1>2, <1>3, <1>4, <1>5, <1>6 DEF IInv

\* The invariant is inductive.
THEOREM Invariance == Spec => []IInv
  <1>1. AcceptInit => IInv
    BY InitType, InitControl, InitServices, InitVerify, InitAccept DEF IInv
  <1>2. IInv /\ [Next]_allvars => IInv'
    <2>1. ASSUME IInv, Next PROVE IInv'
      <3>1. TypeOK /\ ControlInv /\ ServicesOK /\ VerifyInv /\ AcceptInv
        BY <2>1 DEF IInv
      <3>2. DeployTypeOK
        BY <3>1 DEF TypeOK
      <3> QED
        BY <2>1, <3>1, <3>2, StepType, StepControl, StepServices, StepVerify, StepAccept DEF IInv
    <2> QED  BY <2>1, Stutter
  <1> QED  BY <1>1, <1>2, PTL DEF Spec

\* Every variable of the deployment, the verification and the acceptance has
\* its type.
THEOREM TypeCorrect == Spec => []TypeOK
  <1>1. IInv => TypeOK
    BY DEF IInv
  <1> QED  BY <1>1, Invariance, PTL

\* No two deployment runs hold a consumption of one authority, although each
\* looks only for its own comment (verify-deployment-consumption).
THEOREM AuthorityOneUse == Spec => []AuthorityIsSpentOnce
  <1>1. IInv => AuthorityIsSpentOnce
    BY DEF IInv, ControlInv
  <1> QED  BY <1>1, Invariance, PTL

\* The services that exist are those of one run, created in order, although
\* requests without an answer take effect late (create-if-absent).
THEOREM ServicesOfOneRun == Spec => []OneRunServes
  <1>1. IInv => OneRunServes
    BY DEF IInv, ServicesOK, OneRunServes
  <1> QED  BY <1>1, Invariance, PTL

\* A published routing binding goes on describing the services, although they
\* were read one by one (phase5-verify-reusable.yml).
THEOREM BindingsHold == Spec => []BindingHolds
  <1>1. IInv => BindingHolds
    BY DEF IInv, VerifyInv
  <1> QED  BY <1>1, Invariance, PTL

\* One run at most reports completion, for the record of its own first
\* message and a deployment of its release (phase5-acceptance-reusable.yml).
THEOREM AcceptanceOnce == Spec => []AcceptedOnce
  <1>1. IInv => AcceptedOnce
    <2> SUFFICES ASSUME IInv, NEW a \in AcceptRuns, Accepting(a, "done")
                 PROVE  /\ recorded = <<a, "first">>
                        /\ <<a, "replay">> \in topic
                        /\ \A b \in AcceptRuns : Accepting(b, "done") => a = b
                        /\ deletions = 0 => Deployed(accept[a].release)
      BY DEF AcceptedOnce
    <2>1. \A b \in AcceptRuns : Accepting(b, "done") =>
              /\ recorded = <<b, "first">>
              /\ <<b, "replay">> \in topic
              /\ deletions = 0 => Deployed(accept[b].release)
      BY DEF IInv, AcceptInv, AccepterOK, Accepting
    <2>2. ASSUME NEW b \in AcceptRuns, Accepting(b, "done") PROVE a = b
      <3>1. <<a, "first">> = <<b, "first">>
        BY <2>1, <2>2
      <3> QED  BY <3>1
    <2>3. /\ recorded = <<a, "first">> /\ <<a, "replay">> \in topic
          /\ deletions = 0 => Deployed(accept[a].release)
      BY <2>1
    <2> QED  BY <2>2, <2>3
  <1> QED  BY <1>1, Invariance, PTL

================================================================================
