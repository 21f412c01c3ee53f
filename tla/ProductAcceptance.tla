--------------------------- MODULE ProductAcceptance ---------------------------
(***************************************************************************)
(* Phase 5: the acceptance of the deployed product                         *)
(* (phase5-acceptance-reusable.yml), a client of the services that         *)
(* ProductDeployment creates and ObservationPipeline models.               *)
(*                                                                         *)
(* A run reads the three services back, sees that the API does not know    *)
(* the reviewed event, submits it to ingest, polls the API until the event *)
(* is recorded, submits it again and reads the record once more.  Runs are *)
(* not serialised and all submit the same event.  Of the pipeline it needs *)
(* only what ObservationLedger promises: messages with one payload are     *)
(* delivered at least once, in any order, late or never, and the first one *)
(* to be recorded stays on record.                                         *)
(***************************************************************************)
EXTENDS ProductDeployment

CONSTANT AcceptRuns  \* runs of the acceptance workflow

VARIABLES
    accept,    \* the acceptance runs
    topic,     \* the messages published
    recorded   \* the message the event is recorded from, or None

acceptance == <<accept, topic, recorded>>
allvars == <<vars, acceptance>>

\* A run has one message published, and another by its replay.
Messages == AcceptRuns \X {"first", "replay"}

ASSUME NoneIsNoMessage == None \notin Messages

AcceptStages == {"new", "service", "policy", "absent", "submit", "poll", "replay", "again",
                 "deny", "done", "failed"}
AcceptStates == [stage : AcceptStages, release : Releases \cup {None}, at : Services]

AcceptInit ==
    /\ Init
    /\ accept = [a \in AcceptRuns |-> [stage |-> "new", release |-> None, at |-> 1]]
    /\ topic = {}
    /\ recorded = None

-----------------------------------------------------------------------------
Accepting(a, stage) == accept[a].stage = stage

Onward(a, stage) == accept' = [accept EXCEPT ![a].stage = stage]

\* The release record and the fixture of the event
StartAcceptance(a, l) ==
    /\ Accepting(a, "new")
    /\ accept' = [accept EXCEPT ![a].stage = "service", ![a].release = l]
    /\ UNCHANGED <<vars, topic, recorded>>

\* verify-service, service by service, the policy in a second request
ResolveService(a) ==
    /\ Accepting(a, "service")
    /\ Serves(accept[a].at, accept[a].release)
    /\ Onward(a, "policy")
    /\ UNCHANGED <<vars, topic, recorded>>

ResolvePolicy(a) ==
    /\ Accepting(a, "policy")
    /\ LET s == accept[a].at IN
         /\ s \in granted
         /\ accept' = [accept EXCEPT ![a].stage = IF Last(s) THEN "absent" ELSE "service",
                                     ![a].at = IF Last(s) THEN s ELSE s + 1]
    /\ UNCHANGED <<vars, topic, recorded>>

\* A service answers the callers its policy names.
Answers(s) == service[s] # None /\ service[s].state = "ready" /\ s \in granted

\* The API answers 404.
ProveAbsent(a) ==
    /\ Accepting(a, "absent")
    /\ Answers(Api)
    /\ recorded = None
    /\ Onward(a, "submit")
    /\ UNCHANGED <<vars, topic, recorded>>

\* Ingest publishes one message more; the run has its id, or fails.
Submit(a, from, kind, to) ==
    /\ Accepting(a, from)
    /\ Answers(Ingest)
    /\ topic' = topic \cup {<<a, kind>>}
    /\ Onward(a, to) \/ Onward(a, "failed")
    /\ UNCHANGED <<vars, recorded>>

\* Mutant: the stored message id is not compared.
ReadBackHolds_AnyMessage(a) == recorded # None

\* acceptance-readback: recorded from the run's own first message
ReadBackHolds(a) == recorded = <<a, "first">>

\* A 404 leaves the run polling; thirty of them, and any other answer, end it.
PollApi(a) ==
    /\ Accepting(a, "poll")
    /\ Answers(Api)
    /\ ReadBackHolds(a)
    /\ Onward(a, "replay")
    /\ UNCHANGED <<vars, topic, recorded>>

ReadAgain(a) ==
    /\ Accepting(a, "again")
    /\ Answers(Api)
    /\ ReadBackHolds(a)
    /\ Onward(a, "deny")
    /\ UNCHANGED <<vars, topic, recorded>>

\* The processor answers 403: PHASE5_ACCEPTANCE_COMPLETE.
BeDenied(a) ==
    /\ Accepting(a, "deny")
    /\ Processor \in granted
    /\ Onward(a, "done")
    /\ UNCHANGED <<vars, topic, recorded>>

FailAcceptance(a) ==
    /\ accept[a].stage \notin {"new", "done", "failed"}
    /\ Onward(a, "failed")
    /\ UNCHANGED <<vars, topic, recorded>>

Accept(a) ==
    \/ \E l \in Releases : StartAcceptance(a, l)
    \/ ResolveService(a) \/ ResolvePolicy(a) \/ ProveAbsent(a)
    \/ Submit(a, "submit", "first", "poll") \/ PollApi(a)
    \/ Submit(a, "replay", "replay", "again") \/ ReadAgain(a)
    \/ BeDenied(a) \/ FailAcceptance(a)

\* The processor is handed a message, for the first time or again.
Deliver(m) ==
    /\ m \in topic
    /\ Answers(Processor)
    /\ recorded = None
    /\ recorded' = m
    /\ UNCHANGED <<vars, accept, topic>>

-----------------------------------------------------------------------------
Next ==
    \/ DeployNext /\ UNCHANGED acceptance
    \/ \E a \in AcceptRuns : Accept(a)
    \/ \E m \in Messages : Deliver(m)

Spec == AcceptInit /\ [][Next]_allvars

-----------------------------------------------------------------------------
\* Every variable has its type.
TypeOK ==
    /\ DeployTypeOK
    /\ accept \in [AcceptRuns -> AcceptStates]
    /\ topic \subseteq Messages
    /\ recorded \in Messages \cup {None}

\* The product is accepted at most once, however runs overlap and messages
\* are late or out of order: the event is recorded from the message of the
\* run that reports completion, and from none that it or another run has
\* sent since.  And what it has accepted is, unless the owner deletes services
\* by hand, a deployment that is of the run's release in all its parts.
AcceptedOnce ==
    \A a \in AcceptRuns : Accepting(a, "done") =>
        /\ recorded = <<a, "first">>
        /\ <<a, "replay">> \in topic
        /\ \A b \in AcceptRuns : Accepting(b, "done") => a = b
        /\ deletions = 0 => Deployed(accept[a].release)

=============================================================================
