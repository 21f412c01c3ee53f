------------------------ MODULE ObservationPipeline ------------------------
(***************************************************************************)
(* The product data path of src/services/resilio_app: the ingest service   *)
(* canonicalises a deployment observation and publishes it to Pub/Sub, the *)
(* processor receives the push deliveries and records each one in          *)
(* Firestore create-if-absent, the API reads the record back.              *)
(*                                                                         *)
(* The processor is a threaded HTTP server: every delivery is a handler of *)
(* its own that makes up to four provider calls, and the state may change  *)
(* between any two of them.  A call may fail before it takes effect, or    *)
(* take effect and lose its answer; the instance may die between calls;    *)
(* Pub/Sub redelivers what was not acknowledged and may redeliver what     *)
(* was.                                                                    *)
(*                                                                         *)
(* Hashes are injective and are represented by what they are a hash of: an *)
(* event id is its deployment, a payload digest is the payload's content.  *)
(***************************************************************************)
EXTENDS Naturals, FiniteSets

CONSTANTS
    Events,    \* event ids: one per (service, environment, deployment id)
    Contents,  \* canonical payload contents of an event
    Mids,      \* Pub/Sub message ids
    RawForms,  \* byte forms of the push request that carries a message
    Handlers,  \* requests the processor can have in flight
    Others,    \* messages that publishers other than ingest may send
    None       \* no document, no message, no answer

VARIABLES
    topic,       \* Mids -> the published message, or None
    receipts,    \* message ids ingest has returned with a 202
    handler,     \* Handlers -> the state of the processor's request
    deployment_events,            \* Events -> document, or None
    deployment_event_rejections,  \* rejection ids -> document, or None
    acked,       \* message ids Pub/Sub has received a 2xx for
    answer       \* Events -> what the API has last answered 200 with, or None

vars == <<topic, receipts, handler, deployment_events,
          deployment_event_rejections, acked, answer>>

store == <<deployment_events, deployment_event_rejections>>

----------------------------------------------------------------------------
\* What travels.  "reordered" is a valid observation whose bytes are not the
\* canonical ones (evidence or keys in another order, white space); "invalid"
\* fails the schema.  "unknown" attributes are refused with the envelope,
\* "mismatch" ones parse but name another event or digest.

Forms == {"canonical", "reordered", "invalid"}
Attributes == {"match", "mismatch", "unknown"}
Observations == [event : Events, content : Contents, form : Forms]
Messages == [event : Events, content : Contents, form : Forms, attrs : Attributes]

Codes == {"PUSH_ATTRIBUTES_INVALID", "SCHEMA_VALUE_INVALID", "NON_CANONICAL_PAYLOAD",
          "PERMANENT_IDENTITY_MISMATCH", "PERMANENT_IMMUTABLE_DEPLOYMENT_CONFLICT"}

Conflict == "PERMANENT_IMMUTABLE_DEPLOYMENT_CONFLICT"

\* validate and jcs: an accepted observation becomes its canonical bytes,
\* whatever order its evidence came in.
Canonicalised_KeepsOrder(o) == o
Canonicalised(o) == [o EXCEPT !.form = "canonical"]

\* _message, event_from_bytes(require_canonical=True) and the attribute
\* comparison, in that order: the code of the first check that fails, or
\* None for a message that may be stored.
PermanentFailureOf(m) ==
    IF m.attrs = "unknown" THEN "PUSH_ATTRIBUTES_INVALID"
    ELSE IF m.form = "invalid" THEN "SCHEMA_VALUE_INVALID"
    ELSE IF m.form = "reordered" THEN "NON_CANONICAL_PAYLOAD"
    ELSE IF m.attrs = "mismatch" THEN "PERMANENT_IDENTITY_MISMATCH"
    ELSE None

----------------------------------------------------------------------------
\* Documents.

EventDocs == [event : Events, content : Contents, first_pubsub_message_id : Mids]

RejectionIds == Mids \cup (Mids \X RawForms)

RejectionDocs ==
    [rejection_code : Codes, pubsub_message_id : Mids \cup {None},
     event : Events \cup {None}, content : Contents \cup {None},
     raw : Mids \X RawForms]

ASSUME NoneIsNothing ==
    /\ None \notin Messages \cup [event : Events, content : Contents, storable : BOOLEAN]
    /\ None \notin Mids \cup Contents \cup Codes \cup EventDocs \cup RejectionDocs

ASSUME OthersAreMessages == Others \subseteq Messages

ASSUME RejectionIdsDiffer == Mids \cap (Mids \X RawForms) = {}

\* The message id is known to the exception handler only when the whole
\* envelope was accepted, the identity only when the payload was.
KnownMid(m, code) == IF code = "PUSH_ATTRIBUTES_INVALID" THEN None ELSE m

IdentityKnown(code) == code \in {"PERMANENT_IDENTITY_MISMATCH", Conflict}

\* _rejection_id: by message id when it is known, by the request's bytes
\* otherwise.
RejectionId(m, raw, code) ==
    IF KnownMid(m, code) = None THEN <<m, raw>> ELSE m

\* The digest in a rejection is the rejected payload's own.
RejectedContent_OnRecord(m, code) ==
    IF deployment_events[topic[m].event] = None THEN None
    ELSE deployment_events[topic[m].event].content
RejectedContent(m, code) ==
    IF IdentityKnown(code) THEN topic[m].content ELSE None

RejectionDoc(m, raw, code) ==
    [rejection_code    |-> code,
     pubsub_message_id |-> KnownMid(m, code),
     event   |-> IF IdentityKnown(code) THEN topic[m].event ELSE None,
     content |-> RejectedContent(m, code),
     raw     |-> <<m, raw>>]

----------------------------------------------------------------------------
\* A processor request: where it is, the message and bytes it carries, and
\* the code of the PermanentFailure it has raised.

Pcs == {"idle", "create", "read", "reject", "reject_read", "respond"}

Requests == [pc : Pcs, mid : Mids \cup {None}, raw : RawForms \cup {None},
             code : Codes \cup {None}]

Idle == [pc |-> "idle", mid |-> None, raw |-> None, code |-> None]

At(h, pc) == handler[h].pc = pc

Goto(h, pc) == handler' = [handler EXCEPT ![h].pc = pc]

Raise(h, code) ==
    handler' = [handler EXCEPT ![h].pc = "reject", ![h].code = code]

\* A 503, a lost answer or a dead instance: Pub/Sub sees no 2xx and the
\* request's local state is gone.
Abandon(h) == handler' = [handler EXCEPT ![h] = Idle]

Event(h) == topic[handler[h].mid].event

Content(h) == topic[handler[h].mid].content

RejectionIdOf(h) == RejectionId(handler[h].mid, handler[h].raw, handler[h].code)

RejectionDocOf(h) == RejectionDoc(handler[h].mid, handler[h].raw, handler[h].code)

Init ==
    /\ topic = [m \in Mids |-> None]
    /\ receipts = {}
    /\ handler = [h \in Handlers |-> Idle]
    /\ deployment_events = [e \in Events |-> None]
    /\ deployment_event_rejections = [r \in RejectionIds |-> None]
    /\ acked = {}
    /\ answer = [e \in Events |-> None]

----------------------------------------------------------------------------
\* Ingest.  Publish succeeds or fails with nothing published (no step), or
\* the message is published and the 202 is lost: the client's retry is then
\* a second message of the same observation.

IngestPublish(o, m) ==
    /\ o.form # "invalid"
    /\ topic[m] = None
    /\ LET p == Canonicalised(o) IN
       topic' = [topic EXCEPT ![m] =
           [event |-> p.event, content |-> p.content, form |-> p.form, attrs |-> "match"]]
    /\ UNCHANGED <<handler, store, acked, answer>>

IngestAccepted(o, m) ==
    /\ IngestPublish(o, m)
    /\ receipts' = receipts \cup {m}

IngestAnswerLost(o, m) ==
    /\ IngestPublish(o, m)
    /\ UNCHANGED receipts

\* Any other message that reaches the processor's push endpoint.
PublishOther(msg, m) ==
    /\ topic[m] = None
    /\ topic' = [topic EXCEPT ![m] = msg]
    /\ UNCHANGED <<receipts, handler, store, acked, answer>>

----------------------------------------------------------------------------
\* Processor.

\* The first provider call once the local checks are made.
FirstCall(code) == IF code = None THEN "create" ELSE "reject"

\* Pub/Sub delivers a message, again if it pleases, even while an earlier
\* delivery is being handled.  All the checks that need no provider are made
\* before the first call.
Deliver(h, m, raw) ==
    /\ At(h, "idle")
    /\ topic[m] # None
    /\ LET code == PermanentFailureOf(topic[m]) IN
       handler' = [handler EXCEPT ![h] =
           [pc |-> FirstCall(code),
            mid |-> m, raw |-> raw, code |-> code]]
    /\ UNCHANGED <<topic, receipts, store, acked, answer>>

\* Firestore creates a document only where there is none.
Creatable_Upsert(doc) == TRUE
Creatable(doc) == doc = None

\* create_event requires the message id it records as the first.
FirstMessage_Missing(h) == None
FirstMessage(h) == handler[h].mid

\* create_event: the POST that creates the document if there is none.
CommitEvent(h) ==
    /\ At(h, "create")
    /\ Creatable(deployment_events[Event(h)])
    /\ deployment_events' = [deployment_events EXCEPT ![Event(h)] =
           [event |-> Event(h), content |-> Content(h),
            first_pubsub_message_id |-> FirstMessage(h)]]
    /\ UNCHANGED <<topic, receipts, deployment_event_rejections, acked, answer>>

CreateEvent(h) == CommitEvent(h) /\ Goto(h, "respond")

CreateEventAnswerLost(h) == CommitEvent(h) /\ Abandon(h)

CreateEventExists(h) ==
    /\ At(h, "create")
    /\ deployment_events[Event(h)] # None
    /\ Goto(h, "read")
    /\ UNCHANGED <<topic, receipts, store, acked, answer>>

\* The GET that follows AlreadyExists.  The first message id and the time of
\* first observation are not compared.
SamePayload_Always(doc, event, content) == TRUE
SamePayload(doc, event, content) == doc.event = event /\ doc.content = content

ReconcileEvent(h) ==
    /\ At(h, "read")
    /\ deployment_events[Event(h)] # None
    /\ IF SamePayload(deployment_events[Event(h)], Event(h), Content(h))
       THEN Goto(h, "respond")
       ELSE Raise(h, Conflict)
    /\ UNCHANGED <<topic, receipts, store, acked, answer>>

\* record_rejection: the same create-or-reconcile over the rejections.
CommitRejection(h) ==
    /\ At(h, "reject")
    /\ Creatable(deployment_event_rejections[RejectionIdOf(h)])
    /\ deployment_event_rejections' =
           [deployment_event_rejections EXCEPT ![RejectionIdOf(h)] = RejectionDocOf(h)]
    /\ UNCHANGED <<topic, receipts, deployment_events, acked, answer>>

CreateRejection(h) == CommitRejection(h) /\ Goto(h, "respond")

CreateRejectionAnswerLost(h) == CommitRejection(h) /\ Abandon(h)

CreateRejectionExists(h) ==
    /\ At(h, "reject")
    /\ deployment_event_rejections[RejectionIdOf(h)] # None
    /\ Goto(h, "reject_read")
    /\ UNCHANGED <<topic, receipts, store, acked, answer>>

\* Every field but the time is compared, the digest of the request's bytes
\* among them: a mismatch is REJECTION_ID_CONFLICT, answered 503.
SameRejection_Never(doc, rejection) == FALSE
SameRejection(doc, rejection) == doc = rejection

ReconcileRejection(h) ==
    /\ At(h, "reject_read")
    /\ IF SameRejection(deployment_event_rejections[RejectionIdOf(h)], RejectionDocOf(h))
       THEN Goto(h, "respond")
       ELSE Abandon(h)
    /\ UNCHANGED <<topic, receipts, store, acked, answer>>

\* The 200, acknowledged or rejected, reaches Pub/Sub.
Respond(h) ==
    /\ At(h, "respond")
    /\ acked' = acked \cup {handler[h].mid}
    /\ Abandon(h)
    /\ UNCHANGED <<topic, receipts, store, answer>>

\* A provider call fails without effect (503 PROVIDER_RETRYABLE,
\* REJECTION_WRITE_FAILED or INTERNAL_RETRYABLE), the answer does not reach
\* Pub/Sub, or the instance dies.
Fail_AnswersRejected(h) ==
    /\ ~At(h, "idle")
    /\ IF At(h, "reject") THEN Goto(h, "respond") ELSE Abandon(h)
    /\ UNCHANGED <<topic, receipts, store, acked, answer>>

Fail(h) ==
    /\ ~At(h, "idle")
    /\ Abandon(h)
    /\ UNCHANGED <<topic, receipts, store, acked, answer>>

----------------------------------------------------------------------------
\* The read API answers 200 only with a document that names the event it was
\* asked for; an absent one is a 404 and a damaged one a 503, without an
\* answer.  The checks on the stored payload re-derive the two hashes.
ReadEvent(e) ==
    /\ deployment_events[e] # None
    /\ deployment_events[e].event = e
    /\ answer' = [answer EXCEPT ![e] = deployment_events[e]]
    /\ UNCHANGED <<topic, receipts, handler, store, acked>>

----------------------------------------------------------------------------
Process(h) ==
    \/ \E m \in Mids, raw \in RawForms : Deliver(h, m, raw)
    \/ CreateEvent(h)
    \/ CreateEventAnswerLost(h)
    \/ CreateEventExists(h)
    \/ ReconcileEvent(h)
    \/ CreateRejection(h)
    \/ CreateRejectionAnswerLost(h)
    \/ CreateRejectionExists(h)
    \/ ReconcileRejection(h)
    \/ Respond(h)
    \/ Fail(h)

Next ==
    \/ \E o \in Observations, m \in Mids : IngestAccepted(o, m)
    \/ \E o \in Observations, m \in Mids : IngestAnswerLost(o, m)
    \/ \E msg \in Others, m \in Mids : PublishOther(msg, m)
    \/ \E h \in Handlers : Process(h)
    \/ \E e \in Events : ReadEvent(e)

Spec == Init /\ [][Next]_vars

\* Pub/Sub retries an unacknowledged delivery without end, no provider call
\* fails for ever for the same message, and a request does not hang; nothing
\* is assumed of clients.  Each call needs its own fairness: one that fails
\* sends the message back to its first call.
Some(m, Step(_)) == \E h \in Handlers : handler[h].mid = m /\ Step(h)

FairSpec ==
    /\ Spec
    /\ \A h \in Handlers : WF_vars(Process(h))
    /\ \A m \in Mids :
        /\ SF_vars(m \notin acked /\ \E h \in Handlers, raw \in RawForms : Deliver(h, m, raw))
        /\ SF_vars(Some(m, CreateEvent) \/ Some(m, CreateEventExists))
        /\ SF_vars(Some(m, ReconcileEvent))
        /\ SF_vars(Some(m, CreateRejection) \/ Some(m, CreateRejectionExists))
        /\ SF_vars(Some(m, ReconcileRejection))
        /\ SF_vars(Some(m, Respond))

----------------------------------------------------------------------------
\* Properties.

TypeOK ==
    /\ topic \in [Mids -> Messages \cup {None}]
    /\ receipts \subseteq Mids
    /\ handler \in [Handlers -> Requests]
    /\ deployment_events \in [Events -> EventDocs \cup {None}]
    /\ deployment_event_rejections \in [RejectionIds -> RejectionDocs \cup {None}]
    /\ acked \subseteq Mids
    /\ answer \in [Events -> EventDocs \cup {None}]

\* What the store says of message m: its payload is the recorded one, or the
\* rejection of one of its deliveries is on record.
Recorded(m) ==
    /\ PermanentFailureOf(topic[m]) = None
    /\ deployment_events[topic[m].event] # None
    /\ deployment_events[topic[m].event].content = topic[m].content

Rejected(m) ==
    \E r \in {m} \cup ({m} \X RawForms) : deployment_event_rejections[r] # None

\* A message is acknowledged only when its outcome is durable: "never
\* acknowledge before recording it" (core.py:29), across lost answers,
\* crashes and overlapping deliveries.
AckedIsDurable ==
    \A m \in acked : topic[m] # None /\ (Recorded(m) \/ Rejected(m))

\* No message is both the recorded observation and a rejected one, whatever
\* became of its other deliveries: the two verdicts of dispatch exclude each
\* other over all the redeliveries of one message.
OneVerdict ==
    \A m \in Mids : topic[m] # None => ~(Recorded(m) /\ Rejected(m))

\* Two deliveries of the same bytes never raise REJECTION_ID_CONFLICT: a
\* redelivered rejection reconciles with the document on record, so it is
\* acknowledged instead of being retried for ever.
SameBytesReconcile ==
    \A h \in Handlers :
        At(h, "reject_read") =>
            LET doc == deployment_event_rejections[RejectionIdOf(h)] IN
            doc.raw = RejectionDocOf(h).raw => doc = RejectionDocOf(h)

\* What ingest has answered 202 for can be refused by the processor only
\* because another payload of the same deployment was recorded first.
ReceiptRefusedOnlyForConflict ==
    \A m \in receipts, r \in RejectionIds :
        LET doc == deployment_event_rejections[r] IN
        doc # None /\ doc.raw[1] = m =>
            /\ doc.rejection_code = Conflict
            /\ deployment_events[doc.event] # None
            /\ deployment_events[doc.event].content # doc.content

\* A recorded observation is the payload of the message its document names,
\* and that message was one the processor may store.
RecordHasItsMessage ==
    \A e \in Events :
        deployment_events[e] # None =>
            LET m == deployment_events[e].first_pubsub_message_id IN
            /\ topic[m] # None
            /\ topic[m].event = e /\ deployment_events[e].event = e
            /\ Recorded(m)

\* Why code may be the verdict on m: a check of its own fails, or another
\* payload holds its event.
Refusable(m, code) ==
    \/ code = PermanentFailureOf(topic[m]) /\ code # None
    \/ /\ code = Conflict
       /\ PermanentFailureOf(topic[m]) = None
       /\ deployment_events[topic[m].event] # None
       /\ deployment_events[topic[m].event].content # topic[m].content

\* What a request relies on between two of its calls still holds when it
\* makes the next one, whatever the other requests have done.
RequestInv(h) ==
    LET r == handler[h] IN
    /\ r.pc = "idle" => r = Idle
    /\ r.pc # "idle" => r.mid \in Mids /\ r.raw \in RawForms /\ topic[r.mid] # None
    /\ r.pc \in {"create", "read"} =>
           r.code = None /\ PermanentFailureOf(topic[r.mid]) = None
    /\ r.pc = "read" => deployment_events[Event(h)] # None
    /\ r.pc \in {"reject", "reject_read"} => Refusable(r.mid, r.code)
    /\ r.pc = "reject_read" => deployment_event_rejections[RejectionIdOf(h)] # None
    /\ r.pc = "respond" => Recorded(r.mid) \/ Rejected(r.mid)

\* A rejection on record is the one its message and bytes call for.
RejectionInv ==
    \A r \in RejectionIds :
        deployment_event_rejections[r] # None =>
            \E m \in Mids, raw \in RawForms, code \in Codes :
                /\ topic[m] # None
                /\ Refusable(m, code)
                /\ r = RejectionId(m, raw, code)
                /\ deployment_event_rejections[r] = RejectionDoc(m, raw, code)

\* The inductive invariant of the proofs: the safety properties above that
\* are not consequences of it, and what they need of requests in flight.
IInv ==
    /\ TypeOK
    /\ \A h \in Handlers : RequestInv(h)
    /\ RejectionInv
    /\ RecordHasItsMessage
    /\ AckedIsDurable
    /\ \A m \in receipts : topic[m] # None /\ PermanentFailureOf(topic[m]) = None
    /\ \A e \in Events : answer[e] # None => answer[e] = deployment_events[e]

\* The API's answer for an event never changes once it has given one: neither
\* a conflicting payload nor a redelivery alters what a client has read.
AnswersNeverChange ==
    [][\A e \in Events : answer[e] # None => answer'[e] = answer[e]]_vars

\* The promise of the pipeline, without handlers, calls or redeliveries.
Ledger == INSTANCE ObservationLedger WITH
    offered <- [m \in Mids |-> IF topic[m] = None THEN None ELSE
                   [event |-> topic[m].event, content |-> topic[m].content,
                    storable |-> PermanentFailureOf(topic[m]) = None]],
    ledger  <- [e \in Events |-> IF deployment_events[e] = None THEN None
                                 ELSE deployment_events[e].content],
    refused <- {m \in Mids : Rejected(m)},
    settled <- acked

\* The pipeline implements the first-write-wins ledger: every provider call
\* that takes effect is one step of it or none.
ImplementsLedger == Ledger!Spec

\* Every published message is acknowledged in the end, under FairSpec and
\* when its redeliveries carry the same bytes.
EveryMessageSettles ==
    \A m \in Mids : (topic[m] # None) ~> (m \in acked)

============================================================================
