--------------------- MODULE ObservationPipelineProofs ---------------------
(***************************************************************************)
(* Proofs about the observation pipeline, for any number of events,        *)
(* payloads, messages, request bytes and handlers.  The argument: the      *)
(* topic and the two collections only grow, so whatever a request has read *)
(* stays true until its next call.                                         *)
(***************************************************************************)
EXTENDS ObservationPipeline, TLAPS

\* The verdict of the local checks is a code or None.
LEMMA PermanentFailureType ==
    ASSUME NEW msg \in Messages
    PROVE  PermanentFailureOf(msg) \in (Codes \cup {None}) \ {Conflict}
<1>1. None # Conflict
  BY NoneIsNothing DEF Codes, Conflict
<1> QED
  BY <1>1 DEF PermanentFailureOf, Codes, Conflict

\* The code of a request that is rejecting, and the message it is about.
LEMMA RejectionTypes ==
    ASSUME TypeOK, NEW m \in Mids, topic[m] # None, NEW raw \in RawForms, NEW code \in Codes
    PROVE  /\ RejectionId(m, raw, code) \in RejectionIds
           /\ RejectionDoc(m, raw, code) \in RejectionDocs
<1>1. topic[m] \in Messages
  BY DEF TypeOK
<1>2. topic[m].event \in Events /\ topic[m].content \in Contents
  BY <1>1 DEF Messages
<1>3. KnownMid(m, code) \in Mids \cup {None}
  BY DEF KnownMid
<1>4. RejectedContent(m, code) \in Contents \cup {None}
  BY <1>2 DEF RejectedContent
<1>5. RejectionDoc(m, raw, code) \in RejectionDocs
  BY <1>2, <1>3, <1>4 DEF RejectionDoc, RejectionDocs
<1> QED
  BY <1>5 DEF RejectionId, RejectionIds

----------------------------------------------------------------------------
\* Type correctness.

\* The initial state is well typed.
LEMMA InitType == ASSUME Init PROVE TypeOK
<1>1. Idle \in Requests
  BY DEF Idle, Requests, Pcs
<1> QED
  BY <1>1 DEF Init, TypeOK

\* The three ways a handler changes keep its type.
LEMMA HandlerTypes ==
    ASSUME TypeOK, NEW h \in Handlers
    PROVE  /\ \A pc \in Pcs : Goto(h, pc) => handler' \in [Handlers -> Requests]
           /\ \A code \in Codes : Raise(h, code) => handler' \in [Handlers -> Requests]
           /\ Abandon(h) => handler' \in [Handlers -> Requests]
<1>1. handler \in [Handlers -> Requests]
  BY DEF TypeOK
<1>2. handler[h] \in Requests
  BY <1>1
<1>3. ASSUME NEW pc \in Pcs, Goto(h, pc) PROVE handler' \in [Handlers -> Requests]
  <2>1. [handler[h] EXCEPT !.pc = pc] \in Requests
    BY <1>2 DEF Requests
  <2> QED
    BY <1>1, <1>3, <2>1 DEF Goto
<1>4. ASSUME NEW code \in Codes, Raise(h, code) PROVE handler' \in [Handlers -> Requests]
  <2>1. [handler[h] EXCEPT !.pc = "reject", !.code = code] \in Requests
    BY <1>2 DEF Requests, Pcs
  <2> QED
    BY <1>1, <1>4, <2>1 DEF Raise
<1>5. ASSUME Abandon(h) PROVE handler' \in [Handlers -> Requests]
  BY <1>1, <1>5 DEF Abandon, Idle, Requests, Pcs
<1> QED
  BY <1>3, <1>4, <1>5

\* Every step keeps every variable in its type.
LEMMA TypeStep ==
    ASSUME TypeOK, \A h \in Handlers : RequestInv(h), [Next]_vars
    PROVE  TypeOK'
<1>1. ASSUME NEW o \in Observations, NEW m \in Mids,
             IngestAccepted(o, m) \/ IngestAnswerLost(o, m)
      PROVE  TypeOK'
  BY <1>1 DEF TypeOK, IngestAccepted, IngestAnswerLost, IngestPublish, Canonicalised,
              Observations, Messages, Forms, Attributes, store
<1>2. ASSUME NEW msg \in Others, NEW m \in Mids, PublishOther(msg, m) PROVE TypeOK'
  BY <1>2, OthersAreMessages DEF TypeOK, PublishOther, store
<1>3. ASSUME NEW h \in Handlers, Process(h) PROVE TypeOK'
  <2> DEFINE r == handler[h]
  <2>1. RequestInv(h)
    OBVIOUS
  <2>2. CASE \E m \in Mids, raw \in RawForms : Deliver(h, m, raw)
    <3>1. PICK m \in Mids, raw \in RawForms : Deliver(h, m, raw)
      BY <2>2
    <3>2. topic[m] \in Messages
      BY <3>1 DEF Deliver, TypeOK
    <3>3. handler' \in [Handlers -> Requests]
      BY <3>1, <3>2, PermanentFailureType DEF Deliver, TypeOK, Requests, Pcs, FirstCall
    <3> QED
      BY <3>1, <3>3 DEF Deliver, TypeOK, store
  <2>3. ASSUME CommitEvent(h), handler' \in [Handlers -> Requests] PROVE TypeOK'
    <3>1. At(h, "create")
      BY <2>3 DEF CommitEvent
    <3>2. r.mid \in Mids /\ topic[r.mid] \in Messages
      BY <2>1, <3>1 DEF RequestInv, At, TypeOK
    <3>3. [event |-> Event(h), content |-> Content(h),
           first_pubsub_message_id |-> FirstMessage(h)] \in EventDocs
      BY <3>2 DEF EventDocs, Event, Content, FirstMessage, Messages
    <3> QED
      BY <2>3, <3>2, <3>3 DEF CommitEvent, TypeOK
  <2>4. CASE CreateEvent(h) \/ CreateEventAnswerLost(h)
    BY <2>3, <2>4, HandlerTypes DEF CreateEvent, CreateEventAnswerLost, Pcs
  <2>5. CASE CreateEventExists(h) \/ CreateRejectionExists(h)
    BY <2>5, HandlerTypes DEF CreateEventExists, CreateRejectionExists, TypeOK, Pcs, store
  <2>6. CASE ReconcileEvent(h)
    BY <2>6, HandlerTypes DEF ReconcileEvent, TypeOK, Pcs, Codes, Conflict, store
  <2>7. ASSUME CommitRejection(h), handler' \in [Handlers -> Requests] PROVE TypeOK'
    <3>1. At(h, "reject")
      BY <2>7 DEF CommitRejection
    <3>2. r.mid \in Mids /\ r.raw \in RawForms /\ topic[r.mid] # None /\ r.code \in Codes
      <4>1. Refusable(r.mid, r.code) /\ r.code \in Codes \cup {None}
        BY <2>1, <3>1 DEF RequestInv, At, TypeOK, Requests
      <4>2. None # Conflict
        BY NoneIsNothing DEF Codes, Conflict
      <4> QED
        BY <2>1, <3>1, <4>1, <4>2 DEF RequestInv, At, Refusable
    <3>3. RejectionDocOf(h) \in RejectionDocs
      BY <3>2, RejectionTypes DEF RejectionDocOf
    <3> QED
      BY <2>7, <3>3 DEF CommitRejection, TypeOK
  <2>8. CASE CreateRejection(h) \/ CreateRejectionAnswerLost(h)
    BY <2>7, <2>8, HandlerTypes DEF CreateRejection, CreateRejectionAnswerLost, Pcs
  <2>9. CASE ReconcileRejection(h)
    BY <2>9, HandlerTypes DEF ReconcileRejection, TypeOK, Pcs, store
  <2>10. CASE Respond(h)
    <3>1. r.mid \in Mids
      BY <2>1, <2>10 DEF RequestInv, Respond, At
    <3> QED
      BY <2>10, <3>1, HandlerTypes DEF Respond, TypeOK, store
  <2>11. CASE Fail(h)
    BY <2>11, HandlerTypes DEF Fail, TypeOK, store
  <2> QED
    BY <1>3, <2>2, <2>4, <2>5, <2>6, <2>8, <2>9, <2>10, <2>11 DEF Process
<1>4. ASSUME NEW e \in Events, ReadEvent(e) PROVE TypeOK'
  BY <1>4 DEF ReadEvent, TypeOK, store
<1>5. CASE UNCHANGED vars
  BY <1>5 DEF vars, TypeOK
<1> QED
  BY <1>1, <1>2, <1>3, <1>4, <1>5 DEF Next

----------------------------------------------------------------------------
\* The store only grows, and so does the topic.

Growing ==
    /\ \A m \in Mids : topic[m] # None => topic'[m] = topic[m]
    /\ \A e \in Events :
          deployment_events[e] # None => deployment_events'[e] = deployment_events[e]
    /\ \A r \in RejectionIds :
          deployment_event_rejections[r] # None =>
              deployment_event_rejections'[r] = deployment_event_rejections[r]

\* Messages and documents are written once: no step changes one that exists.
LEMMA StepGrows == ASSUME TypeOK, [Next]_vars PROVE Growing
<1>1. ASSUME NEW o \in Observations, NEW m \in Mids,
             IngestAccepted(o, m) \/ IngestAnswerLost(o, m)
      PROVE  Growing
  BY <1>1 DEF TypeOK, Growing, IngestAccepted, IngestAnswerLost, IngestPublish, store
<1>2. ASSUME NEW msg \in Others, NEW m \in Mids, PublishOther(msg, m) PROVE Growing
  BY <1>2 DEF TypeOK, Growing, PublishOther, store
<1>3. ASSUME NEW h \in Handlers, Process(h) PROVE Growing
  <2>1. CASE CommitEvent(h)
    BY <2>1 DEF CommitEvent, Creatable, TypeOK, Growing
  <2>2. CASE CommitRejection(h)
    BY <2>2 DEF CommitRejection, Creatable, TypeOK, Growing
  <2>3. CASE UNCHANGED <<topic, store>>
    BY <2>3 DEF Growing, store
  <2> QED
    BY <1>3, <2>1, <2>2, <2>3 DEF Process, Deliver, CreateEvent, CreateEventAnswerLost,
       CreateEventExists, ReconcileEvent, CreateRejection, CreateRejectionAnswerLost,
       CreateRejectionExists, ReconcileRejection, Respond, Fail, store
<1>4. ASSUME NEW e \in Events, ReadEvent(e) PROVE Growing
  BY <1>4 DEF ReadEvent, Growing, store
<1>5. CASE UNCHANGED vars
  BY <1>5 DEF vars, Growing
<1> QED
  BY <1>1, <1>2, <1>3, <1>4, <1>5 DEF Next

\* What was recorded, rejected or refusable stays so.
LEMMA VerdictsStay ==
    ASSUME TypeOK, Growing, NEW m \in Mids, topic[m] # None
    PROVE  /\ topic'[m] = topic[m]
           /\ Recorded(m) => Recorded(m)'
           /\ Rejected(m) => Rejected(m)'
           /\ \A code : Refusable(m, code) => Refusable(m, code)'
           /\ \A raw, code : RejectionDoc(m, raw, code)' = RejectionDoc(m, raw, code)
<1>1. topic'[m] = topic[m]
  BY DEF Growing
<1>2. topic[m].event \in Events
  BY DEF TypeOK, Messages
<1>3. deployment_events[topic[m].event] # None =>
          deployment_events'[topic[m].event] = deployment_events[topic[m].event]
  BY <1>2 DEF Growing
<1>4. Recorded(m) => Recorded(m)'
  BY <1>1, <1>3 DEF Recorded
<1>5. Rejected(m) => Rejected(m)'
  BY DEF Rejected, Growing, RejectionIds
<1>6. \A code : Refusable(m, code) => Refusable(m, code)'
  BY <1>1, <1>3 DEF Refusable
<1>7. \A raw, code : RejectionDoc(m, raw, code)' = RejectionDoc(m, raw, code)
  BY <1>1 DEF RejectionDoc, RejectedContent
<1> QED
  BY <1>1, <1>4, <1>5, <1>6, <1>7

\* A request that does not move keeps what it relies on.
LEMMA RequestStays ==
    ASSUME TypeOK, Growing, NEW h \in Handlers, RequestInv(h), handler'[h] = handler[h]
    PROVE  RequestInv(h)'
<1> DEFINE r == handler[h]
<1>1. CASE r.pc = "idle"
  BY <1>1 DEF RequestInv
<1>2. CASE r.pc # "idle"
  <2>1. r.mid \in Mids /\ r.raw \in RawForms /\ topic[r.mid] # None
    BY <1>2 DEF RequestInv
  <2>2. topic'[r.mid] = topic[r.mid]
    BY <2>1, VerdictsStay
  <2>3. topic[r.mid].event \in Events
    BY <2>1 DEF TypeOK, Messages
  <2>4. r.pc = "read" => (deployment_events[Event(h)] # None)'
    BY <2>2, <2>3 DEF RequestInv, Growing, Event
  <2>5. RejectionIdOf(h)' = RejectionIdOf(h)
    BY DEF RejectionIdOf
  <2>6. RejectionIdOf(h) \in RejectionIds
    BY <2>1 DEF RejectionIdOf, RejectionId, RejectionIds
  <2>7. r.pc = "reject_read" => (deployment_event_rejections[RejectionIdOf(h)] # None)'
    BY <2>5, <2>6 DEF RequestInv, Growing
  <2>8. r.pc \in {"reject", "reject_read"} => Refusable(r.mid, r.code)'
    BY <2>1, VerdictsStay DEF RequestInv
  <2>9. r.pc = "respond" => Recorded(r.mid)' \/ Rejected(r.mid)'
    BY <2>1, VerdictsStay DEF RequestInv
  <2> QED
    BY <1>2, <2>1, <2>2, <2>4, <2>7, <2>8, <2>9 DEF RequestInv
<1> QED
  BY <1>1, <1>2

----------------------------------------------------------------------------
\* Each part of the invariant is preserved.

\* A step of one request leaves valid what every request relies on.
LEMMA RequestStep ==
    ASSUME IInv, Growing, TypeOK', [Next]_vars, NEW h \in Handlers
    PROVE  RequestInv(h)'
<1> DEFINE r == handler[h]
<1>1. TypeOK /\ RequestInv(h) /\ handler \in [Handlers -> Requests]
  BY DEF IInv, TypeOK
<1>2. CASE handler'[h] = handler[h]
  BY <1>1, <1>2, RequestStays
<1>3. CASE handler'[h] # handler[h]
  <2>1. PICK g \in Handlers : Process(g)
    BY <1>3 DEF Next, IngestAccepted, IngestAnswerLost, IngestPublish, PublishOther,
                ReadEvent, vars
  <2>2. g = h
    BY <1>1, <1>3, <2>1 DEF Process, Deliver, CreateEvent, CreateEventAnswerLost,
       CreateEventExists, ReconcileEvent, CreateRejection, CreateRejectionAnswerLost,
       CreateRejectionExists, ReconcileRejection, Respond, Fail, CommitEvent,
       CommitRejection, Goto, Raise, Abandon
  <2>3. r.pc # "idle" => r.mid \in Mids /\ r.raw \in RawForms /\ topic[r.mid] # None
    BY <1>1 DEF RequestInv
  <2>4. r.pc # "idle" =>
           /\ topic[r.mid] \in Messages
           /\ Event(h) \in Events
           /\ topic'[r.mid] = topic[r.mid]
    BY <1>1, <2>3, VerdictsStay DEF TypeOK, Messages, Event
  <2>5. CASE \E m \in Mids, raw \in RawForms : Deliver(h, m, raw)
    <3>1. PICK m \in Mids, raw \in RawForms : Deliver(h, m, raw)
      BY <2>5
    <3> DEFINE code == PermanentFailureOf(topic[m])
    <3>2. /\ topic[m] # None
          /\ topic' = topic
          /\ handler'[h] = [pc |-> FirstCall(code), mid |-> m, raw |-> raw, code |-> code]
      BY <1>1, <3>1 DEF Deliver
    <3>3. CASE code = None
      BY <3>2, <3>3 DEF RequestInv, FirstCall
    <3>4. CASE code # None
      <4>1. Refusable(m, code)'
        BY <3>2, <3>4 DEF Refusable
      <4> QED
        BY <3>2, <3>4, <4>1 DEF RequestInv, FirstCall
    <3> QED
      BY <3>3, <3>4
  <2>6. CASE CreateEvent(h)
    <3>1. /\ r.pc = "create"
          /\ handler'[h] = [r EXCEPT !.pc = "respond"]
          /\ deployment_events'[Event(h)] =
                [event |-> Event(h), content |-> Content(h), first_pubsub_message_id |-> r.mid]
      BY <1>1, <2>4, <2>6 DEF CreateEvent, CommitEvent, Goto, At, FirstMessage, TypeOK
    <3>2. handler'[h].pc = "respond" /\ handler'[h].mid = r.mid /\ handler'[h].raw = r.raw
      BY <1>1, <3>1 DEF Requests
    <3>3. PermanentFailureOf(topic[r.mid]) = None
      BY <1>1, <3>1 DEF RequestInv
    <3>4. deployment_events'[Event(h)] # None
      <4>1. deployment_events'[Event(h)] \in EventDocs
        BY <2>3, <2>4, <3>1 DEF EventDocs, Messages, Content
      <4> QED
        BY <4>1, NoneIsNothing
    <3>5. Recorded(r.mid)'
      BY <2>4, <3>1, <3>3, <3>4 DEF Recorded, Event, Content
    <3> QED
      BY <2>3, <2>4, <3>1, <3>2, <3>5 DEF RequestInv
  <2>7. CASE \/ CreateEventAnswerLost(h) \/ CreateRejectionAnswerLost(h)
              \/ Respond(h) \/ Fail(h)
    <3>1. handler'[h] = Idle
      BY <1>1, <2>7 DEF CreateEventAnswerLost, CreateRejectionAnswerLost, Respond, Fail, Abandon
    <3> QED
      BY <3>1 DEF RequestInv, Idle
  <2>8. CASE CreateEventExists(h)
    <3>1. /\ r.pc = "create"
          /\ deployment_events[Event(h)] # None
          /\ UNCHANGED <<topic, deployment_events, deployment_event_rejections>>
          /\ handler'[h] = [r EXCEPT !.pc = "read"]
      BY <1>1, <2>8 DEF CreateEventExists, Goto, At, store
    <3>2. /\ handler'[h].pc = "read" /\ handler'[h].mid = r.mid
          /\ handler'[h].raw = r.raw /\ handler'[h].code = r.code
      BY <1>1, <3>1 DEF Requests
    <3>3. (deployment_events[Event(h)] # None)'
      BY <3>1, <3>2 DEF Event
    <3> QED
      BY <1>1, <3>1, <3>2, <3>3 DEF RequestInv
  <2>9. CASE ReconcileEvent(h)
    <3>1. /\ r.pc = "read"
          /\ deployment_events[Event(h)] # None
          /\ UNCHANGED <<topic, deployment_events, deployment_event_rejections>>
          /\ PermanentFailureOf(topic[r.mid]) = None
      BY <1>1, <2>9 DEF ReconcileEvent, At, store, RequestInv
    <3>2. CASE SamePayload(deployment_events[Event(h)], Event(h), Content(h))
      <4>1. handler'[h] = [r EXCEPT !.pc = "respond"]
        BY <1>1, <2>9, <3>2 DEF ReconcileEvent, Goto
      <4>2. handler'[h].pc = "respond" /\ handler'[h].mid = r.mid /\ handler'[h].raw = r.raw
        BY <1>1, <4>1 DEF Requests
      <4>3. Recorded(r.mid)'
        BY <3>1, <3>2, <4>2 DEF Recorded, SamePayload, Event, Content
      <4> QED
        BY <2>3, <3>1, <4>2, <4>3 DEF RequestInv
    <3>3. CASE ~SamePayload(deployment_events[Event(h)], Event(h), Content(h))
      <4>1. handler'[h] = [r EXCEPT !.pc = "reject", !.code = Conflict]
        BY <1>1, <2>9, <3>3 DEF ReconcileEvent, Raise
      <4>2. /\ handler'[h].pc = "reject" /\ handler'[h].mid = r.mid
            /\ handler'[h].raw = r.raw /\ handler'[h].code = Conflict
        BY <1>1, <4>1 DEF Requests
      <4>3. deployment_events[Event(h)].event = Event(h)
        BY <2>4, <3>1 DEF IInv, RecordHasItsMessage
      <4>4. Refusable(r.mid, Conflict)'
        BY <3>1, <3>3, <4>2, <4>3 DEF Refusable, SamePayload, Event, Content
      <4> QED
        BY <2>3, <3>1, <4>2, <4>4 DEF RequestInv
    <3> QED
      BY <3>2, <3>3
  <2>10. CASE CreateRejection(h)
    <3>1. /\ r.pc = "reject"
          /\ topic' = topic
          /\ handler'[h] = [r EXCEPT !.pc = "respond"]
          /\ RejectionIdOf(h) \in RejectionIds
          /\ deployment_event_rejections'[RejectionIdOf(h)] = RejectionDocOf(h)
      <4>1. r.pc = "reject"
        BY <2>10 DEF CreateRejection, CommitRejection, At
      <4>2. RejectionIdOf(h) \in RejectionIds
        BY <2>3, <4>1 DEF RejectionIdOf, RejectionId, RejectionIds
      <4> QED
        BY <1>1, <2>10, <4>1, <4>2 DEF CreateRejection, CommitRejection, Goto, TypeOK
    <3>2. handler'[h].pc = "respond" /\ handler'[h].mid = r.mid /\ handler'[h].raw = r.raw
      BY <1>1, <3>1 DEF Requests
    <3>3. RejectionDocOf(h) # None
      <4>1. r.code \in Codes
        <5>1. Refusable(r.mid, r.code) /\ r.code \in Codes \cup {None}
          BY <1>1, <3>1 DEF RequestInv, Requests
        <5> QED
          BY <5>1, NoneIsNothing DEF Refusable, Codes, Conflict
      <4> QED
        BY <1>1, <2>3, <3>1, <4>1, RejectionTypes, NoneIsNothing DEF RejectionDocOf
    <3>4. RejectionIdOf(h) \in {r.mid} \cup ({r.mid} \X RawForms)
      BY <2>3, <3>1 DEF RejectionIdOf, RejectionId
    <3>5. Rejected(r.mid)'
      BY <3>1, <3>3, <3>4 DEF Rejected
    <3> QED
      BY <2>3, <3>1, <3>2, <3>5 DEF RequestInv
  <2>11. CASE CreateRejectionExists(h)
    <3>1. /\ r.pc = "reject"
          /\ deployment_event_rejections[RejectionIdOf(h)] # None
          /\ UNCHANGED <<topic, deployment_events, deployment_event_rejections>>
          /\ handler'[h] = [r EXCEPT !.pc = "reject_read"]
      BY <1>1, <2>11 DEF CreateRejectionExists, Goto, At, store
    <3>2. /\ handler'[h].pc = "reject_read" /\ handler'[h].mid = r.mid
          /\ handler'[h].raw = r.raw /\ handler'[h].code = r.code
      BY <1>1, <3>1 DEF Requests
    <3>3. Refusable(r.mid, r.code)'
      BY <1>1, <3>1 DEF RequestInv, Refusable
    <3>4. RejectionIdOf(h)' = RejectionIdOf(h)
      BY <3>2 DEF RejectionIdOf
    <3> QED
      BY <2>3, <3>1, <3>2, <3>3, <3>4 DEF RequestInv
  <2>12. CASE ReconcileRejection(h)
    <3>1. /\ r.pc = "reject_read"
          /\ UNCHANGED <<topic, deployment_events, deployment_event_rejections>>
          /\ handler'[h] = [r EXCEPT !.pc = "respond"] \/ handler'[h] = Idle
      BY <1>1, <2>12 DEF ReconcileRejection, Goto, Abandon, At, store
    <3>2. CASE handler'[h] = Idle
      BY <3>2 DEF RequestInv, Idle
    <3>3. CASE handler'[h] = [r EXCEPT !.pc = "respond"]
      <4>1. handler'[h].pc = "respond" /\ handler'[h].mid = r.mid /\ handler'[h].raw = r.raw
        BY <1>1, <3>3 DEF Requests
      <4>2. RejectionIdOf(h) \in {r.mid} \cup ({r.mid} \X RawForms)
        BY <2>3, <3>1 DEF RejectionIdOf, RejectionId
      <4>3. deployment_event_rejections[RejectionIdOf(h)] # None
        BY <1>1, <3>1 DEF RequestInv
      <4>4. Rejected(r.mid)'
        BY <3>1, <4>1, <4>2, <4>3 DEF Rejected
      <4> QED
        BY <2>3, <3>1, <4>1, <4>4 DEF RequestInv
    <3> QED
      BY <3>1, <3>2, <3>3
  <2> QED
    BY <2>1, <2>2, <2>5, <2>6, <2>7, <2>8, <2>9, <2>10, <2>11, <2>12 DEF Process
<1> QED
  BY <1>2, <1>3

\* The only steps that write a document are the two commits, each by a
\* request whose verdict is settled.
LEMMA RejectionStep ==
    ASSUME IInv, Growing, TypeOK', [Next]_vars
    PROVE  RejectionInv'
<1> USE DEF IInv
<1>1. SUFFICES ASSUME NEW r \in RejectionIds, deployment_event_rejections'[r] # None
               PROVE  \E m \in Mids, raw \in RawForms, code \in Codes :
                        /\ topic'[m] # None
                        /\ Refusable(m, code)'
                        /\ r = RejectionId(m, raw, code)
                        /\ deployment_event_rejections'[r] = RejectionDoc(m, raw, code)'
  BY DEF RejectionInv, RejectionId
<1>2. CASE deployment_event_rejections[r] # None
  <2>1. PICK m \in Mids, raw \in RawForms, code \in Codes :
          /\ topic[m] # None
          /\ Refusable(m, code)
          /\ r = RejectionId(m, raw, code)
          /\ deployment_event_rejections[r] = RejectionDoc(m, raw, code)
    BY <1>2 DEF RejectionInv
  <2>2. deployment_event_rejections'[r] = deployment_event_rejections[r]
    BY <1>2 DEF Growing
  <2>3. topic'[m] # None /\ Refusable(m, code)'
    BY <2>1, VerdictsStay
  <2>4. RejectionDoc(m, raw, code)' = RejectionDoc(m, raw, code)
    BY <2>1, VerdictsStay
  <2> QED
    BY <2>1, <2>2, <2>3, <2>4
<1>3. CASE deployment_event_rejections[r] = None
  <2>1. PICK h \in Handlers : CommitRejection(h)
    BY <1>1, <1>3 DEF Next, Process, IngestAccepted, IngestAnswerLost, IngestPublish,
       PublishOther, Deliver, CreateEvent, CreateEventAnswerLost, CommitEvent,
       CreateEventExists, ReconcileEvent, CreateRejection, CreateRejectionAnswerLost,
       CreateRejectionExists, ReconcileRejection, Respond, Fail, ReadEvent, store, vars
  <2>2. /\ handler[h].mid \in Mids /\ handler[h].raw \in RawForms
        /\ topic[handler[h].mid] # None
        /\ Refusable(handler[h].mid, handler[h].code)
        /\ handler[h].code \in Codes \cup {None}
    BY <2>1 DEF CommitRejection, At, RequestInv, TypeOK, Requests
  <2>3. handler[h].code \in Codes
    BY <2>2, NoneIsNothing DEF Refusable, Codes, Conflict
  <2>4. PICK m \in Mids, raw \in RawForms, code \in Codes :
          /\ m = handler[h].mid /\ raw = handler[h].raw /\ code = handler[h].code
          /\ topic[m] # None
          /\ Refusable(m, code)
    BY <2>2, <2>3
  <2>5. RejectionIdOf(h) \in RejectionIds
    BY <2>4 DEF RejectionIdOf, RejectionId, RejectionIds
  <2>6. /\ r = RejectionId(m, raw, code)
        /\ deployment_event_rejections'[r] = RejectionDoc(m, raw, code)
    BY <1>1, <1>3, <2>1, <2>4, <2>5 DEF CommitRejection, TypeOK, RejectionIdOf, RejectionDocOf
  <2>7. /\ topic'[m] # None
        /\ Refusable(m, code)'
        /\ RejectionDoc(m, raw, code)' = RejectionDoc(m, raw, code)
    BY <2>4, VerdictsStay
  <2> QED
    BY <2>6, <2>7
<1> QED
  BY <1>2, <1>3

\* A recorded observation stays the payload of the message it names.
LEMMA RecordStep ==
    ASSUME IInv, Growing, TypeOK', [Next]_vars
    PROVE  RecordHasItsMessage'
<1> DEFINE Named(e) == LET m == deployment_events[e].first_pubsub_message_id IN
                       /\ topic[m] # None
                       /\ topic[m].event = e /\ deployment_events[e].event = e
                       /\ Recorded(m)
<1>1. SUFFICES ASSUME NEW e \in Events, deployment_events'[e] # None
               PROVE  Named(e)'
  BY DEF RecordHasItsMessage
<1>2. CASE deployment_events[e] # None
  <2>1. deployment_events'[e] = deployment_events[e] /\ deployment_events[e] \in EventDocs
    BY <1>2 DEF Growing, IInv, TypeOK
  <2>2. PICK m \in Mids : m = deployment_events[e].first_pubsub_message_id
    BY <2>1 DEF EventDocs
  <2>3. topic[m] # None /\ topic[m].event = e /\ deployment_events[e].event = e /\ Recorded(m)
    BY <1>2, <2>2 DEF IInv, RecordHasItsMessage
  <2>4. topic'[m] = topic[m] /\ Recorded(m)'
    BY <2>3, VerdictsStay DEF IInv
  <2> QED
    BY <2>1, <2>2, <2>3, <2>4
<1>3. CASE deployment_events[e] = None
  <2>1. PICK h \in Handlers : CommitEvent(h)
    BY <1>1, <1>3 DEF Next, Process, IngestAccepted, IngestAnswerLost, IngestPublish,
       PublishOther, Deliver, CreateEvent, CreateEventAnswerLost, CommitRejection,
       CreateEventExists, ReconcileEvent, CreateRejection, CreateRejectionAnswerLost,
       CreateRejectionExists, ReconcileRejection, Respond, Fail, ReadEvent, store, vars
  <2>2. /\ handler[h].mid \in Mids
        /\ topic[handler[h].mid] # None
        /\ PermanentFailureOf(topic[handler[h].mid]) = None
    BY <2>1 DEF IInv, RequestInv, CommitEvent, At
  <2>3. PICK m \in Mids : m = handler[h].mid
    BY <2>2
  <2>4. topic[m].event \in Events
    BY <2>2, <2>3 DEF IInv, TypeOK, Messages
  <2>5. /\ topic' = topic
        /\ e = topic[m].event
        /\ deployment_events'[e] = [event |-> e, content |-> topic[m].content,
                                    first_pubsub_message_id |-> m]
    BY <1>1, <1>3, <2>1, <2>3, <2>4
       DEF CommitEvent, Event, Content, FirstMessage, IInv, TypeOK
  <2>6. deployment_events'[e].first_pubsub_message_id = m
    BY <2>5
  <2>7. Recorded(m)'
    BY <1>1, <2>2, <2>3, <2>5 DEF Recorded
  <2> QED
    BY <2>2, <2>3, <2>5, <2>6, <2>7
<1> QED
  BY <1>2, <1>3

\* Only respond acknowledges, and what it acknowledges is durable.
LEMMA AckedStep ==
    ASSUME IInv, Growing, TypeOK', [Next]_vars
    PROVE  AckedIsDurable'
<1>1. SUFFICES ASSUME NEW m \in Mids, m \in acked'
               PROVE  (topic[m] # None /\ (Recorded(m) \/ Rejected(m)))'
  BY DEF AckedIsDurable, TypeOK
<1>2. topic[m] # None /\ (Recorded(m) \/ Rejected(m))
  <2>1. CASE m \in acked
    BY <2>1 DEF IInv, AckedIsDurable
  <2>2. CASE m \notin acked
    <3>1. PICK h \in Handlers : Respond(h) /\ m = handler[h].mid
      BY <1>1, <2>2 DEF Next, Process, IngestAccepted, IngestAnswerLost, IngestPublish,
         PublishOther, Deliver, CreateEvent, CreateEventAnswerLost, CommitEvent,
         CommitRejection, CreateEventExists, ReconcileEvent, CreateRejection,
         CreateRejectionAnswerLost, CreateRejectionExists, ReconcileRejection, Respond,
         Fail, ReadEvent, store, vars
    <3> QED
      BY <3>1 DEF IInv, RequestInv, Respond, At
  <2> QED
    BY <2>1, <2>2
<1> QED
  BY <1>2, VerdictsStay DEF IInv

\* What ingest answers 202 for passes the checks of the processor.
LEMMA ReceiptStep ==
    ASSUME IInv, Growing, TypeOK', [Next]_vars, NEW m \in receipts'
    PROVE  topic'[m] # None /\ PermanentFailureOf(topic'[m]) = None
<1>1. CASE m \in receipts
  <2>1. m \in Mids /\ topic[m] # None /\ PermanentFailureOf(topic[m]) = None
    BY <1>1 DEF IInv, TypeOK
  <2> QED
    BY <2>1 DEF Growing
<1>2. CASE m \notin receipts
  <2>1. PICK o \in Observations, n \in Mids : IngestAccepted(o, n)
    BY <1>2 DEF Next, Process, IngestAnswerLost,
       PublishOther, Deliver, CreateEvent, CreateEventAnswerLost, CommitEvent,
       CommitRejection, CreateEventExists, ReconcileEvent, CreateRejection,
       CreateRejectionAnswerLost, CreateRejectionExists, ReconcileRejection, Respond,
       Fail, ReadEvent, store, vars
  <2>2. m = n
    BY <1>2, <2>1 DEF IngestAccepted
  <2>3. topic'[m] = [event |-> o.event, content |-> o.content,
                     form |-> "canonical", attrs |-> "match"]
    BY <2>1, <2>2 DEF IngestAccepted, IngestPublish, Canonicalised, Observations, IInv, TypeOK
  <2>4. topic'[m] \in Messages
    BY <2>3 DEF Messages, Observations, Forms, Attributes
  <2> QED
    BY <2>3, <2>4, NoneIsNothing DEF PermanentFailureOf
<1> QED
  BY <1>1, <1>2

\* The API answers with the document on record.
LEMMA AnswerStep ==
    ASSUME IInv, Growing, [Next]_vars, NEW e \in Events, answer'[e] # None
    PROVE  /\ answer'[e] = deployment_events'[e]
           /\ answer[e] # None => answer'[e] = answer[e]
<1>1. answer \in [Events -> EventDocs \cup {None}]
  BY DEF IInv, TypeOK
<1>2. CASE answer' = answer
  BY <1>2 DEF IInv, Growing
<1>3. CASE answer' # answer
  <2>1. PICK d \in Events : ReadEvent(d)
    BY <1>3 DEF Next, Process, IngestAccepted, IngestAnswerLost, IngestPublish,
       PublishOther, Deliver, CreateEvent, CreateEventAnswerLost, CommitEvent,
       CommitRejection, CreateEventExists, ReconcileEvent, CreateRejection,
       CreateRejectionAnswerLost, CreateRejectionExists, ReconcileRejection, Respond,
       Fail, ReadEvent, store, vars
  <2>2. deployment_events' = deployment_events
    BY <2>1 DEF ReadEvent, store
  <2>3. answer'[e] = IF e = d THEN deployment_events[d] ELSE answer[e]
    BY <1>1, <2>1 DEF ReadEvent
  <2> QED
    BY <2>2, <2>3 DEF IInv
<1> QED
  BY <1>2, <1>3

----------------------------------------------------------------------------
\* The invariant holds initially.
LEMMA InitIInv == ASSUME Init PROVE IInv
<1>1. TypeOK
  BY InitType
<1>2. \A h \in Handlers : RequestInv(h)
  BY DEF Init, RequestInv, Idle
<1>3. RejectionInv /\ RecordHasItsMessage /\ AckedIsDurable
  BY DEF Init, RejectionInv, RecordHasItsMessage, AckedIsDurable
<1> QED
  BY <1>1, <1>2, <1>3 DEF Init, IInv

\* Every step preserves the invariant.
LEMMA NextIInv == ASSUME IInv, [Next]_vars PROVE IInv'
<1>1. TypeOK' /\ Growing
  BY TypeStep, StepGrows DEF IInv
<1>2. \A h \in Handlers : RequestInv(h)'
  BY <1>1, RequestStep
<1>3. RejectionInv' /\ RecordHasItsMessage' /\ AckedIsDurable'
  BY <1>1, RejectionStep, RecordStep, AckedStep
<1>4. \A m \in receipts' : topic'[m] # None /\ PermanentFailureOf(topic'[m]) = None
  BY <1>1, ReceiptStep
<1>5. \A e \in Events : answer'[e] # None => answer'[e] = deployment_events'[e]
  BY <1>1, AnswerStep
<1> QED
  BY <1>1, <1>2, <1>3, <1>4, <1>5 DEF IInv

\* IInv is inductive, hence an invariant of the pipeline.
THEOREM Invariance == Spec => []IInv
<1>1. Init => IInv
  BY InitIInv
<1>2. IInv /\ [Next]_vars => IInv'
  BY NextIInv
<1> QED
  BY <1>1, <1>2, PTL DEF Spec

\* Every variable keeps its type, for any number of messages and handlers.
THEOREM TypeCorrect == Spec => []TypeOK
<1>1. IInv => TypeOK
  BY DEF IInv
<1> QED
  BY <1>1, Invariance, PTL

\* The processor acknowledges nothing whose outcome is not in Firestore.
THEOREM AckedDurable == Spec => []AckedIsDurable
<1>1. IInv => AckedIsDurable
  BY DEF IInv
<1> QED
  BY <1>1, Invariance, PTL

\* Each recorded observation is the storable payload of the message it names.
THEOREM RecordsHaveMessages == Spec => []RecordHasItsMessage
<1>1. IInv => RecordHasItsMessage
  BY DEF IInv
<1> QED
  BY <1>1, Invariance, PTL

\* A rejection names its own message.
LEMMA RejectionOf ==
    ASSUME IInv, NEW m \in Mids, topic[m] # None, Rejected(m)
    PROVE  \E code \in Codes : Refusable(m, code)
<1>1. PICK r \in {m} \cup ({m} \X RawForms) : deployment_event_rejections[r] # None
  BY DEF Rejected
<1>2. r \in RejectionIds
  BY <1>1 DEF RejectionIds
<1>3. PICK n \in Mids, raw \in RawForms, code \in Codes :
        Refusable(n, code) /\ r = RejectionId(n, raw, code)
  BY <1>1, <1>2 DEF IInv, RejectionInv
<1>4. r = n \/ r = <<n, raw>>
  BY <1>3 DEF RejectionId
<1>5. n = m
  <2>1. <<n, raw>> \in Mids \X RawForms
    OBVIOUS
  <2>2. CASE r = m
    BY <1>4, <2>1, <2>2, RejectionIdsDiffer
  <2>3. CASE r \in {m} \X RawForms
    BY <1>4, <2>1, <2>3, RejectionIdsDiffer
  <2> QED
    BY <1>1, <2>2, <2>3
<1> QED
  BY <1>3, <1>5

\* No message has two verdicts, however its deliveries interleave.
THEOREM OneVerdictHolds == Spec => []OneVerdict
<1>1. ASSUME IInv PROVE OneVerdict
  <2>1. SUFFICES ASSUME NEW m \in Mids, topic[m] # None, Recorded(m), Rejected(m)
                 PROVE  FALSE
    BY DEF OneVerdict
  <2>2. PICK code \in Codes : Refusable(m, code)
    BY <1>1, <2>1, RejectionOf
  <2> QED
    BY <2>1, <2>2 DEF Refusable, Recorded
<1> QED
  BY <1>1, Invariance, PTL

\* A redelivery of the same bytes always reconciles with the rejection on
\* record: no REJECTION_ID_CONFLICT, hence no endless retry.
THEOREM SameBytesAlwaysReconcile == Spec => []SameBytesReconcile
<1>1. ASSUME IInv PROVE SameBytesReconcile
  <2>1. SUFFICES ASSUME NEW h \in Handlers, At(h, "reject_read"),
                        deployment_event_rejections[RejectionIdOf(h)].raw = RejectionDocOf(h).raw
                 PROVE  deployment_event_rejections[RejectionIdOf(h)] = RejectionDocOf(h)
    BY DEF SameBytesReconcile
  <2> DEFINE m == handler[h].mid
             c == handler[h].code
             doc == deployment_event_rejections[RejectionIdOf(h)]
  <2>2. /\ m \in Mids /\ handler[h].raw \in RawForms
        /\ Refusable(m, c) /\ doc # None
    BY <1>1, <2>1 DEF IInv, RequestInv, At
  <2>3. RejectionIdOf(h) \in RejectionIds
    BY <2>2 DEF RejectionIdOf, RejectionId, RejectionIds
  <2>4. PICK n \in Mids, raw \in RawForms, code \in Codes :
          Refusable(n, code) /\ doc = RejectionDoc(n, raw, code)
    BY <1>1, <2>2, <2>3 DEF IInv, RejectionInv
  <2>5. n = m /\ raw = handler[h].raw
    BY <2>1, <2>4 DEF RejectionDoc, RejectionDocOf
  <2>6. code = c
    BY <2>2, <2>4, <2>5 DEF Refusable
  <2> QED
    BY <2>4, <2>5, <2>6 DEF RejectionDocOf
<1> QED
  BY <1>1, Invariance, PTL

\* An observation answered 202 is refused only for a recorded conflict.
THEOREM ReceiptsRefusedOnlyForConflict == Spec => []ReceiptRefusedOnlyForConflict
<1>1. ASSUME IInv PROVE ReceiptRefusedOnlyForConflict
  <2>1. SUFFICES ASSUME NEW m \in receipts, NEW r \in RejectionIds,
                        deployment_event_rejections[r] # None,
                        deployment_event_rejections[r].raw[1] = m
                 PROVE  LET doc == deployment_event_rejections[r] IN
                        /\ doc.rejection_code = Conflict
                        /\ deployment_events[doc.event] # None
                        /\ deployment_events[doc.event].content # doc.content
    BY DEF ReceiptRefusedOnlyForConflict
  <2>2. PICK n \in Mids, raw \in RawForms, code \in Codes :
          /\ Refusable(n, code)
          /\ deployment_event_rejections[r] = RejectionDoc(n, raw, code)
    BY <1>1, <2>1 DEF IInv, RejectionInv
  <2>3. n = m
    BY <2>1, <2>2 DEF RejectionDoc
  <2>4. PermanentFailureOf(topic[m]) = None
    BY <1>1 DEF IInv
  <2>5. code = Conflict
    BY <2>2, <2>3, <2>4 DEF Refusable
  <2>6. None # Conflict
    BY NoneIsNothing DEF Codes, Conflict
  <2>7. /\ deployment_events[topic[m].event] # None
        /\ deployment_events[topic[m].event].content # topic[m].content
    BY <2>2, <2>3, <2>4, <2>5, <2>6 DEF Refusable
  <2> QED
    BY <2>2, <2>3, <2>5, <2>7 DEF RejectionDoc, RejectedContent, IdentityKnown
<1> QED
  BY <1>1, Invariance, PTL

\* What the API has answered for an event is its answer for ever.
THEOREM AnswersAreFinal == Spec => AnswersNeverChange
<1>1. IInv /\ [Next]_vars => [\A e \in Events : answer[e] # None => answer'[e] = answer[e]]_vars
  <2>1. SUFFICES ASSUME IInv, [Next]_vars, NEW e \in Events, answer[e] # None
                 PROVE  answer'[e] = answer[e]
    OBVIOUS
  <2>2. answer[e] = deployment_events[e] /\ Growing
    BY <2>1, StepGrows DEF IInv
  <2>3. answer'[e] # None
    BY <2>1, <2>2 DEF Next, Process, IngestAccepted, IngestAnswerLost, IngestPublish,
       PublishOther, Deliver, CreateEvent, CreateEventAnswerLost, CommitEvent,
       CommitRejection, CreateEventExists, ReconcileEvent, CreateRejection,
       CreateRejectionAnswerLost, CreateRejectionExists, ReconcileRejection, Respond,
       Fail, ReadEvent, IInv, TypeOK, store, vars
  <2> QED
    BY <2>1, <2>2, <2>3, AnswerStep
<1> QED
  BY <1>1, Invariance, PTL DEF Spec, AnswersNeverChange

----------------------------------------------------------------------------
\* The pipeline implements the first-write-wins ledger.

Offered == [m \in Mids |-> IF topic[m] = None THEN None ELSE
               [event |-> topic[m].event, content |-> topic[m].content,
                storable |-> PermanentFailureOf(topic[m]) = None]]

Recordings == [e \in Events |-> IF deployment_events[e] = None THEN None
                               ELSE deployment_events[e].content]

Refused == {m \in Mids : Rejected(m)}

\* Publishing is the ledger's Offer.
LEMMA OfferStep ==
    ASSUME IInv, NEW m \in Mids, NEW msg \in Messages, topic[m] = None,
           topic' = [topic EXCEPT ![m] = msg],
           UNCHANGED <<store, acked>>
    PROVE  Ledger!Offer(m)
<1> DEFINE offer == [event |-> msg.event, content |-> msg.content,
                     storable |-> PermanentFailureOf(msg) = None]
<1>1. offer \in Ledger!Offers
  BY DEF Ledger!Offers, Messages
<1>2. msg # None
  BY NoneIsNothing
<1>3. Offered' = [Offered EXCEPT ![m] = offer]
  <2>1. \A n \in Mids : topic'[n] = IF n = m THEN msg ELSE topic[n]
    BY DEF IInv, TypeOK
  <2>2. \A n \in Mids : Offered'[n] = IF n = m THEN offer ELSE Offered[n]
    BY <1>2, <2>1 DEF Offered
  <2>3. Offered' = [n \in Mids |-> Offered'[n]] /\ Offered = [n \in Mids |-> Offered[n]]
    BY DEF Offered
  <2> HIDE DEF offer
  <2> QED
    BY <2>2, <2>3
<1>4. Recordings' = Recordings /\ Refused' = Refused
  BY DEF Recordings, Refused, Rejected, store
<1> QED
  BY <1>1, <1>3, <1>4 DEF Ledger!Offer, Offered, Recordings, Refused

\* Creating an event document is the ledger's Record.
LEMMA RecordImplemented ==
    ASSUME IInv, NEW h \in Handlers, CommitEvent(h)
    PROVE  \E m \in Mids : Ledger!Record(m)
<1>1. /\ handler[h].mid \in Mids
      /\ topic[handler[h].mid] # None
      /\ PermanentFailureOf(topic[handler[h].mid]) = None
  BY DEF IInv, RequestInv, CommitEvent, At
<1>2. PICK m \in Mids : m = handler[h].mid
  BY <1>1
<1>3. topic[m] \in Messages /\ topic[m].event \in Events /\ topic[m].content \in Contents
  BY <1>1, <1>2 DEF IInv, TypeOK, Messages
<1> DEFINE e == topic[m].event
           doc == [event |-> e, content |-> topic[m].content, first_pubsub_message_id |-> m]
<1>4. /\ deployment_events[e] = None
      /\ deployment_events' = [deployment_events EXCEPT ![e] = doc]
      /\ UNCHANGED <<topic, deployment_event_rejections, acked>>
  BY <1>2 DEF CommitEvent, Creatable, Event, Content, FirstMessage
<1>5. doc # None
  BY <1>3, NoneIsNothing DEF EventDocs
<1>6. Recordings' = [Recordings EXCEPT ![e] = topic[m].content]
  <2>1. \A d \in Events : deployment_events'[d] = IF d = e THEN doc ELSE deployment_events[d]
    BY <1>4 DEF IInv, TypeOK
  <2>2. \A d \in Events : Recordings'[d] = IF d = e THEN topic[m].content ELSE Recordings[d]
    BY <1>5, <2>1 DEF Recordings
  <2> QED
    BY <2>2 DEF Recordings
<1>7. Offered' = Offered /\ Refused' = Refused
  BY <1>4 DEF Offered, Refused, Rejected
<1>8. Offered[m] = [event |-> e, content |-> topic[m].content, storable |-> TRUE]
  BY <1>1, <1>2 DEF Offered
<1>9. Offered[m] # None
  <2>1. Offered[m] \in [event : Events, content : Contents, storable : BOOLEAN]
    BY <1>3, <1>8
  <2> QED
    BY <2>1, NoneIsNothing
<1> QED
  BY <1>3, <1>4, <1>6, <1>7, <1>8, <1>9 DEF Ledger!Record, Offered, Recordings, Refused

\* Creating a rejection document is the ledger's Refuse.
LEMMA RefuseImplemented ==
    ASSUME IInv, IInv', NEW h \in Handlers, CommitRejection(h)
    PROVE  \E m \in Mids : Ledger!Refuse(m)
<1>1. /\ handler[h].mid \in Mids /\ handler[h].raw \in RawForms
      /\ topic[handler[h].mid] # None
      /\ Refusable(handler[h].mid, handler[h].code)
  BY DEF IInv, RequestInv, CommitRejection, At
<1> handler[h].code \in Codes \cup {None}
  BY DEF IInv, TypeOK, Requests
<1>2. PICK m \in Mids, raw \in RawForms, code \in Codes \cup {None} :
        m = handler[h].mid /\ raw = handler[h].raw /\ code = handler[h].code
  BY <1>1
<1>3. topic[m] \in Messages /\ topic[m].event \in Events /\ topic[m].content \in Contents
  BY <1>1, <1>2 DEF IInv, TypeOK, Messages
<1> DEFINE id == RejectionId(m, raw, code)
<1>4. id = m \/ id = <<m, raw>>
  BY DEF RejectionId
<1>5. id \in RejectionIds
  BY <1>4 DEF RejectionIds
<1>6. /\ deployment_event_rejections' =
             [deployment_event_rejections EXCEPT ![id] = RejectionDoc(m, raw, code)]
      /\ UNCHANGED <<topic, deployment_events, acked>>
  BY <1>2 DEF CommitRejection, RejectionIdOf, RejectionDocOf
<1>7. RejectionDoc(m, raw, code) # None
  <2>1. code \in Codes
    <3>1. code \in Codes \cup {None}
      BY <1>2 DEF IInv, TypeOK, Requests
    <3> QED
      BY <1>1, <1>2, <3>1, NoneIsNothing DEF Refusable, Codes, Conflict
  <2> QED
    BY <1>1, <1>2, <2>1, RejectionTypes, NoneIsNothing DEF IInv
<1>8. Refused' = Refused \cup {m}
  <2>1. \A r \in RejectionIds : deployment_event_rejections'[r] =
          IF r = id THEN RejectionDoc(m, raw, code) ELSE deployment_event_rejections[r]
    BY <1>6 DEF IInv, TypeOK
  <2>2. ASSUME NEW n \in Mids PROVE Rejected(n)' <=> Rejected(n) \/ n = m
    <3>1. id \in {m} \cup ({m} \X RawForms)
      BY <1>4
    <3>2. {n} \cup ({n} \X RawForms) \subseteq RejectionIds
      BY DEF RejectionIds
    <3>3. CASE n = m
      BY <1>7, <2>1, <3>1, <3>2, <3>3 DEF Rejected
    <3>4. CASE n # m
      <4>1. id \notin {n} \cup ({n} \X RawForms)
        <5>1. <<m, raw>> \in Mids \X RawForms
          OBVIOUS
        <5>2. n \notin Mids \X RawForms /\ m \notin Mids \X RawForms
          BY RejectionIdsDiffer
        <5> QED
          BY <1>4, <3>4, <5>1, <5>2
      <4> HIDE DEF id
      <4> QED
        BY <2>1, <3>2, <3>4, <4>1 DEF Rejected
    <3> QED
      BY <3>3, <3>4
  <2> QED
    BY <2>2 DEF Refused
<1>9. Offered' = Offered /\ Recordings' = Recordings
  BY <1>6 DEF Offered, Recordings
<1>10. /\ Offered[m] # None
       /\ Offered[m].storable = (PermanentFailureOf(topic[m]) = None)
       /\ Offered[m].event = topic[m].event
       /\ Offered[m].content = topic[m].content
  <2>1. Offered[m] = [event |-> topic[m].event, content |-> topic[m].content,
                      storable |-> PermanentFailureOf(topic[m]) = None]
    BY <1>1, <1>2 DEF Offered
  <2>2. Offered[m] \in [event : Events, content : Contents, storable : BOOLEAN]
    BY <1>3, <2>1
  <2>3. Offered[m] # None
    BY <2>2, NoneIsNothing
  <2>4. /\ Offered[m].storable = (PermanentFailureOf(topic[m]) = None)
        /\ Offered[m].event = topic[m].event
        /\ Offered[m].content = topic[m].content
    <3> DEFINE s == PermanentFailureOf(topic[m]) = None
    <3>1. Offered[m] = [event |-> topic[m].event, content |-> topic[m].content, storable |-> s]
      BY <2>1
    <3> HIDE DEF s
    <3>2. /\ Offered[m].storable = s
          /\ Offered[m].event = topic[m].event
          /\ Offered[m].content = topic[m].content
      BY <3>1
    <3> QED
      BY <3>2 DEF s
  <2> QED
    BY <2>3, <2>4
<1>11. PermanentFailureOf(topic[m]) = None =>
          Recordings[topic[m].event] \notin {None, topic[m].content}
  <2>1. SUFFICES ASSUME PermanentFailureOf(topic[m]) = None
                 PROVE  Recordings[topic[m].event] \notin {None, topic[m].content}
    OBVIOUS
  <2>2. /\ deployment_events[topic[m].event] # None
        /\ deployment_events[topic[m].event].content # topic[m].content
    BY <1>1, <1>2, <2>1 DEF Refusable
  <2>3. deployment_events[topic[m].event] \in EventDocs
    BY <1>3, <2>2 DEF IInv, TypeOK
  <2>4. deployment_events[topic[m].event].content \in Contents
    BY <2>3 DEF EventDocs
  <2> QED
    BY <1>3, <2>2, <2>4, NoneIsNothing DEF Recordings
<1>12. /\ Offered[m].storable => Recordings[Offered[m].event] \notin {None, Offered[m].content}
  BY <1>10, <1>11
<1> QED
  BY <1>6, <1>8, <1>9, <1>10, <1>12 DEF Ledger!Refuse, Offered, Recordings, Refused

\* Acknowledging is the ledger's Settle.
LEMMA SettleImplemented ==
    ASSUME IInv, NEW h \in Handlers, Respond(h)
    PROVE  \E m \in Mids : Ledger!Settle(m)
<1>1. /\ handler[h].mid \in Mids
      /\ topic[handler[h].mid] # None
      /\ Recorded(handler[h].mid) \/ Rejected(handler[h].mid)
  BY DEF IInv, RequestInv, Respond, At
<1>2. PICK m \in Mids : m = handler[h].mid
  BY <1>1
<1>3. topic[m] \in Messages /\ topic[m].event \in Events /\ topic[m].content \in Contents
  BY <1>1, <1>2 DEF IInv, TypeOK, Messages
<1>4. UNCHANGED <<Offered, Recordings, Refused>> /\ acked' = acked \cup {m}
  BY <1>2 DEF Respond, store, Offered, Recordings, Refused, Rejected
<1>5. Offered[m] = [event |-> topic[m].event, content |-> topic[m].content,
                    storable |-> PermanentFailureOf(topic[m]) = None]
  BY <1>1, <1>2 DEF Offered
<1>6. Offered[m] # None
  <2>1. Offered[m] \in [event : Events, content : Contents, storable : BOOLEAN]
    BY <1>3, <1>5
  <2> QED
    BY <2>1, NoneIsNothing
<1>7. Recorded(m) => Offered[m].storable /\ Recordings[Offered[m].event] = Offered[m].content
  <2>1. SUFFICES ASSUME Recorded(m)
                 PROVE  Offered[m].storable /\ Recordings[Offered[m].event] = Offered[m].content
    OBVIOUS
  <2>2. Offered[m] = [event |-> topic[m].event, content |-> topic[m].content, storable |-> TRUE]
    BY <1>5, <2>1 DEF Recorded
  <2> QED
    BY <1>3, <2>1, <2>2 DEF Recorded, Recordings
<1>8. Rejected(m) => m \in Refused
  BY DEF Refused
<1> QED
  BY <1>1, <1>2, <1>4, <1>6, <1>7, <1>8
     DEF Ledger!Settle, Ledger!Holds, Offered, Recordings, Refused

\* Every step of the pipeline is a step of the ledger or none.
LEMMA StepImplemented ==
    ASSUME IInv, IInv', [Next]_vars
    PROVE  [Ledger!Next]_(Ledger!vars)
<1>1. ASSUME NEW o \in Observations, NEW m \in Mids,
             IngestAccepted(o, m) \/ IngestAnswerLost(o, m)
      PROVE  Ledger!Next
  <2> DEFINE msg == [event |-> o.event, content |-> o.content,
                     form |-> "canonical", attrs |-> "match"]
  <2>1. msg \in Messages
    BY DEF Messages, Observations, Forms, Attributes
  <2>2. /\ topic[m] = None
        /\ topic' = [topic EXCEPT ![m] = msg]
        /\ UNCHANGED <<store, acked>>
    BY <1>1 DEF IngestAccepted, IngestAnswerLost, IngestPublish, Canonicalised, Observations
  <2> QED
    BY <2>1, <2>2, OfferStep DEF Ledger!Next
<1>2. ASSUME NEW msg \in Others, NEW m \in Mids, PublishOther(msg, m) PROVE Ledger!Next
  BY <1>2, OthersAreMessages, OfferStep DEF PublishOther, Ledger!Next
<1>3. CASE UNCHANGED <<topic, store, acked>>
  <2>1. UNCHANGED <<Offered, Recordings, Refused, acked>>
    BY <1>3 DEF Offered, Recordings, Refused, Rejected, store
  <2> QED
    BY <2>1 DEF Ledger!vars, Offered, Recordings, Refused
<1>4. ASSUME NEW h \in Handlers, Process(h) PROVE [Ledger!Next]_(Ledger!vars)
  <2>1. CASE CommitEvent(h)
    BY <2>1, RecordImplemented DEF Ledger!Next
  <2>2. CASE CommitRejection(h)
    BY <2>2, RefuseImplemented DEF Ledger!Next
  <2>3. CASE Respond(h)
    BY <2>3, SettleImplemented DEF Ledger!Next
  <2> QED
    BY <1>3, <1>4, <2>1, <2>2, <2>3 DEF Process, Deliver, CreateEvent,
       CreateEventAnswerLost, CreateEventExists, ReconcileEvent, CreateRejection,
       CreateRejectionAnswerLost, CreateRejectionExists, ReconcileRejection, Fail
<1>5. ASSUME NEW e \in Events, ReadEvent(e) PROVE [Ledger!Next]_(Ledger!vars)
  BY <1>3, <1>5 DEF ReadEvent
<1>6. CASE UNCHANGED vars
  BY <1>3, <1>6 DEF vars, store
<1> QED
  BY <1>1, <1>2, <1>4, <1>5, <1>6 DEF Next

\* Every behaviour of the pipeline is one of the first-write-wins ledger.
THEOREM PipelineImplementsLedger == Spec => ImplementsLedger
<1>1. Init => Ledger!Init
  <2>1. ASSUME Init PROVE Offered = [m \in Mids |-> None] /\ Recordings = [e \in Events |-> None]
    BY <2>1 DEF Init, Offered, Recordings
  <2>2. ASSUME Init PROVE Refused = {}
    BY <2>2 DEF Init, Refused, Rejected, RejectionIds
  <2> QED
    BY <2>1, <2>2 DEF Init, Ledger!Init, Offered, Recordings, Refused
<1>2. IInv /\ IInv' /\ [Next]_vars => [Ledger!Next]_(Ledger!vars)
  BY StepImplemented
<1> QED
  BY <1>1, <1>2, Invariance, PTL DEF Spec, ImplementsLedger, Ledger!Spec

============================================================================
