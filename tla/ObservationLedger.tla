------------------------- MODULE ObservationLedger -------------------------
(***************************************************************************)
(* What the observation pipeline promises, whoever handles the messages    *)
(* and however often: each event has at most one recorded payload, the     *)
(* first storable one to be recorded; a message is refused only when it is *)
(* malformed or another payload holds its event; a message is settled only *)
(* after it is recorded or refused.                                        *)
(***************************************************************************)
CONSTANTS Events, Contents, Mids, None

VARIABLES
    offered,  \* Mids -> what the message carries, or None
    ledger,   \* Events -> recorded content, or None
    refused,  \* messages with a refusal on record
    settled   \* messages that are done with

vars == <<offered, ledger, refused, settled>>

Offers == [event : Events, content : Contents, storable : BOOLEAN]

Init ==
    /\ offered = [m \in Mids |-> None]
    /\ ledger = [e \in Events |-> None]
    /\ refused = {}
    /\ settled = {}

Offer(m) ==
    /\ offered[m] = None
    /\ \E o \in Offers : offered' = [offered EXCEPT ![m] = o]
    /\ UNCHANGED <<ledger, refused, settled>>

Record(m) ==
    /\ offered[m] # None
    /\ offered[m].storable
    /\ ledger[offered[m].event] = None
    /\ ledger' = [ledger EXCEPT ![offered[m].event] = offered[m].content]
    /\ UNCHANGED <<offered, refused, settled>>

Holds(m) ==
    /\ offered[m].storable
    /\ ledger[offered[m].event] = offered[m].content

Refuse(m) ==
    /\ offered[m] # None
    /\ offered[m].storable => ledger[offered[m].event] \notin {None, offered[m].content}
    /\ refused' = refused \cup {m}
    /\ UNCHANGED <<offered, ledger, settled>>

Settle(m) ==
    /\ offered[m] # None
    /\ Holds(m) \/ m \in refused
    /\ settled' = settled \cup {m}
    /\ UNCHANGED <<offered, ledger, refused>>

Next == \E m \in Mids : Offer(m) \/ Record(m) \/ Refuse(m) \/ Settle(m)

Spec == Init /\ [][Next]_vars

============================================================================
