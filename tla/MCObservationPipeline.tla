----------------------- MODULE MCObservationPipeline -----------------------
(***************************************************************************)
(* Small instances of ObservationPipeline.  Two messages of one event are  *)
(* what a duplicate or a conflict needs; two handlers overlap.             *)
(***************************************************************************)
EXTENDS ObservationPipeline, TLC

Symmetry == Permutations(Mids) \cup Permutations(Contents)
                \cup Permutations(Handlers) \cup Permutations(RawForms)

\* Anything can arrive.
AllMessages == Messages

\* One malformed message beside those of ingest: enough to need a rejection.
OneMalformed ==
    {msg \in Messages : msg.attrs = "mismatch" /\ msg.form = "canonical"}

============================================================================
