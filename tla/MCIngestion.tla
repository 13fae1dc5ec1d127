----------------------------- MODULE MCIngestion -----------------------------
(* Instance of Ingestion for TLC: four kinds of span, batches of one or    *)
(* more of them, one of a service with the name of the sentinel.           *)
EXTENDS Ingestion

Plain == [sampled |-> TRUE, redacted |-> TRUE, readable |-> TRUE]
Secret == [Plain EXCEPT !.redacted = FALSE]
SampledOut == [Plain EXCEPT !.sampled = FALSE]
Unreadable == [Plain EXCEPT !.readable = FALSE]

MCPayloads ==
    {[stop |-> FALSE, spans |-> <<Plain>>],
     [stop |-> FALSE, spans |-> <<SampledOut, Secret>>],
     [stop |-> FALSE, spans |-> <<Plain, Unreadable, Plain>>],
     [stop |-> TRUE, spans |-> <<Plain>>]}
=============================================================================
