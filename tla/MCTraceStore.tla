----------------------------- MODULE MCTraceStore -----------------------------
(* Instance of TraceStore for TLC: trace ids are interchangeable. *)
EXTENDS TraceStore, TLC

Symmetry == Permutations(Traces)
=============================================================================
