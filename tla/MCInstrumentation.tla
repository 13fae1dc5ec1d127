--------------------------- MODULE MCInstrumentation ---------------------------
(* The instance of Instrumentation that TLC checks.                        *)
EXTENDS Instrumentation, TLC

Symmetry == Permutations(Runs) \union Permutations(Slots)
=============================================================================
