---------------------------- MODULE MCEvaluation ----------------------------
(* Instance of Evaluation for TLC: tasks ask for no registered evaluator   *)
(* or for two.                                                             *)
EXTENDS Evaluation

MCRequests == {<<>>, <<"toxicity", "hallucination">>}
=============================================================================
