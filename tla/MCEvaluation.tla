---------------------------- MODULE MCEvaluation ----------------------------
(* Evaluation over suites of a coding task and a behavioural one. *)
EXTENDS Evaluation

MCSuite ==
  << [coding |-> TRUE, follow_up |-> FALSE, should_escalate |-> FALSE],
     [coding |-> FALSE, follow_up |-> TRUE, should_escalate |-> TRUE] >>
=============================================================================
