----------------------------- MODULE MCTaskRun -----------------------------
(***************************************************************************)
(* Instances of TaskRun: what models and oracle may answer in each run.    *)
(***************************************************************************)
EXTENDS TaskRun

\* Everything, but no blank text.
AnyAnswer ==
  [text |-> {"text"}, asks |-> BOOLEAN, questions |-> BOOLEAN,
   decision |-> Decisions \ {"none"}, oracle |-> {"passed", "failed"},
   action |-> StuckActions]

\* Blank texts too.
AnyAnswerOrBlank == [AnyAnswer EXCEPT !.text = {"blank", "text"}]
=============================================================================
