--------------------------- MODULE TaskLifecycle ---------------------------
(***************************************************************************)
(* What a client of one task may rely on: the status it polls and whether  *)
(* an invocation still has work to do.  A verdict (completed, failed) is   *)
(* final and is given by a run that then stops working; a parked task only *)
(* moves when its user answers; a task whose run broke off keeps the       *)
(* status "running" with nothing working on it.                            *)
(***************************************************************************)
VARIABLES status, working

lifecycle == <<status, working>>

Verdicts == {"completed", "failed"}

Init == status = "running" /\ working = TRUE

\* The run stops, with a verdict or with a question to its user.
Conclude ==
  /\ working
  /\ status = "running"
  /\ working' = FALSE
  /\ status' \in Verdicts \cup {"awaiting_user"}

\* The run stops without saying why: it raised, or its graph ends without a verdict.
BreakOff ==
  /\ working
  /\ status = "running"
  /\ working' = FALSE
  /\ UNCHANGED status

\* The answer puts the task back to work, or finds its budget spent.
Answer ==
  /\ ~working
  /\ status = "awaiting_user"
  /\ \/ status' = "running" /\ working' = TRUE
     \/ status' = "failed" /\ working' = FALSE

Spec == Init /\ [][Conclude \/ BreakOff \/ Answer]_lifecycle
=============================================================================
