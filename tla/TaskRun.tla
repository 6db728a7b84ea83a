------------------------------ MODULE TaskRun ------------------------------
(***************************************************************************)
(* One task from its request to its verdict: the graph run of service.run  *)
(* or service.stream, the status derived from the checkpoint, and the      *)
(* resume paths of service.resume.                                         *)
(*                                                                         *)
(* A superstep runs one node and checkpoints its update together with the  *)
(* node that comes next, so a step of this module is a superstep.  An      *)
(* invocation ends by returning, by halting on a tool-call approval, by    *)
(* running out of supersteps, or by an exception: a failed model call, a   *)
(* tripped budget or guardrail, a cancelled run, a killed process.  All of *)
(* those leave the last checkpoint as it was.                              *)
(***************************************************************************)
EXTENDS TaskState

CONSTANTS
  Presets,           \* the presets tasks are created with
  RevisionBudgets,   \* TaskRequest.max_revisions
  IterationBudgets,  \* TaskRequest.max_iterations
  ToolModes,         \* tool_mode of a tool-using developer
  RecursionLimit,    \* GRAPH_RECURSION_LIMIT
  Answers,           \* what the models and the oracle may answer
  Client,            \* which at_node a resume names (see AtNodes)
  ResumeOn,          \* the statuses in which the client resumes
  MaxResumes,        \* bound: resumes that carry a directive
  Faults             \* may a node raise?

ASSUME RunAssumption ==
  /\ Presets \subseteq PresetNames
  /\ RevisionBudgets \subseteq Nat
  /\ IterationBudgets \subseteq Nat \ {0}
  /\ ToolModes \subseteq {"unrestricted", "approval"}
  /\ RecursionLimit \in Nat
  /\ Answers \in [text : SUBSET {"blank", "text"}, asks : SUBSET BOOLEAN,
                  questions : SUBSET BOOLEAN,
                  decision : SUBSET (Decisions \ {"none"}),
                  oracle : SUBSET {"passed", "failed"},
                  action : SUBSET StuckActions]
  /\ Client \in {"documented", "http", "any"}
  /\ ResumeOn \subseteq {"running", "awaiting_user", "completed", "failed"}
  /\ MaxResumes \in Nat
  /\ Faults \in BOOLEAN

VARIABLES
  spec,     \* the compiled graph: preset and tool mode
  st,       \* channel values of the latest checkpoint
  next,     \* the node that checkpoint names as next
  live,     \* an invocation is driving the graph
  gate,     \* approval interrupt: "clear", "halted" or "answered"
  outcome,  \* how the latest invocation ended
  steps     \* supersteps of the latest invocation

vars == <<spec, st, next, live, gate, outcome, steps>>

Specs == [preset : Presets, tool_mode : ToolModes]

\* Of a TaskRequest, the budgets and whether it names an oracle.
TaskRequests ==
  [max_revisions : RevisionBudgets, max_iterations : IterationBudgets, verify_command : BOOLEAN]

TypeOK ==
  /\ spec \in Specs
  /\ st \in States
  /\ next \in GraphNodes(spec.preset) \cup {END}
  /\ live \in BOOLEAN
  /\ gate \in {"clear", "halted", "answered"}
  /\ outcome \in {"none", "returned", "raised", "recursion"}
  /\ steps \in 0..RecursionLimit

-----------------------------------------------------------------------------
(***************************************************************************)
(* _materialize_status.                                                    *)
(***************************************************************************)

Failed(s) ==
  \/ /\ s.review.decision = "revision_required"
     /\ s.revision_round > s.max_revisions
  \/ s.stuck_decision = "abort"
  \/ /\ s.verification.result = "failed"
     /\ s.verify_round >= s.max_iterations

\* A supervisor's abort is not looked at.
FailedWithoutAbort(s) ==
  \/ /\ s.review.decision = "revision_required"
     /\ s.revision_round > s.max_revisions
  \/ /\ s.verification.result = "failed"
     /\ s.verify_round >= s.max_iterations

\* The revision budget defaults to 0 here and to the request's in the router.
StatusOfDefaultZero(s, pending) ==
  IF pending THEN "awaiting_user"
  ELSE IF s.delivery.text = "text" THEN "completed"
  ELSE IF s.review.decision = "need_user_decision" THEN "awaiting_user"
  ELSE IF s.review.decision = "revision_required" /\ s.revision_round > 0 THEN "failed"
  ELSE IF Failed(s) THEN "failed"
  ELSE "running"

StatusWithoutAbort(s, pending) ==
  IF pending THEN "awaiting_user"
  ELSE IF s.delivery.text = "text" THEN "completed"
  ELSE IF s.review.decision = "need_user_decision" THEN "awaiting_user"
  ELSE IF FailedWithoutAbort(s) THEN "failed"
  ELSE "running"

StatusOf(s, pending) ==
  IF pending THEN "awaiting_user"
  ELSE IF s.delivery.text = "text" THEN "completed"
  ELSE IF s.review.decision = "need_user_decision" THEN "awaiting_user"
  ELSE IF Failed(s) THEN "failed"
  ELSE "running"

\* LangGraph keeps the interrupt on the checkpoint until the tool node's update
\* makes the next one, so an answered call is still reported as pending.
Status == StatusOf(st, gate # "clear")

-----------------------------------------------------------------------------

Init ==
  /\ spec \in Specs
  /\ \E r \in TaskRequests :
       st = initial_state(r.max_revisions, r.max_iterations, r.verify_command)
  /\ next = PresetEntry(spec.preset)
  /\ live = TRUE
  /\ gate = "clear"
  /\ outcome = "none"
  /\ steps = 0

(***************************************************************************)
(* One superstep of node n that leaves the state s.                        *)
(***************************************************************************)
Superstep(n, s) ==
  /\ live
  /\ next = n
  /\ steps < RecursionLimit
  /\ st' = s
  /\ next' = After(spec.preset, n, s)
  /\ gate' = "clear"
  /\ steps' = steps + 1
  /\ UNCHANGED <<spec, live, outcome>>

Planner ==
  \E plan \in Answers.text, questions \in Answers.questions :
    Superstep("planner",
              IF spec.preset = "planner_gate" THEN planner_gate(st, plan, questions)
                                              ELSE planner(st, plan))

Developer ==
  \E asks \in Answers.asks :
    /\ asks => UsesTools(spec.preset) /\ ~budget_used(st)
    /\ Superstep("developer",
                 IF UsesTools(spec.preset) THEN developer_react(st, asks) ELSE developer(st))

\* make_approval_wrapper interrupts before a call runs; the invocation returns.
ApprovalHalt ==
  /\ live
  /\ next = "tools"
  /\ spec.tool_mode = "approval"
  /\ gate = "clear"
  /\ steps < RecursionLimit
  /\ live' = FALSE
  /\ gate' = "halted"
  /\ outcome' = "returned"
  /\ UNCHANGED <<spec, st, next, steps>>

Tools ==
  \E verdict \in {"approve", "deny"} :
    /\ IF spec.tool_mode = "approval" THEN gate = "answered" ELSE verdict = "approve"
    /\ Superstep("tools", tools(st, verdict))

Reviewer ==
  \E decision \in Answers.decision, escalate \in Answers.questions :
    Superstep("reviewer",
              IF spec.preset = "two_call_review"
              THEN reviewer_two_call(st, escalate, decision)
              ELSE reviewer(st, decision))

Verify == \E result \in Answers.oracle : Superstep("verify", verifier(st, result))

Supervisor == \E action \in Answers.action : Superstep("supervisor", supervisor(st, action))

Delivery == \E text \in Answers.text : Superstep("delivery", delivery(st, text))

Ended(how) ==
  /\ live
  /\ live' = FALSE
  /\ outcome' = how
  /\ UNCHANGED <<spec, st, next, gate, steps>>

Return == next = END /\ Ended("returned")

\* LangGraph raises GraphRecursionError when the next superstep is one too many.
RecursionError == next # END /\ steps = RecursionLimit /\ Ended("recursion")

Raise == Faults /\ next # END /\ Ended("raised")

Node ==
  Planner \/ Developer \/ ApprovalHalt \/ Tools \/ Reviewer \/ Verify \/ Supervisor \/ Delivery

-----------------------------------------------------------------------------
(***************************************************************************)
(* service.resume.  The code checks neither that the task waits for an     *)
(* answer nor that at_node is the node that halted it: both are the        *)
(* client's, ResumeOn and AtNodes.  But no client sends a verdict where no *)
(* call waits: what LangGraph makes of such a Command is not in this code. *)
(***************************************************************************)

\* The at_node the client names.  The docs send an answer back to what halted the
\* task; POST /tasks/{id}/resume and the CLI always take the default, "reviewer".
AtNodes ==
  IF Client = "http" THEN {"reviewer"}
  ELSE IF Client = "any" THEN {"reviewer", "planner", "tool_call"}
  ELSE IF gate # "clear" THEN {"tool_call"}
  ELSE IF spec.preset = "planner_gate" /\ st.open_questions THEN {"planner"}
  ELSE {"reviewer"}

reviewer_answer(s) ==
  superseded([s EXCEPT !.review = [decision |-> "revision_required", by |-> "user",
                                   of |-> s.code],
                       !.user_directives = @ + 1],
             "directive")

planner_answer(s) ==
  superseded([s EXCEPT !.review = NoReview,
                       !.open_questions = FALSE,
                       !.user_directives = @ + 1],
             "directive")

\* aupdate_state(as_node = n) recomputes what comes next, then ainvoke(None).
Reinvoke(n, s) ==
  /\ n \in PresetNodes(spec.preset)
  /\ st.user_directives < MaxResumes
  /\ st' = s
  /\ next' = After(spec.preset, n, s)
  /\ gate' = "clear"

Resumed ==
  /\ ~live
  /\ Status \in ResumeOn
  /\ live' = TRUE
  /\ outcome' = "none"
  /\ steps' = 0
  /\ UNCHANGED spec

ResumeAtReviewer ==
  "reviewer" \in AtNodes /\ Resumed /\ Reinvoke("reviewer", reviewer_answer(st))

ResumeAtPlanner ==
  "planner" \in AtNodes /\ Resumed /\ Reinvoke("planner", planner_answer(st))

\* Command(resume = verdict) lets the interrupted tool node go on; one verdict
\* answers every call of the newest message.
ResumeToolCall ==
  /\ "tool_call" \in AtNodes
  /\ gate # "clear"
  /\ Resumed
  /\ gate' = "answered"
  /\ UNCHANGED <<st, next>>

Resume == ResumeAtReviewer \/ ResumeAtPlanner \/ ResumeToolCall

Next == Node \/ Return \/ RecursionError \/ Raise \/ Resume

Spec == Init /\ [][Next]_vars

(***************************************************************************)
(* The event loop keeps driving a live invocation, and a user who is asked *)
(* answers in the end.                                                     *)
(***************************************************************************)
FairSpec == Spec /\ WF_vars(Node \/ Return \/ RecursionError) /\ WF_vars(Resume)

-----------------------------------------------------------------------------
(***************************************************************************)
(* Properties.                                                             *)
(***************************************************************************)

\* The current code was approved by the reviewer or passed the oracle.
Judged(s) ==
  \/ s.review = [decision |-> "approved", by |-> "reviewer", of |-> s.code]
  \/ s.verification = [result |-> "passed", of |-> s.code]

\* Whatever was resumed, re-planned or broken off before it, the delivery node
\* only ever runs on a code version that the reviewer approved or the oracle
\* passed (the comment on status "completed" in _materialize_status).
OnlyJudgedCodeIsDelivered == next = "delivery" => Judged(st)

(***************************************************************************)
(* Each loop stays within its budget, counting one more pass for each      *)
(* answer a user gave: verification runs within max_iterations, reviews    *)
(* within max_revisions + 1, tool turns within max_dev_rounds.             *)
(***************************************************************************)
VerifyRoundsBounded == st.verify_round <= st.max_iterations + st.user_directives

ReviewRoundsBounded == st.revision_round <= st.max_revisions + 1 + st.user_directives

ToolRoundsBounded == next = "tools" => st.dev_round <= MaxDevRounds

RoundsBounded == VerifyRoundsBounded /\ ReviewRoundsBounded /\ ToolRoundsBounded

(***************************************************************************)
(* The supersteps that the budgets of a task pay for in one invocation: a  *)
(* first plan, the developer's passes, each with the checks that follow    *)
(* it, a detour over supervisor and planner at every third failure of an   *)
(* oracle, and the delivery (the sum behind GRAPH_RECURSION_LIMIT).        *)
(***************************************************************************)
HasOracle(p, s) == p = "goal" /\ s.verify_command

PassSteps(p) == IF UsesTools(p) THEN 2 * MaxDevRounds + 1 ELSE 1

CheckSteps(p, s) == IF p = "goal" /\ ~s.verify_command THEN 2 ELSE 1

Passes(p, s) == IF HasOracle(p, s) THEN s.max_iterations ELSE s.max_revisions + 1

Detours(p, s) == IF HasOracle(p, s) THEN (s.max_iterations - 1) \div STUCK_EVERY ELSE 0

Supersteps(p, s) ==
  1 + Passes(p, s) * (PassSteps(p) + CheckSteps(p, s)) + 2 * Detours(p, s) + 1

SuperstepsBounded == steps <= Supersteps(spec.preset, st)

\* The supervisor is consulted at most once per STUCK_EVERY failures, across
\* re-plans, user answers and crashes (routers.STUCK_EVERY).
SupervisorPaced == STUCK_EVERY * st.supervisions <= st.verify_round

\* The budgets of a task hold whichever client resumes it, and when, the supervisor's pace
\* too, and no invocation takes more supersteps than they pay for.
BudgetsRespected == RoundsBounded /\ SupervisorPaced /\ SuperstepsBounded

\* What the developer has to be told besides the user's directives.
Feedback(s) ==
  (IF s.plan = "none" THEN {} ELSE {"plan"})
    \cup (IF s.review.decision = "revision_required" /\ s.review.by = "reviewer"
          THEN {"review"} ELSE {})
    \cup (IF s.verification.result = "failed" THEN {"verification"} ELSE {})

\* No developer pass is blind: its prompt or its transcript carries the latest
\* plan, the latest request for a revision and the latest verification failure
\* (the transcript-push of roles/reviewer.py, verifier.py and planner.py).
DeveloperIsNeverBlind ==
  live /\ next = "developer" => Feedback(st) \subseteq prompt_of(spec.preset, st)

\* A tool call in the developer's transcript is answered before the next
\* message, through approval halts, denials and answers of the user.
ToolCallsAnswered == ~st.dev.torn

\* A run of a preset with a delivery node that returns has a verdict or a
\* question to its user: it is never left "running" (_materialize_status).
ReturnedRunIsSettled ==
  /\ outcome = "returned"
  /\ "delivery" \in PresetNodes(spec.preset)
  => Status # "running"

\* With a user who answers, every task of a preset with a delivery node is settled
\* unless an exception ends its run: the budgets, and not LangGraph's recursion
\* limit, end every loop of the graph and every round of questions.
EveryTaskConcludes ==
  <>(\/ outcome = "returned" /\ Status \in {"completed", "failed"}
     \/ outcome = "raised"
     \/ "delivery" \notin PresetNodes(spec.preset))

\* An invocation has work that waits for nobody: an answered tool call counts as
\* parked until its result is checkpointed.
Working == live /\ next # END /\ gate # "answered"

Lifecycle == INSTANCE TaskLifecycle WITH status <- Status, working <- Working

\* Every step of a run is a step of the status machine its clients poll.
ImplementsLifecycle == Lifecycle!Spec

(***************************************************************************)
(* Statements of the docs that the code does not keep.                     *)
(***************************************************************************)

\* SECURITY.md:39: an approval halt is resumed with POST /tasks/{id}/resume.
ApprovalIsAnswered == [][gate = "halted" /\ live' => gate' = "answered"]_vars

\* service.py:250: the next developer pass reads the user's directive directly.
DeveloperReadsDirectives ==
  live /\ next = "developer" /\ st.user_directives > 0
    => "directive" \in prompt_of(spec.preset, st)
=============================================================================
