----------------------------- MODULE TaskState -----------------------------
(***************************************************************************)
(* The task state of agent_room/state.py and what each role node of        *)
(* agent_room/roles/ does to it: one operator per role, from the state and *)
(* the model's answer to the state with the node's update applied.         *)
(*                                                                         *)
(* Data is abstracted to what routing, status and the developer's prompt   *)
(* tell apart.  A text is absent, blank (the empty string, falsy in the    *)
(* code) or a text.  Code is numbered: `code` counts the code artifacts,   *)
(* so it names the version that a review, an oracle run or a delivery is   *)
(* about.  The developer's transcript `dev_messages` keeps its newest      *)
(* message's kind, whether some tool call was buried unanswered, and of    *)
(* which kinds of input it holds the newest item.                          *)
(***************************************************************************)
EXTENDS Routing

CONSTANT MaxDevRounds   \* NodeSpec.max_dev_rounds of the developer

ASSUME MaxDevRoundsAssumption == MaxDevRounds \in Nat \ {0}

Kinds == {"plan", "review", "verification", "directive"}

Texts == {"none", "blank", "text"}

Decisions == {"none", "approved", "revision_required", "need_user_decision"}

StuckActions == {"continue", "replan", "ask_user", "abort"}

\* A ReviewerDecision, who wrote it and the code it judged.
Reviews == [decision : Decisions,
            by : {"nobody", "reviewer", "supervisor", "gate", "user"},
            of : Nat]

Verifications == [result : {"none", "passed", "failed"}, of : Nat]

Deliveries == [text : Texts, of : Nat]

Transcripts == [tail : {"empty", "human", "calls", "answer", "results"},
                torn : BOOLEAN,
                known : SUBSET Kinds]

States ==
  [plan : Texts, code : Nat, review : Reviews, delivery : Deliveries,
   revision_round : Nat, max_revisions : Nat,
   user_directives : Nat, open_questions : BOOLEAN,
   dev : Transcripts, dev_round : Nat,
   verify_command : BOOLEAN, verification : Verifications,
   verify_round : Nat, max_iterations : Nat \ {0},
   stuck_decision : {"none"} \cup StuckActions,
   supervisions : Nat]

NoReview == [decision |-> "none", by |-> "nobody", of |-> 0]

\* _initial_state: max_revisions, max_iterations and verify_command are the request's.
initial_state(revisions, iterations, oracle) ==
  [plan |-> "none", code |-> 0, review |-> NoReview,
   delivery |-> [text |-> "none", of |-> 0],
   revision_round |-> 0, max_revisions |-> revisions,
   user_directives |-> 0, open_questions |-> FALSE,
   dev |-> [tail |-> "empty", torn |-> FALSE, known |-> {}], dev_round |-> 0,
   verify_command |-> oracle, verification |-> [result |-> "none", of |-> 0],
   verify_round |-> 0, max_iterations |-> iterations,
   stuck_decision |-> "none", supervisions |-> 0]

-----------------------------------------------------------------------------
(***************************************************************************)
(* The developer's transcript.                                             *)
(***************************************************************************)

\* What developer_prompt_builder renders from the state.
rendered(s) ==
  {"plan", "directive"}
    \cup (IF s.review.decision = "revision_required" THEN {"review"} ELSE {})

\* The push of roles/{planner,reviewer,verifier}.py: only into an open
\* transcript, with a fresh tool budget.
pushed(s, kind) ==
  IF s.dev.tail = "empty" THEN s
  ELSE [s EXCEPT !.dev = [tail |-> "human",
                          torn |-> @.torn \/ @.tail = "calls",
                          known |-> @.known \cup {kind}],
                 !.dev_round = 0]

\* The newest item of this kind is not in the transcript.
superseded(s, kind) == [s EXCEPT !.dev.known = @ \ {kind}]

\* The kinds of input whose newest item the developer's next prompt carries.
prompt_of(p, s) ==
  IF UsesTools(p) /\ s.dev.tail # "empty" THEN s.dev.known ELSE rendered(s)

-----------------------------------------------------------------------------
(***************************************************************************)
(* The roles.                                                              *)
(***************************************************************************)

planner(s, plan) == pushed([s EXCEPT !.plan = plan], "plan")

planner_gate(s, plan, questions) ==
  [s EXCEPT !.plan = plan,
            !.open_questions = questions,
            !.review = IF questions
                       THEN [decision |-> "need_user_decision", by |-> "gate", of |-> s.code]
                       ELSE @]

\* The one-shot developer renders its prompt from the state on every pass.
developer(s) == [s EXCEPT !.code = @ + 1]

budget_used(s) == s.dev_round >= MaxDevRounds

\* One turn of the tool-using developer.  A first turn persists its prompt;
\* later turns add the model's message only.  `asks`: it calls tools.
developer_react(s, asks) ==
  [s EXCEPT !.dev = [tail |-> IF asks THEN "calls" ELSE "answer",
                     torn |-> @.torn \/ @.tail = "calls",
                     known |-> IF @.tail = "empty" THEN rendered(s) ELSE @.known],
            !.dev_round = @ + 1,
            !.code = IF asks THEN @ ELSE @ + 1]

\* A denied call leaves no ToolMessage behind.
tools_deny_silent(s, verdict) ==
  IF verdict = "deny" THEN s ELSE [s EXCEPT !.dev.tail = "results"]

\* ToolNode answers every call of the newest message: with its result, with the
\* recoverable error text, or in approval mode with the denial.
tools(s, verdict) == [s EXCEPT !.dev.tail = "results"]

reviewed(s, decision) ==
  [s EXCEPT !.review = [decision |-> decision, by |-> "reviewer", of |-> s.code],
            !.revision_round = @ + 1]

\* The verdict is recorded but a revision is not pushed.
reviewer_silent(s, decision) == superseded(reviewed(s, decision), "review")

reviewer(s, decision) ==
  IF decision = "revision_required"
  THEN pushed(reviewed(s, decision), "review")
  ELSE superseded(reviewed(s, decision), "review")

\* FocusCheck first; it escalates only while no user directive was given.
reviewer_two_call(s, escalate, decision) ==
  IF escalate /\ s.user_directives = 0
  THEN [reviewed(s, "need_user_decision") EXCEPT !.open_questions = TRUE]
  ELSE [reviewed(s, decision) EXCEPT !.open_questions = FALSE]

\* The round is counted only when the oracle passed.
verifier_uncounted(s, result) ==
  IF ~s.verify_command
  THEN [s EXCEPT !.verification = [result |-> "none", of |-> 0]]
  ELSE LET ran == [s EXCEPT !.verification = [result |-> result, of |-> s.code]]
       IN  IF result = "failed" THEN pushed(ran, "verification") ELSE ran

\* An oracle that passed once is not run again.
verifier_cached(s, result) ==
  IF ~s.verify_command \/ s.verification.result = "passed"
  THEN s
  ELSE LET ran == [s EXCEPT !.verification = [result |-> result, of |-> s.code],
                            !.verify_round = @ + 1]
       IN  IF result = "failed" THEN pushed(ran, "verification") ELSE ran

\* A failed run (rejected command, spawn failure and timeout included) is pushed.
verifier(s, result) ==
  IF ~s.verify_command
  THEN [s EXCEPT !.verification = [result |-> "none", of |-> 0]]
  ELSE LET ran == [s EXCEPT !.verification = [result |-> result, of |-> s.code],
                            !.verify_round = @ + 1]
       IN  IF result = "failed" THEN pushed(ran, "verification") ELSE ran

supervisor(s, action) ==
  [s EXCEPT !.stuck_decision = action,
            !.supervisions = @ + 1,
            !.review = IF action = "ask_user"
                       THEN [decision |-> "need_user_decision", by |-> "supervisor", of |-> s.code]
                       ELSE @]

delivery(s, text) == [s EXCEPT !.delivery = [text |-> text, of |-> s.code]]
=============================================================================
