--------------------------- MODULE TaskRunProofs ---------------------------
(***************************************************************************)
(* Proofs about TaskRun, for every preset, budget, answer and client.      *)
(***************************************************************************)
EXTENDS TaskRun, TLAPS

(***************************************************************************)
(* Each role node maps a task state to a task state.                       *)
(***************************************************************************)

LEMMA CodeType == ASSUME NEW s \in States PROVE s.code \in Nat
BY DEF States

(***************************************************************************)
(* An update of several fields is made one field at a time.                *)
(***************************************************************************)
LEMMA FieldType ==
  ASSUME NEW s \in States
  PROVE  /\ \A r \in Reviews : [s EXCEPT !.review = r] \in States
         /\ \A v \in Verifications : [s EXCEPT !.verification = v] \in States
         /\ \A d \in Transcripts : [s EXCEPT !.dev = d] \in States
         /\ \A n \in Nat : [s EXCEPT !.code = n] \in States
         /\ \A n \in Nat : [s EXCEPT !.dev_round = n] \in States
         /\ \A n \in Nat : [s EXCEPT !.revision_round = n] \in States
         /\ \A n \in Nat : [s EXCEPT !.verify_round = n] \in States
         /\ \A n \in Nat : [s EXCEPT !.user_directives = n] \in States
         /\ \A n \in Nat : [s EXCEPT !.supervisions = n] \in States
         /\ \A b \in BOOLEAN : [s EXCEPT !.open_questions = b] \in States
         /\ \A a \in StuckActions : [s EXCEPT !.stuck_decision = a] \in States
<1>1. \A r \in Reviews : [s EXCEPT !.review = r] \in States
  BY DEF States
<1>2. \A v \in Verifications : [s EXCEPT !.verification = v] \in States
  BY DEF States
<1>3. \A d \in Transcripts : [s EXCEPT !.dev = d] \in States
  BY DEF States
<1>4. \A n \in Nat : [s EXCEPT !.code = n] \in States
  BY DEF States
<1>5. \A n \in Nat : [s EXCEPT !.dev_round = n] \in States
  BY DEF States
<1>6. \A n \in Nat : [s EXCEPT !.revision_round = n] \in States
  BY DEF States
<1>7. \A n \in Nat : [s EXCEPT !.verify_round = n] \in States
  BY DEF States
<1>8. \A n \in Nat : [s EXCEPT !.user_directives = n] \in States
  BY DEF States
<1>9. \A n \in Nat : [s EXCEPT !.supervisions = n] \in States
  BY DEF States
<1>10. \A b \in BOOLEAN : [s EXCEPT !.open_questions = b] \in States
  BY DEF States
<1>11. \A a \in StuckActions : [s EXCEPT !.stuck_decision = a] \in States
  BY DEF States
<1> QED BY <1>1, <1>2, <1>3, <1>4, <1>5, <1>6, <1>7, <1>8, <1>9, <1>10, <1>11

LEMMA FieldsType ==
  ASSUME NEW s \in States
  PROVE  /\ \A x \in Reviews, n \in Nat : [s EXCEPT !.review = x, !.revision_round = n] \in States
         /\ \A x \in Reviews, n \in Nat : [s EXCEPT !.review = x, !.user_directives = n] \in States
         /\ \A x \in Verifications, n \in Nat : [s EXCEPT !.verification = x, !.verify_round = n] \in States
         /\ \A x \in StuckActions, n \in Nat : [s EXCEPT !.stuck_decision = x, !.supervisions = n] \in States
         /\ \A x \in Transcripts, n \in Nat : [s EXCEPT !.dev = x, !.dev_round = n] \in States
<1>1. \A x \in Reviews, n \in Nat : [s EXCEPT !.review = x, !.revision_round = n] \in States
  <2> TAKE x \in Reviews, n \in Nat
  <2> DEFINE once == [s EXCEPT !.review = x]
  <2>1. once \in States
    BY FieldType
  <2>2. [s EXCEPT !.review = x, !.revision_round = n] = [once EXCEPT !.revision_round = n]
    BY DEF States
  <2> HIDE DEF once
  <2> QED BY <2>1, <2>2, FieldType
<1>2. \A x \in Reviews, n \in Nat : [s EXCEPT !.review = x, !.user_directives = n] \in States
  <2> TAKE x \in Reviews, n \in Nat
  <2> DEFINE once == [s EXCEPT !.review = x]
  <2>1. once \in States
    BY FieldType
  <2>2. [s EXCEPT !.review = x, !.user_directives = n] = [once EXCEPT !.user_directives = n]
    BY DEF States
  <2> HIDE DEF once
  <2> QED BY <2>1, <2>2, FieldType
<1>3. \A x \in Verifications, n \in Nat : [s EXCEPT !.verification = x, !.verify_round = n] \in States
  <2> TAKE x \in Verifications, n \in Nat
  <2> DEFINE once == [s EXCEPT !.verification = x]
  <2>1. once \in States
    BY FieldType
  <2>2. [s EXCEPT !.verification = x, !.verify_round = n] = [once EXCEPT !.verify_round = n]
    BY DEF States
  <2> HIDE DEF once
  <2> QED BY <2>1, <2>2, FieldType
<1>4. \A x \in StuckActions, n \in Nat : [s EXCEPT !.stuck_decision = x, !.supervisions = n] \in States
  <2> TAKE x \in StuckActions, n \in Nat
  <2> DEFINE once == [s EXCEPT !.stuck_decision = x]
  <2>1. once \in States
    BY FieldType
  <2>2. [s EXCEPT !.stuck_decision = x, !.supervisions = n] = [once EXCEPT !.supervisions = n]
    BY DEF States
  <2> HIDE DEF once
  <2> QED BY <2>1, <2>2, FieldType
<1>5. \A x \in Transcripts, n \in Nat : [s EXCEPT !.dev = x, !.dev_round = n] \in States
  <2> TAKE x \in Transcripts, n \in Nat
  <2> DEFINE once == [s EXCEPT !.dev = x]
  <2>1. once \in States
    BY FieldType
  <2>2. [s EXCEPT !.dev = x, !.dev_round = n] = [once EXCEPT !.dev_round = n]
    BY DEF States
  <2> HIDE DEF once
  <2> QED BY <2>1, <2>2, FieldType
<1> QED BY <1>1, <1>2, <1>3, <1>4, <1>5

LEMMA CountersType ==
  ASSUME NEW s \in States
  PROVE  /\ s.revision_round + 1 \in Nat
         /\ s.user_directives + 1 \in Nat
         /\ s.verify_round + 1 \in Nat
         /\ s.supervisions + 1 \in Nat
         /\ s.dev_round + 1 \in Nat
         /\ s.code + 1 \in Nat
BY DEF States

LEMMA PushedType ==
  ASSUME NEW s \in States, NEW kind \in Kinds
  PROVE  /\ pushed(s, kind) \in States
         /\ superseded(s, kind) \in States
BY DEF pushed, superseded, States, Transcripts, Kinds

LEMMA PlannerType ==
  ASSUME NEW s \in States, NEW plan \in Texts, NEW questions \in BOOLEAN
  PROVE  /\ planner(s, plan) \in States
         /\ planner_gate(s, plan, questions) \in States
<1>1. [s EXCEPT !.plan = plan] \in States
  BY DEF States
<1>2. planner(s, plan) \in States
  BY <1>1, PushedType DEF planner, Kinds
<1>3. planner_gate(s, plan, questions) \in States
  BY DEF planner_gate, States, Reviews, Decisions
<1> QED BY <1>2, <1>3

LEMMA DeveloperType ==
  ASSUME NEW s \in States, NEW asks \in BOOLEAN
  PROVE  /\ developer(s) \in States
         /\ developer_react(s, asks) \in States
<1>1. developer(s) \in States
  BY DEF developer, States
<1>2. rendered(s) \in SUBSET Kinds
  BY DEF rendered, Kinds
<1>3. developer_react(s, asks) \in States
  <2> DEFINE dev == [tail |-> IF asks THEN "calls" ELSE "answer",
                     torn |-> s.dev.torn \/ s.dev.tail = "calls",
                     known |-> IF s.dev.tail = "empty" THEN rendered(s) ELSE s.dev.known]
             turn == [s EXCEPT !.dev = dev, !.dev_round = s.dev_round + 1]
             code == IF asks THEN s.code ELSE s.code + 1
  <2>1. dev \in Transcripts
    BY <1>2 DEF Transcripts, States
  <2>2. turn \in States /\ code \in Nat
    BY <2>1, FieldsType, CountersType, CodeType
  <2>3. developer_react(s, asks) = [turn EXCEPT !.code = code]
    BY DEF developer_react, States
  <2> HIDE DEF turn, code
  <2> QED BY <2>2, <2>3, FieldType
<1> QED BY <1>1, <1>3

LEMMA ToolsType ==
  ASSUME NEW s \in States, NEW verdict
  PROVE  tools(s, verdict) \in States
BY DEF tools, States, Transcripts

LEMMA ReviewerType ==
  ASSUME NEW s \in States, NEW decision \in Decisions, NEW escalate \in BOOLEAN
  PROVE  /\ reviewed(s, decision) \in States
         /\ reviewer(s, decision) \in States
         /\ reviewer_two_call(s, escalate, decision) \in States
<1>1. ASSUME NEW d \in Decisions
      PROVE  reviewed(s, d) \in States
  <2>1. [decision |-> d, by |-> "reviewer", of |-> s.code] \in Reviews
    BY CodeType DEF Reviews
  <2> QED BY <2>1, FieldsType, CountersType DEF reviewed
<1>2. reviewer(s, decision) \in States
  BY <1>1, PushedType DEF reviewer, Kinds
<1>3. reviewer_two_call(s, escalate, decision) \in States
  <2>1. reviewed(s, "need_user_decision") \in States
    BY <1>1 DEF Decisions
  <2>2. reviewed(s, decision) \in States
    BY <1>1
  <2>3. \A r \in States, b \in BOOLEAN : [r EXCEPT !.open_questions = b] \in States
    BY DEF States
  <2> QED BY <2>1, <2>2, <2>3 DEF reviewer_two_call
<1> QED BY <1>1, <1>2, <1>3

LEMMA VerifierType ==
  ASSUME NEW s \in States, NEW result \in {"passed", "failed"}
  PROVE  verifier(s, result) \in States
<1> DEFINE ran == [s EXCEPT !.verification = [result |-> result, of |-> s.code],
                            !.verify_round = @ + 1]
<1>1. /\ [result |-> result, of |-> s.code] \in Verifications
      /\ [result |-> "none", of |-> 0] \in Verifications
  BY CodeType DEF Verifications
<1>2. ran \in States
  BY <1>1, FieldsType, CountersType
<1>3. pushed(ran, "verification") \in States
  BY <1>2, PushedType DEF Kinds
<1>4. [s EXCEPT !.verification = [result |-> "none", of |-> 0]] \in States
  BY <1>1, FieldType
<1> QED BY <1>2, <1>3, <1>4 DEF verifier

LEMMA SupervisorType ==
  ASSUME NEW s \in States, NEW action \in StuckActions
  PROVE  supervisor(s, action) \in States
<1> DEFINE question == [decision |-> "need_user_decision", by |-> "supervisor", of |-> s.code]
           paced == [s EXCEPT !.stuck_decision = action, !.supervisions = @ + 1]
<1>1. paced \in States
  BY FieldsType, CountersType
<1>2. question \in Reviews
  BY CodeType DEF Reviews, Decisions
<1>3. supervisor(s, action)
        = IF action = "ask_user" THEN [paced EXCEPT !.review = question] ELSE paced
  BY DEF supervisor, States
<1> QED BY <1>1, <1>2, <1>3, FieldType

LEMMA DeliveryType ==
  ASSUME NEW s \in States, NEW text \in Texts
  PROVE  delivery(s, text) \in States
BY DEF delivery, States, Deliveries

LEMMA AnswerType ==
  ASSUME NEW s \in States
  PROVE  /\ reviewer_answer(s) \in States
         /\ planner_answer(s) \in States
<1>1. /\ [decision |-> "revision_required", by |-> "user", of |-> s.code] \in Reviews
      /\ NoReview \in Reviews
  BY CodeType DEF Reviews, Decisions, NoReview
<1>2. "directive" \in Kinds
  BY DEF Kinds
<1>3. reviewer_answer(s) \in States
  BY <1>1, <1>2, FieldsType, CountersType, PushedType DEF reviewer_answer
<1>4. planner_answer(s) \in States
  <2> DEFINE answered == [s EXCEPT !.review = NoReview,
                                   !.user_directives = s.user_directives + 1]
  <2>1. answered \in States
    BY <1>1, FieldsType, CountersType
  <2>2. planner_answer(s)
          = superseded([answered EXCEPT !.open_questions = FALSE], "directive")
    BY DEF planner_answer, States
  <2>3. [answered EXCEPT !.open_questions = FALSE] \in States
    <3> HIDE DEF answered
    <3> QED BY <2>1, FieldType
  <2> HIDE DEF answered
  <2> QED BY <1>2, <2>2, <2>3, PushedType
<1> QED BY <1>3, <1>4

-----------------------------------------------------------------------------
(***************************************************************************)
(* The inductive invariant.                                                *)
(***************************************************************************)

\* Only a tool-using developer has a transcript.
ToollessTranscript == ~UsesTools(spec.preset) => st.dev.tail = "empty"

TypeInv == TypeOK /\ ToollessTranscript

\* While a node is to run that can lead to another verification or review,
\* that round is still within the budget.
RoundsLeft ==
  next \notin {"delivery", END} =>
    /\ st.verify_round < st.max_iterations + st.user_directives
    /\ st.revision_round <= st.max_revisions + st.user_directives

\* A supervisor that is to run has STUCK_EVERY failures to its credit.
SupervisorDue ==
  next = "supervisor" => STUCK_EVERY * (st.supervisions + 1) <= st.verify_round

BudgetInv ==
  TypeInv /\ RoundsBounded /\ RoundsLeft /\ SupervisorPaced /\ SupervisorDue

(***************************************************************************)
(* An edge of a preset leads to a node of that preset, or to the end.      *)
(***************************************************************************)
LEMMA RouteType ==
  ASSUME NEW p \in PresetNames, NEW n \in GraphNodes(p), NEW s \in States,
         ~UsesTools(p) => s.dev.tail = "empty"
  PROVE  After(p, n, s) \in GraphNodes(p) \cup {END}
<1> USE DEF GraphNodes, PresetNodes
<1>1. CASE n = "planner"
  BY <1>1 DEF After, Branch, Roles
<1>2. CASE n = "developer"
  <2>1. DeveloperTarget(p) \in PresetNodes(p) \cup {END}
    BY DEF DeveloperTarget, PresetNames, Roles
  <2>2. s.dev.tail = "calls" => UsesTools(p)
    OBVIOUS
  <2>3. After(p, n, s) = developer_route(p, s)
    BY <1>2 DEF After
  <2> QED BY <2>1, <2>2, <2>3 DEF developer_route
<1>3. CASE n = "tools"
  BY <1>3 DEF After, UsesTools, Roles
<1>4. CASE n \in {"verify", "supervisor", "reviewer"}
  BY <1>4 DEF After, Branch
<1>5. CASE n = "delivery"
  BY <1>5 DEF After
<1> QED BY <1>1, <1>2, <1>3, <1>4, <1>5 DEF Roles, UsesTools, PresetNames

-----------------------------------------------------------------------------
(***************************************************************************)
(* Type correctness.                                                       *)
(***************************************************************************)

\* A superstep keeps the type if its node's update does.
LEMMA SuperstepType ==
  ASSUME TypeInv, NEW n \in GraphNodes(spec.preset), NEW s \in States,
         ~UsesTools(spec.preset) => s.dev.tail = "empty",
         Superstep(n, s)
  PROVE  TypeInv'
<1>1. spec.preset \in PresetNames
  BY RunAssumption DEF TypeInv, TypeOK, Specs
<1>2. /\ spec' = spec
      /\ st' = s
      /\ next' = After(spec.preset, n, s)
      /\ live' = live
      /\ gate' = "clear"
      /\ outcome' = outcome
      /\ steps < RecursionLimit
      /\ steps' = steps + 1
  BY DEF Superstep
<1>3. next' \in GraphNodes(spec'.preset) \cup {END}
  BY <1>1, <1>2, RouteType
<1>4. steps' \in 0..RecursionLimit
  BY <1>2, RunAssumption DEF TypeInv, TypeOK
<1>5. ToollessTranscript'
  BY <1>2 DEF ToollessTranscript
<1> QED BY <1>2, <1>3, <1>4, <1>5 DEF TypeInv, TypeOK

\* So does a resume that writes an answer.
LEMMA ReinvokeType ==
  ASSUME TypeInv, NEW n \in {"reviewer", "planner"}, NEW s \in States,
         ~UsesTools(spec.preset) => s.dev.tail = "empty",
         Resumed, Reinvoke(n, s)
  PROVE  TypeInv'
<1>1. spec.preset \in PresetNames /\ n \in GraphNodes(spec.preset)
  BY RunAssumption DEF TypeInv, TypeOK, Specs, Reinvoke, GraphNodes
<1>2. /\ spec' = spec
      /\ st' = s
      /\ next' = After(spec.preset, n, s)
      /\ live' = TRUE
      /\ gate' = "clear"
      /\ outcome' = "none"
      /\ steps' = 0
  BY DEF Resumed, Reinvoke
<1>3. next' \in GraphNodes(spec'.preset) \cup {END}
  BY <1>1, <1>2, RouteType
<1>4. steps' \in 0..RecursionLimit
  BY <1>2, RunAssumption
<1>5. ToollessTranscript'
  BY <1>2 DEF ToollessTranscript
<1> QED BY <1>2, <1>3, <1>4, <1>5 DEF TypeInv, TypeOK

\* No node but the tool-using developer and its tools opens a transcript.
LEMMA EmptyTranscript ==
  ASSUME NEW s \in States, s.dev.tail = "empty"
  PROVE  /\ \A plan : planner(s, plan).dev.tail = "empty"
         /\ \A plan, questions : planner_gate(s, plan, questions).dev.tail = "empty"
         /\ developer(s).dev.tail = "empty"
         /\ \A d : reviewer(s, d).dev.tail = "empty"
         /\ \A e, d : reviewer_two_call(s, e, d).dev.tail = "empty"
         /\ \A r : verifier(s, r).dev.tail = "empty"
         /\ \A a : supervisor(s, a).dev.tail = "empty"
         /\ \A t : delivery(s, t).dev.tail = "empty"
         /\ reviewer_answer(s).dev.tail = "empty"
         /\ planner_answer(s).dev.tail = "empty"
<1> USE DEF States, Transcripts
<1>1. \A plan : planner(s, plan).dev.tail = "empty"
  BY DEF planner, pushed
<1>2. \A plan, questions : planner_gate(s, plan, questions).dev.tail = "empty"
  BY DEF planner_gate
<1>3. developer(s).dev.tail = "empty"
  BY DEF developer
<1>4. \A d : reviewed(s, d).dev = s.dev
  BY DEF reviewed
<1>5. \A d : reviewer(s, d).dev.tail = "empty"
  BY DEF reviewed, reviewer, pushed, superseded
<1>6. \A e, d : reviewer_two_call(s, e, d).dev.tail = "empty"
  BY DEF reviewed, reviewer_two_call
<1>7. \A r : verifier(s, r).dev.tail = "empty"
  BY DEF verifier, pushed
<1>8. \A a : supervisor(s, a).dev.tail = "empty"
  BY DEF supervisor
<1>9. \A t : delivery(s, t).dev.tail = "empty"
  BY DEF delivery
<1>10. reviewer_answer(s).dev.tail = "empty"
  BY DEF reviewer_answer, superseded
<1>11. planner_answer(s).dev.tail = "empty"
  BY DEF planner_answer, superseded
<1> QED BY <1>1, <1>2, <1>3, <1>5, <1>6, <1>7, <1>8, <1>9, <1>10, <1>11

LEMMA AnswersType ==
  /\ Answers.text \subseteq Texts
  /\ Answers.asks \subseteq BOOLEAN
  /\ Answers.questions \subseteq BOOLEAN
  /\ Answers.decision \subseteq Decisions
  /\ Answers.oracle \subseteq {"passed", "failed"}
  /\ Answers.action \subseteq StuckActions
BY RunAssumption DEF Texts, Decisions

LEMMA InitType == Init => TypeInv
<1> SUFFICES ASSUME Init PROVE TypeInv
  OBVIOUS
<1>1. PICK r \in RevisionBudgets, i \in IterationBudgets, o \in BOOLEAN :
        st = initial_state(r, i, o)
  BY DEF Init, TaskRequests
<1>2. /\ r \in Nat /\ i \in Nat \ {0}
      /\ NoReview \in Reviews
      /\ [text |-> "none", of |-> 0] \in Deliveries
      /\ [tail |-> "empty", torn |-> FALSE, known |-> {}] \in Transcripts
      /\ [result |-> "none", of |-> 0] \in Verifications
  BY RunAssumption
     DEF NoReview, Reviews, Decisions, Deliveries, Texts, Transcripts, Kinds, Verifications
<1>3. st \in States
  BY <1>1, <1>2 DEF initial_state, States, Texts
<1>4. st.dev.tail = "empty"
  BY <1>1 DEF initial_state
<1>5. next \in GraphNodes(spec.preset)
  BY RunAssumption DEF Init, Specs, PresetEntry, GraphNodes, PresetNodes, PresetNames, Roles
<1>6. steps \in 0..RecursionLimit
  BY RunAssumption DEF Init
<1> QED BY <1>3, <1>4, <1>5, <1>6 DEF Init, TypeInv, TypeOK, ToollessTranscript

\* Every step keeps the type: an operation at a time.
LEMMA NextType == TypeInv /\ [Next]_vars => TypeInv'
<1> SUFFICES ASSUME TypeInv, [Next]_vars PROVE TypeInv'
  OBVIOUS
<1> USE AnswersType
<1>0. /\ st \in States
      /\ next \in GraphNodes(spec.preset) \cup {END}
      /\ ~UsesTools(spec.preset) => st.dev.tail = "empty"
      /\ \A n, s : Superstep(n, s) => n = next
  BY DEF TypeInv, TypeOK, ToollessTranscript, Superstep
<1>1. CASE Planner
  <2>1. PICK plan \in Answers.text, questions \in Answers.questions :
          Superstep("planner",
                    IF spec.preset = "planner_gate" THEN planner_gate(st, plan, questions)
                                                    ELSE planner(st, plan))
    BY <1>1 DEF Planner
  <2>2. "planner" \in GraphNodes(spec.preset)
    BY <1>0, <2>1 DEF END
  <2> QED BY <1>0, <2>1, <2>2, PlannerType, EmptyTranscript, SuperstepType
<1>2. CASE Developer
  <2>1. PICK asks \in Answers.asks :
          Superstep("developer",
                    IF UsesTools(spec.preset) THEN developer_react(st, asks) ELSE developer(st))
    BY <1>2 DEF Developer
  <2>2. "developer" \in GraphNodes(spec.preset)
    BY <1>0, <2>1 DEF END
  <2> QED BY <1>0, <2>1, <2>2, DeveloperType, EmptyTranscript, SuperstepType
<1>3. CASE ApprovalHalt
  BY <1>3 DEF ApprovalHalt, TypeInv, TypeOK, ToollessTranscript
<1>4. CASE Tools
  <2>1. PICK verdict : Superstep("tools", tools(st, verdict))
    BY <1>4 DEF Tools
  <2>2. "tools" \in GraphNodes(spec.preset) /\ UsesTools(spec.preset)
    BY <1>0, <2>1 DEF END, GraphNodes, PresetNodes, Roles
  <2> QED BY <1>0, <2>1, <2>2, ToolsType, SuperstepType
<1>5. CASE Reviewer
  <2>1. PICK decision \in Answers.decision, escalate \in Answers.questions :
          Superstep("reviewer",
                    IF spec.preset = "two_call_review"
                    THEN reviewer_two_call(st, escalate, decision)
                    ELSE reviewer(st, decision))
    BY <1>5 DEF Reviewer
  <2>2. "reviewer" \in GraphNodes(spec.preset)
    BY <1>0, <2>1 DEF END
  <2> QED BY <1>0, <2>1, <2>2, ReviewerType, EmptyTranscript, SuperstepType
<1>6. CASE Verify
  <2>1. PICK result \in Answers.oracle : Superstep("verify", verifier(st, result))
    BY <1>6 DEF Verify
  <2>2. "verify" \in GraphNodes(spec.preset)
    BY <1>0, <2>1 DEF END
  <2> QED BY <1>0, <2>1, <2>2, VerifierType, EmptyTranscript, SuperstepType
<1>7. CASE Supervisor
  <2>1. PICK action \in Answers.action : Superstep("supervisor", supervisor(st, action))
    BY <1>7 DEF Supervisor
  <2>2. "supervisor" \in GraphNodes(spec.preset)
    BY <1>0, <2>1 DEF END
  <2> QED BY <1>0, <2>1, <2>2, SupervisorType, EmptyTranscript, SuperstepType
<1>8. CASE Delivery
  <2>1. PICK text \in Answers.text : Superstep("delivery", delivery(st, text))
    BY <1>8 DEF Delivery
  <2>2. "delivery" \in GraphNodes(spec.preset)
    BY <1>0, <2>1 DEF END
  <2> QED BY <1>0, <2>1, <2>2, DeliveryType, EmptyTranscript, SuperstepType
<1>9. CASE Return \/ RecursionError \/ Raise
  BY <1>9 DEF Return, RecursionError, Raise, Ended, TypeInv, TypeOK, ToollessTranscript
<1>10. CASE ResumeAtReviewer
  BY <1>0, <1>10, AnswerType, EmptyTranscript, ReinvokeType DEF ResumeAtReviewer
<1>11. CASE ResumeAtPlanner
  BY <1>0, <1>11, AnswerType, EmptyTranscript, ReinvokeType DEF ResumeAtPlanner
<1>12. CASE ResumeToolCall
  BY <1>12, RunAssumption DEF ResumeToolCall, Resumed, TypeInv, TypeOK, ToollessTranscript
<1>13. CASE UNCHANGED vars
  BY <1>13 DEF vars, TypeInv, TypeOK, ToollessTranscript
<1> QED
  BY <1>1, <1>2, <1>3, <1>4, <1>5, <1>6, <1>7, <1>8, <1>9, <1>10, <1>11, <1>12, <1>13
     DEF Next, Node, Resume

LEMMA AlwaysTypeInv == Spec => []TypeInv
BY InitType, NextType, PTL DEF Spec

\* The checkpoint of a task is always well formed and the node it names is a node
\* of the task's own graph, or its end (build_uncompiled_from_spec's wiring).
THEOREM TypeCorrect == Spec => []TypeOK
<1>1. TypeInv => TypeOK
  BY DEF TypeInv
<1> QED BY <1>1, AlwaysTypeInv, PTL

-----------------------------------------------------------------------------
(***************************************************************************)
(* Delivery.                                                               *)
(***************************************************************************)

\* Only an approval and a passed oracle lead to the delivery node.
LEMMA DeliveryRoute ==
  ASSUME NEW p \in PresetNames, NEW n \in GraphNodes(p), NEW s \in States,
         After(p, n, s) = "delivery"
  PROVE  \/ n = "reviewer" /\ s.review.decision = "approved"
         \/ n = "verify" /\ s.verification.result = "passed"
<1>1. n \in {"planner", "developer", "tools", "verify", "supervisor", "reviewer", "delivery"}
  BY DEF GraphNodes, PresetNodes, Roles
<1>2. CASE n = "planner"
  BY <1>2 DEF After, Branch, planner_gate_router, END
<1>3. CASE n = "developer"
  BY <1>3 DEF After, developer_route, DeveloperTarget, END
<1>4. CASE n = "tools"
  BY <1>4 DEF After
<1>5. CASE n = "verify"
  BY <1>5 DEF After, Branch, goal_router, END
<1>6. CASE n = "supervisor"
  BY <1>6 DEF After, Branch, stuck_router, END
<1>7. CASE n = "reviewer"
  BY <1>7 DEF After, Branch, review_router, END
<1>8. CASE n = "delivery"
  BY <1>8 DEF After, END
<1> QED BY <1>1, <1>2, <1>3, <1>4, <1>5, <1>6, <1>7, <1>8

\* A reviewer that approves and an oracle that passes judge the current code.
LEMMA VerdictsAreCurrent ==
  ASSUME NEW s \in States
  PROVE  /\ \A d : reviewer(s, d).review.decision = "approved" => Judged(reviewer(s, d))
         /\ \A e, d : reviewer_two_call(s, e, d).review.decision = "approved"
                        => Judged(reviewer_two_call(s, e, d))
         /\ \A r : verifier(s, r).verification.result = "passed" => Judged(verifier(s, r))
         /\ reviewer_answer(s).review.decision = "revision_required"
<1>1. \A d : /\ reviewed(s, d).review = [decision |-> d, by |-> "reviewer", of |-> s.code]
             /\ reviewed(s, d).code = s.code
  BY DEF reviewed, States
<1>2. \A d : /\ reviewer(s, d).review = [decision |-> d, by |-> "reviewer", of |-> s.code]
             /\ reviewer(s, d).code = s.code
  BY DEF reviewed, reviewer, pushed, superseded, States
<1>3. \A e, d : /\ \E v : reviewer_two_call(s, e, d).review
                           = [decision |-> v, by |-> "reviewer", of |-> s.code]
                /\ reviewer_two_call(s, e, d).code = s.code
  BY DEF reviewed, reviewer_two_call, States
<1>4. \A r : verifier(s, r).verification.result = "passed" =>
        /\ verifier(s, r).verification = [result |-> "passed", of |-> s.code]
        /\ verifier(s, r).code = s.code
  BY DEF verifier, pushed, States
<1>5. reviewer_answer(s).review.decision = "revision_required"
  BY DEF reviewer_answer, superseded, States
<1>6. ASSUME NEW d, reviewer(s, d).review.decision = "approved"
      PROVE  Judged(reviewer(s, d))
  <2>1. reviewer(s, d).review = [decision |-> d, by |-> "reviewer", of |-> s.code]
    BY <1>2
  <2>2. d = "approved"
    BY <1>6, <2>1
  <2> QED BY <1>2, <2>1, <2>2 DEF Judged
<1>7. ASSUME NEW e, NEW d, reviewer_two_call(s, e, d).review.decision = "approved"
      PROVE  Judged(reviewer_two_call(s, e, d))
  <2>1. PICK v : reviewer_two_call(s, e, d).review
                   = [decision |-> v, by |-> "reviewer", of |-> s.code]
    BY <1>3
  <2>2. v = "approved"
    BY <1>7, <2>1
  <2> QED BY <1>3, <2>1, <2>2 DEF Judged
<1>8. \A r : verifier(s, r).verification.result = "passed" => Judged(verifier(s, r))
  BY <1>4 DEF Judged
<1> QED BY <1>5, <1>6, <1>7, <1>8

LEMMA NextJudged == TypeInv /\ OnlyJudgedCodeIsDelivered /\ [Next]_vars
                      => OnlyJudgedCodeIsDelivered'
<1> SUFFICES ASSUME TypeInv, OnlyJudgedCodeIsDelivered, [Next]_vars, next' = "delivery"
             PROVE  Judged(st)'
  BY DEF OnlyJudgedCodeIsDelivered
<1>0. /\ st \in States
      /\ spec.preset \in PresetNames
      /\ st' \in States
      /\ next \in GraphNodes(spec.preset) \cup {END}
  BY NextType, RunAssumption DEF TypeInv, TypeOK, Specs
<1>1. ASSUME NEW n, NEW s, Superstep(n, s), n # END
      PROVE  \/ n = "reviewer" /\ st'.review.decision = "approved" /\ st' = s
             \/ n = "verify" /\ st'.verification.result = "passed" /\ st' = s
  <2>1. n \in GraphNodes(spec.preset) /\ st' = s /\ After(spec.preset, n, s) = "delivery"
    BY <1>0, <1>1 DEF Superstep
  <2> QED BY <1>0, <2>1, DeliveryRoute
<1>2. CASE Reviewer
  BY <1>0, <1>1, <1>2, VerdictsAreCurrent DEF Reviewer, END
<1>3. CASE Verify
  BY <1>0, <1>1, <1>3, VerdictsAreCurrent DEF Verify, END
<1>4. CASE Planner \/ Developer \/ Tools \/ Supervisor \/ Delivery
  BY <1>1, <1>4 DEF Planner, Developer, Tools, Supervisor, Delivery, END
<1>5. CASE ApprovalHalt \/ Return \/ RecursionError \/ Raise \/ ResumeToolCall \/ UNCHANGED vars
  BY <1>5 DEF ApprovalHalt, Return, RecursionError, Raise, Ended, ResumeToolCall, vars,
              OnlyJudgedCodeIsDelivered
<1>6. ASSUME NEW n \in {"reviewer", "planner"}, Reinvoke(n, st')
      PROVE  n = "reviewer" /\ st'.review.decision = "approved"
  <2>1. n \in GraphNodes(spec.preset) /\ After(spec.preset, n, st') = "delivery"
    BY <1>6 DEF Reinvoke, GraphNodes
  <2> QED BY <1>0, <1>6, <2>1, DeliveryRoute
<1>7. CASE ResumeAtReviewer
  BY <1>0, <1>6, <1>7, VerdictsAreCurrent DEF ResumeAtReviewer, Reinvoke
<1>8. CASE ResumeAtPlanner
  BY <1>6, <1>8 DEF ResumeAtPlanner, Reinvoke
<1> QED
  BY <1>2, <1>3, <1>4, <1>5, <1>7, <1>8 DEF Next, Node, Resume

\* Whichever preset runs, whatever the models answer, and whoever resumes the task
\* when and where, the delivery node only runs on code that the reviewer approved
\* or the oracle passed: no verdict on older code ever reaches it.
THEOREM DeliveryIsJudged == Spec => []OnlyJudgedCodeIsDelivered
<1>1. Init => OnlyJudgedCodeIsDelivered
  BY DEF Init, OnlyJudgedCodeIsDelivered, PresetEntry
<1> QED BY <1>1, NextJudged, AlwaysTypeInv, PTL DEF Spec

-----------------------------------------------------------------------------
(***************************************************************************)
(* Budgets.                                                                *)
(***************************************************************************)

\* t keeps every budget and counter of s, but for those named in `changed`.
KeepsCounters(s, t, changed) ==
  /\ t.max_iterations = s.max_iterations
  /\ t.max_revisions = s.max_revisions
  /\ t.verify_command = s.verify_command
  /\ "verify_round" \in changed \/ t.verify_round = s.verify_round
  /\ "revision_round" \in changed \/ t.revision_round = s.revision_round
  /\ "supervisions" \in changed \/ t.supervisions = s.supervisions
  /\ "user_directives" \in changed \/ t.user_directives = s.user_directives

LEMMA PushKeepsCounters ==
  ASSUME NEW s \in States, NEW kind
  PROVE  /\ KeepsCounters(s, pushed(s, kind), {})
         /\ pushed(s, kind).verification = s.verification
         /\ KeepsCounters(s, superseded(s, kind), {})
BY DEF pushed, superseded, KeepsCounters, States

LEMMA NodesKeepCounters ==
  ASSUME NEW s \in States
  PROVE  /\ \A plan \in Texts : KeepsCounters(s, planner(s, plan), {})
         /\ \A plan, questions : KeepsCounters(s, planner_gate(s, plan, questions), {})
         /\ KeepsCounters(s, developer(s), {})
         /\ \A asks : KeepsCounters(s, developer_react(s, asks), {})
         /\ \A verdict : KeepsCounters(s, tools(s, verdict), {})
         /\ \A text : KeepsCounters(s, delivery(s, text), {})
<1>1. \A plan \in Texts : KeepsCounters(s, planner(s, plan), {})
  <2> TAKE plan \in Texts
  <2>1. [s EXCEPT !.plan = plan] \in States /\ KeepsCounters(s, [s EXCEPT !.plan = plan], {})
    BY DEF States, KeepsCounters
  <2> QED BY <2>1, PushKeepsCounters DEF planner, KeepsCounters
<1>2. \A plan, questions : KeepsCounters(s, planner_gate(s, plan, questions), {})
  BY DEF planner_gate, KeepsCounters, States
<1>3. KeepsCounters(s, developer(s), {})
  BY DEF developer, KeepsCounters, States
<1>4. \A asks : KeepsCounters(s, developer_react(s, asks), {})
  BY DEF developer_react, KeepsCounters, States
<1>5. \A verdict : KeepsCounters(s, tools(s, verdict), {})
  BY DEF tools, KeepsCounters, States
<1>6. \A text : KeepsCounters(s, delivery(s, text), {})
  BY DEF delivery, KeepsCounters, States
<1> QED BY <1>1, <1>2, <1>3, <1>4, <1>5, <1>6

\* Each of the other nodes counts one thing.
LEMMA NodesCount ==
  ASSUME NEW s \in States
  PROVE  /\ \A d \in Decisions :
              /\ KeepsCounters(s, reviewer(s, d), {"revision_round"})
              /\ reviewer(s, d).revision_round = s.revision_round + 1
         /\ \A e \in BOOLEAN, d \in Decisions :
              /\ KeepsCounters(s, reviewer_two_call(s, e, d), {"revision_round"})
              /\ reviewer_two_call(s, e, d).revision_round = s.revision_round + 1
         /\ \A r \in {"passed", "failed"} :
              /\ KeepsCounters(s, verifier(s, r), {"verify_round"})
              /\ IF s.verify_command
                 THEN /\ verifier(s, r).verify_round = s.verify_round + 1
                      /\ verifier(s, r).verification.result = r
                 ELSE /\ verifier(s, r).verify_round = s.verify_round
                      /\ verifier(s, r).verification.result = "none"
         /\ \A a : /\ KeepsCounters(s, supervisor(s, a), {"supervisions"})
                   /\ supervisor(s, a).supervisions = s.supervisions + 1
         /\ KeepsCounters(s, reviewer_answer(s), {"user_directives"})
         /\ reviewer_answer(s).user_directives = s.user_directives + 1
         /\ KeepsCounters(s, planner_answer(s), {"user_directives"})
         /\ planner_answer(s).user_directives = s.user_directives + 1
<1>1. \A d \in Decisions : /\ reviewed(s, d) \in States
                          /\ KeepsCounters(s, reviewed(s, d), {"revision_round"})
                          /\ reviewed(s, d).revision_round = s.revision_round + 1
  <2> TAKE d \in Decisions
  <2>1. reviewed(s, d) \in States
    BY ReviewerType
  <2> QED BY <2>1 DEF reviewed, KeepsCounters, States
<1>2. \A d \in Decisions : /\ KeepsCounters(s, reviewer(s, d), {"revision_round"})
                          /\ reviewer(s, d).revision_round = s.revision_round + 1
  BY <1>1, PushKeepsCounters DEF reviewer, KeepsCounters
<1>3. \A e \in BOOLEAN, d \in Decisions :
        /\ KeepsCounters(s, reviewer_two_call(s, e, d), {"revision_round"})
        /\ reviewer_two_call(s, e, d).revision_round = s.revision_round + 1
  BY <1>1 DEF reviewer_two_call, KeepsCounters, States, Decisions
<1>4. ASSUME NEW r \in {"passed", "failed"}
      PROVE  /\ KeepsCounters(s, verifier(s, r), {"verify_round"})
             /\ IF s.verify_command
                THEN /\ verifier(s, r).verify_round = s.verify_round + 1
                     /\ verifier(s, r).verification.result = r
                ELSE /\ verifier(s, r).verify_round = s.verify_round
                     /\ verifier(s, r).verification.result = "none"
  <2> DEFINE ran == [s EXCEPT !.verification = [result |-> r, of |-> s.code],
                              !.verify_round = @ + 1]
  <2>1. ran \in States
    BY FieldsType, CountersType, CodeType DEF Verifications
  <2>2. /\ KeepsCounters(s, ran, {"verify_round"})
        /\ ran.verify_round = s.verify_round + 1
        /\ ran.verification.result = r
    BY DEF KeepsCounters, States
  <2>3. /\ KeepsCounters(ran, pushed(ran, "verification"), {})
        /\ pushed(ran, "verification").verification = ran.verification
    BY <2>1, PushKeepsCounters
  <2>4. CASE s.verify_command
    <3>1. verifier(s, r) = IF r = "failed" THEN pushed(ran, "verification") ELSE ran
      BY <2>4 DEF verifier
    <3> HIDE DEF ran
    <3> QED BY <2>2, <2>3, <2>4, <3>1 DEF KeepsCounters
  <2>5. CASE ~s.verify_command
    BY <2>5 DEF verifier, KeepsCounters, States
  <2> QED BY <2>4, <2>5
<1>5. \A a : /\ KeepsCounters(s, supervisor(s, a), {"supervisions"})
            /\ supervisor(s, a).supervisions = s.supervisions + 1
  BY DEF supervisor, KeepsCounters, States
<1>6. /\ KeepsCounters(s, reviewer_answer(s), {"user_directives"})
      /\ reviewer_answer(s).user_directives = s.user_directives + 1
  BY DEF reviewer_answer, superseded, KeepsCounters, States
<1>7. /\ KeepsCounters(s, planner_answer(s), {"user_directives"})
      /\ planner_answer(s).user_directives = s.user_directives + 1
  BY DEF planner_answer, superseded, KeepsCounters, States
<1> QED BY <1>2, <1>3, <1>4, <1>5, <1>6, <1>7

\* Where the routers look at a budget before another round.
LEMMA BudgetRoutes ==
  ASSUME NEW p \in PresetNames, NEW n \in GraphNodes(p), NEW s \in States
  PROVE  /\ n = "reviewer" /\ After(p, n, s) \notin {"delivery", END}
              => s.revision_round <= s.max_revisions
         /\ n = "verify" /\ After(p, n, s) \notin {"delivery", END}
              => \/ s.verification.result = "none"
                 \/ s.verify_round < s.max_iterations
         /\ After(p, n, s) = "supervisor"
              => /\ n = "verify"
                 /\ s.verification.result # "none"
                 /\ s.verify_round % STUCK_EVERY = 0
         /\ After(p, n, s) = "tools" => n = "developer" /\ s.dev.tail = "calls"
         /\ n = "delivery" => After(p, n, s) = END
<1>1. n \in {"planner", "developer", "tools", "verify", "supervisor", "reviewer", "delivery"}
  BY DEF GraphNodes, PresetNodes, Roles
<1>2. CASE n = "planner"
  BY <1>2 DEF After, Branch, planner_gate_router, END
<1>3. CASE n = "developer"
  BY <1>3 DEF After, developer_route, DeveloperTarget, END
<1>4. CASE n = "tools"
  BY <1>4 DEF After
<1>5. CASE n = "verify"
  <2>1. After(p, n, s) = Branch(p, goal_router(s))
    BY <1>5 DEF After
  <2>2. /\ goal_router(s) \in {"reviewer", "delivery", "halt", "supervisor", "developer"}
        /\ goal_router(s) \in {"developer", "supervisor"} => s.verify_round < s.max_iterations
        /\ goal_router(s) = "reviewer" => s.verification.result = "none"
        /\ goal_router(s) = "supervisor" => /\ s.verification.result # "none"
                                           /\ s.verify_round % STUCK_EVERY = 0
    BY DEF goal_router, States, STUCK_EVERY
  <2> QED BY <1>5, <2>1, <2>2 DEF Branch, END, PresetNodes, Roles
<1>6. CASE n = "supervisor"
  BY <1>6 DEF After, Branch, stuck_router, END
<1>7. CASE n = "reviewer"
  <2>1. After(p, n, s) = Branch(p, review_router(s))
    BY <1>7 DEF After
  <2>2. /\ review_router(s) \in {"delivery", "halt", "developer"}
        /\ review_router(s) = "developer" => s.revision_round <= s.max_revisions
    BY DEF review_router
  <2> QED BY <1>7, <2>1, <2>2 DEF Branch, END, PresetNodes, Roles
<1>8. CASE n = "delivery"
  BY <1>8 DEF After, END
<1> QED BY <1>1, <1>2, <1>3, <1>4, <1>5, <1>6, <1>7, <1>8

\* A step that counts nothing, and goes on only from where rounds are left.
LEMMA UncountedStep ==
  ASSUME BudgetInv, TypeInv', KeepsCounters(st, st', {}),
         next' \notin {"delivery", END} => next \notin {"delivery", END},
         next' = "supervisor" => next = "supervisor",
         next' = "tools" => st'.dev_round <= MaxDevRounds
  PROVE  BudgetInv'
<1> USE DEF BudgetInv, KeepsCounters
<1>1. RoundsBounded'
  BY DEF RoundsBounded, VerifyRoundsBounded, ReviewRoundsBounded, ToolRoundsBounded
<1>2. RoundsLeft'
  BY DEF RoundsLeft
<1>3. SupervisorPaced' /\ SupervisorDue'
  BY DEF SupervisorPaced, SupervisorDue
<1> QED BY <1>1, <1>2, <1>3

LEMMA InitBudget == Init => BudgetInv
<1> SUFFICES ASSUME Init PROVE BudgetInv
  OBVIOUS
<1>1. PICK r \in RevisionBudgets, i \in IterationBudgets, o \in BOOLEAN :
        st = initial_state(r, i, o)
  BY DEF Init, TaskRequests
<1>2. /\ st.verify_round = 0 /\ st.revision_round = 0 /\ st.supervisions = 0
      /\ st.user_directives = 0
      /\ st.max_iterations \in Nat \ {0} /\ st.max_revisions \in Nat
  BY <1>1, RunAssumption DEF initial_state
<1>3. next \notin {"tools", "supervisor"}
  BY DEF Init, PresetEntry
<1>4. RoundsBounded
  BY <1>2, <1>3 DEF RoundsBounded, VerifyRoundsBounded, ReviewRoundsBounded, ToolRoundsBounded
<1>5. RoundsLeft /\ SupervisorPaced /\ SupervisorDue
  BY <1>2, <1>3 DEF RoundsLeft, SupervisorPaced, SupervisorDue, STUCK_EVERY
<1> QED BY <1>4, <1>5, InitType DEF BudgetInv

LEMMA NextBudget == BudgetInv /\ [Next]_vars => BudgetInv'
<1> SUFFICES ASSUME BudgetInv, [Next]_vars PROVE BudgetInv'
  OBVIOUS
<1> USE AnswersType
<1>0. /\ TypeInv
      /\ TypeInv'
      /\ st \in States
      /\ st' \in States
      /\ spec.preset \in PresetNames
      /\ next \in GraphNodes(spec.preset) \cup {END}
  BY NextType, RunAssumption DEF BudgetInv, TypeInv, TypeOK, Specs
<1>1. ASSUME NEW n, n # END, NEW s, Superstep(n, s)
      PROVE  /\ n = next /\ n \in GraphNodes(spec.preset)
             /\ st' = s /\ s \in States
             /\ next' = After(spec.preset, n, s)
             /\ n = "reviewer" /\ next' \notin {"delivery", END}
                  => s.revision_round <= s.max_revisions
             /\ n = "verify" /\ next' \notin {"delivery", END}
                  => s.verification.result = "none" \/ s.verify_round < s.max_iterations
             /\ next' = "supervisor"
                  => /\ n = "verify"
                     /\ s.verification.result # "none"
                     /\ s.verify_round % STUCK_EVERY = 0
             /\ next' = "tools" => n = "developer" /\ s.dev.tail = "calls"
             /\ n = "delivery" => next' = END
  <2>1. /\ n = next /\ n \in GraphNodes(spec.preset)
        /\ st' = s /\ s \in States
        /\ next' = After(spec.preset, n, s)
    BY <1>0, <1>1 DEF Superstep
  <2> QED BY <1>0, <2>1, BudgetRoutes
<1>2. CASE Planner
  <2>1. PICK s : Superstep("planner", s) /\ KeepsCounters(st, s, {})
    BY <1>0, <1>2, NodesKeepCounters DEF Planner
  <2>2. next = "planner" /\ next' \notin {"supervisor", "tools"} /\ st' = s
    BY <1>1, <2>1 DEF END
  <2> QED BY <1>0, <2>1, <2>2, UncountedStep DEF END
<1>3. CASE Developer
  <2>1. PICK asks \in Answers.asks :
          /\ asks => UsesTools(spec.preset) /\ ~budget_used(st)
          /\ Superstep("developer",
                 IF UsesTools(spec.preset) THEN developer_react(st, asks) ELSE developer(st))
    BY <1>3 DEF Developer
  <2>2. /\ next = "developer"
        /\ next' # "supervisor"
        /\ next' = "tools" => st'.dev.tail = "calls"
        /\ KeepsCounters(st, st', {})
    <3>1. "developer" # END
      BY DEF END
    <3>2. /\ next = "developer"
          /\ next' # "supervisor"
          /\ next' = "tools" => st'.dev.tail = "calls"
          /\ st' = IF UsesTools(spec.preset) THEN developer_react(st, asks) ELSE developer(st)
      BY <1>1, <2>1, <3>1
    <3> QED BY <1>0, <3>2, NodesKeepCounters
  <2>3. ASSUME next' = "tools" PROVE st'.dev_round <= MaxDevRounds
    <3>1. UsesTools(spec.preset)
      BY <1>0, <2>1, <2>3 DEF TypeInv, TypeOK, GraphNodes, PresetNodes, Roles, END, Superstep
    <3>2. st' = developer_react(st, asks)
      BY <1>1, <2>1, <3>1 DEF END
    <3>3. asks
      BY <1>0, <2>2, <2>3, <3>2 DEF developer_react, States
    <3>4. st'.dev_round = st.dev_round + 1
      BY <1>0, <3>2 DEF developer_react, States
    <3> QED BY <1>0, <2>1, <3>3, <3>4, MaxDevRoundsAssumption DEF budget_used, States
  <2> QED BY <1>0, <2>2, <2>3, UncountedStep DEF END
<1>4. CASE Tools
  <2>1. PICK s : Superstep("tools", s) /\ KeepsCounters(st, s, {})
    BY <1>0, <1>4, NodesKeepCounters DEF Tools
  <2>2. next = "tools" /\ next' \notin {"supervisor", "tools"} /\ st' = s
    BY <1>1, <2>1 DEF END
  <2> QED BY <1>0, <2>1, <2>2, UncountedStep DEF END
<1>5. CASE Delivery
  <2>1. PICK s : Superstep("delivery", s) /\ KeepsCounters(st, s, {})
    BY <1>0, <1>5, NodesKeepCounters DEF Delivery
  <2>2. next' = END /\ st' = s
    BY <1>1, <2>1 DEF END
  <2> QED BY <1>0, <2>1, <2>2, UncountedStep DEF END
<1>6. CASE Reviewer
  <2>1. PICK s : /\ Superstep("reviewer", s)
                 /\ KeepsCounters(st, s, {"revision_round"})
                 /\ s.revision_round = st.revision_round + 1
    BY <1>0, <1>6, NodesCount DEF Reviewer
  <2>2. /\ next = "reviewer" /\ st' = s
        /\ next' \notin {"supervisor", "tools"}
        /\ next' \notin {"delivery", END} => s.revision_round <= s.max_revisions
    <3>1. "reviewer" # END
      BY DEF END
    <3>2. next = "reviewer" /\ st' = s /\ next' \notin {"supervisor", "tools"}
      BY <1>1, <2>1, <3>1
    <3>3. ASSUME next' \notin {"delivery", END} PROVE s.revision_round <= s.max_revisions
      BY <1>1, <2>1, <3>1, <3>3
    <3> QED BY <3>2, <3>3
  <2> USE <1>0, <2>1, <2>2 DEF BudgetInv, KeepsCounters, END, States
  <2>3. RoundsBounded'
    BY DEF RoundsBounded, VerifyRoundsBounded, ReviewRoundsBounded, ToolRoundsBounded,
           RoundsLeft
  <2>4. RoundsLeft'
    BY DEF RoundsLeft
  <2>5. SupervisorPaced' /\ SupervisorDue'
    BY DEF SupervisorPaced, SupervisorDue
  <2> QED BY <2>3, <2>4, <2>5
<1>7. CASE Verify
  <2>1. PICK r \in {"passed", "failed"} : Superstep("verify", verifier(st, r))
    BY <1>7 DEF Verify
  <2>2. /\ next = "verify"
        /\ st' = verifier(st, r)
        /\ next' # "tools"
        /\ next' \notin {"delivery", END}
             => st'.verification.result = "none" \/ st'.verify_round < st'.max_iterations
        /\ next' = "supervisor"
             => st'.verification.result # "none" /\ st'.verify_round % STUCK_EVERY = 0
    <3>1. "verify" # END
      BY DEF END
    <3> QED BY <1>1, <2>1, <3>1
  <2>3. /\ KeepsCounters(st, st', {"verify_round"})
        /\ IF st.verify_command
           THEN st'.verify_round = st.verify_round + 1 /\ st'.verification.result = r
           ELSE st'.verify_round = st.verify_round /\ st'.verification.result = "none"
    BY <1>0, <2>2, NodesCount
  <2> USE <1>0, <2>2, <2>3 DEF BudgetInv, KeepsCounters, END, States
  <2>4. RoundsBounded'
    BY DEF RoundsBounded, VerifyRoundsBounded, ReviewRoundsBounded, ToolRoundsBounded,
           RoundsLeft
  <2>5. RoundsLeft'
    BY DEF RoundsLeft
  <2>6. SupervisorPaced'
    BY DEF SupervisorPaced, STUCK_EVERY
  <2>7. SupervisorDue'
    BY DEF SupervisorPaced, SupervisorDue, STUCK_EVERY
  <2> QED BY <2>4, <2>5, <2>6, <2>7
<1>8. CASE Supervisor
  <2>1. PICK s : /\ Superstep("supervisor", s)
                 /\ KeepsCounters(st, s, {"supervisions"})
                 /\ s.supervisions = st.supervisions + 1
    BY <1>0, <1>8, NodesCount DEF Supervisor
  <2>2. next = "supervisor" /\ st' = s /\ next' \notin {"supervisor", "tools"}
    BY <1>1, <2>1 DEF END
  <2> USE <1>0, <2>1, <2>2 DEF BudgetInv, KeepsCounters, END, States
  <2>3. RoundsBounded'
    BY DEF RoundsBounded, VerifyRoundsBounded, ReviewRoundsBounded, ToolRoundsBounded
  <2>4. RoundsLeft'
    BY DEF RoundsLeft
  <2>5. SupervisorPaced' /\ SupervisorDue'
    BY DEF SupervisorPaced, SupervisorDue
  <2> QED BY <2>3, <2>4, <2>5
<1>9. CASE ApprovalHalt \/ Return \/ RecursionError \/ Raise \/ ResumeToolCall \/ UNCHANGED vars
  <2>1. next' = next /\ st' = st
    BY <1>9 DEF ApprovalHalt, Return, RecursionError, Raise, Ended, ResumeToolCall, vars
  <2> QED BY <1>0, <2>1, UncountedStep
          DEF KeepsCounters, BudgetInv, RoundsBounded, ToolRoundsBounded
<1>10. CASE ResumeAtReviewer \/ ResumeAtPlanner
  <2>1. /\ KeepsCounters(st, st', {"user_directives"})
        /\ st'.user_directives = st.user_directives + 1
        /\ next' \notin {"supervisor", "tools"}
    BY <1>0, <1>10, NodesCount, BudgetRoutes
       DEF ResumeAtReviewer, ResumeAtPlanner, Reinvoke, GraphNodes
  <2> USE <1>0, <2>1 DEF BudgetInv, KeepsCounters, States
  <2>2. RoundsBounded'
    BY DEF RoundsBounded, VerifyRoundsBounded, ReviewRoundsBounded, ToolRoundsBounded
  <2>3. RoundsLeft'
    BY DEF RoundsLeft, RoundsBounded, VerifyRoundsBounded, ReviewRoundsBounded
  <2>4. SupervisorPaced' /\ SupervisorDue'
    BY DEF SupervisorPaced, SupervisorDue
  <2> QED BY <2>2, <2>3, <2>4
<1> QED
  BY <1>2, <1>3, <1>4, <1>5, <1>6, <1>7, <1>8, <1>9, <1>10 DEF Next, Node, Resume

LEMMA AlwaysBudgetInv == Spec => []BudgetInv
BY InitBudget, NextBudget, PTL DEF Spec

\* The supervisor is never consulted twice within STUCK_EVERY failures.
THEOREM SupervisorIsPaced == Spec => []SupervisorPaced
<1>1. BudgetInv => SupervisorPaced
  BY DEF BudgetInv
<1> QED BY <1>1, AlwaysBudgetInv, PTL

-----------------------------------------------------------------------------
(***************************************************************************)
(* Supersteps.  A potential that every superstep spends at least one of:   *)
(* what is left of the developer's current pass and of its checks, a whole *)
(* pass for each return to the developer that the budgets still allow, two *)
(* supersteps for each detour over the supervisor, and the delivery.  A    *)
(* resume starts a new invocation and may refill it up to Supersteps.      *)
(***************************************************************************)

Monus(a, b) == IF a > b THEN a - b ELSE 0

\* A whole pass of the developer with its checks.
Cycle(p, s) == PassSteps(p) + CheckSteps(p, s)

\* Returns to the developer that the budgets still allow.
Returns(p, s) ==
  IF HasOracle(p, s) THEN Monus(s.max_iterations - 1, s.verify_round)
                     ELSE Monus(s.max_revisions, s.revision_round)

DetoursLeft(p, s) ==
  IF HasOracle(p, s) THEN Monus(Detours(p, s), s.verify_round \div STUCK_EVERY) ELSE 0

Rest(p, s) == Returns(p, s) * Cycle(p, s) + 2 * DetoursLeft(p, s) + 1

PassLeft(p, s) == IF UsesTools(p) THEN 2 * Monus(MaxDevRounds, s.dev_round) + 1 ELSE 1

\* The supersteps that a run about to execute node n may still take.
Left(p, n, s) ==
  CASE n = "planner" -> 1 + Cycle(p, s) + Rest(p, s)
    [] n = "developer" -> PassLeft(p, s) + CheckSteps(p, s) + Rest(p, s)
    [] n = "tools" -> 1 + PassLeft(p, s) + CheckSteps(p, s) + Rest(p, s)
    [] n = "verify" -> CheckSteps(p, s) + Rest(p, s)
    [] n = "reviewer" -> 1 + Rest(p, s)
    [] n = "supervisor" -> 2 + Cycle(p, s) + Rest(p, s)
    [] n = "delivery" -> 1
    [] OTHER -> 0

\* The budgets are the request's.
RequestKept == st.max_revisions \in RevisionBudgets /\ st.max_iterations \in IterationBudgets

\* A task with an oracle is not reviewed.
OracleDecides == next = "reviewer" => ~HasOracle(spec.preset, st)

CallIsPending == gate # "clear" => next = "tools"

StepsPaid == steps + Left(spec.preset, next, st) <= Supersteps(spec.preset, st)

SuperstepInv == TypeInv /\ RequestKept /\ OracleDecides /\ CallIsPending /\ StepsPaid

LEMMA BudgetsType ==
  ASSUME NEW s \in States
  PROVE  /\ s.revision_round \in Nat /\ s.max_revisions \in Nat
         /\ s.verify_round \in Nat /\ s.max_iterations \in Nat /\ s.max_iterations >= 1
         /\ s.dev_round \in Nat
         /\ s.verify_command \in BOOLEAN
BY DEF States

LEMMA PotentialType ==
  ASSUME NEW p \in PresetNames, NEW s \in States
  PROVE  /\ HasOracle(p, s) \in BOOLEAN
         /\ Cycle(p, s) \in Nat
         /\ Returns(p, s) \in Nat
         /\ Detours(p, s) \in Nat
         /\ DetoursLeft(p, s) \in Nat
         /\ PassSteps(p) \in Nat /\ PassLeft(p, s) \in Nat
         /\ CheckSteps(p, s) \in {1, 2}
         /\ PassLeft(p, s) >= 1
         /\ PassLeft(p, s) <= PassSteps(p)
<1>1. HasOracle(p, s) \in BOOLEAN
  BY DEF HasOracle
<1>2. CheckSteps(p, s) \in {1, 2}
  BY DEF CheckSteps
<1>3. /\ PassSteps(p) \in Nat /\ PassLeft(p, s) \in Nat
      /\ PassLeft(p, s) >= 1
      /\ PassLeft(p, s) <= PassSteps(p)
  BY BudgetsType, MaxDevRoundsAssumption DEF PassSteps, PassLeft, Monus
<1>4. Cycle(p, s) \in Nat
  BY <1>2, <1>3 DEF Cycle
<1>5. Returns(p, s) \in Nat
  BY BudgetsType DEF Returns, Monus
<1>6. Detours(p, s) \in Nat
  BY BudgetsType DEF Detours, STUCK_EVERY
<1>7. DetoursLeft(p, s) \in Nat
  BY <1>6, BudgetsType DEF DetoursLeft, Monus, STUCK_EVERY
<1> QED BY <1>1, <1>2, <1>3, <1>4, <1>5, <1>6, <1>7

LEMMA Times ==
  /\ \A a, b \in Nat : a * b \in Nat
  /\ \A a, b \in Nat : (a + 1) * b = a * b + b
<1>1. \A a, b \in Nat : a * b \in Nat
  OBVIOUS
<1>2. \A a, b \in Nat : (a + 1) * b = a * b + b
  OBVIOUS
<1> QED BY <1>1, <1>2

LEMMA TimesGrows == \A a, b, c \in Nat : a <= b => a * c <= b * c
<1> SUFFICES ASSUME NEW a \in Nat, NEW b \in Nat, NEW c \in Nat, a <= b
             PROVE  a * c <= b * c
  OBVIOUS
<1>1. PICK d \in Nat : b = a + d
  <2> WITNESS b - a \in Nat
  <2> QED OBVIOUS
<1>2. b * c = a * c + d * c
  BY <1>1
<1>3. d * c \in Nat /\ a * c \in Nat
  BY Times
<1> QED BY <1>2, <1>3

LEMMA RestType ==
  ASSUME NEW p \in PresetNames, NEW s \in States
  PROVE  Rest(p, s) \in Nat /\ Rest(p, s) >= 1
BY PotentialType, Times DEF Rest

\* A step that counts nothing leaves the rest as it is.
LEMMA RestKept ==
  ASSUME NEW p \in PresetNames, NEW s \in States, NEW t \in States,
         KeepsCounters(s, t, {"supervisions", "user_directives"})
  PROVE  Rest(p, t) = Rest(p, s)
BY DEF KeepsCounters, Rest, Cycle, Returns, DetoursLeft, Detours, HasOracle, CheckSteps

\* Every step keeps what a pass and an invocation may take.
LEMMA SuperstepsKept ==
  ASSUME NEW p \in PresetNames, NEW s \in States, NEW t \in States, NEW changed,
         KeepsCounters(s, t, changed)
  PROVE  /\ HasOracle(p, t) = HasOracle(p, s)
         /\ Cycle(p, t) = Cycle(p, s)
         /\ CheckSteps(p, t) = CheckSteps(p, s)
         /\ Supersteps(p, t) = Supersteps(p, s)
BY DEF KeepsCounters, Cycle, Detours, HasOracle, CheckSteps, Supersteps, Passes

\* A failed oracle run that leaves iterations pays for the next pass and the detour before it.
LEMMA FailurePays ==
  ASSUME NEW p \in PresetNames, NEW s \in States, NEW t \in States,
         HasOracle(p, s),
         KeepsCounters(s, t, {"verify_round"}),
         t.verify_round = s.verify_round + 1,
         t.verify_round < t.max_iterations
  PROVE  /\ Cycle(p, t) + Rest(p, t) <= Rest(p, s)
         /\ t.verify_round % STUCK_EVERY = 0 => 2 + Cycle(p, t) + Rest(p, t) <= Rest(p, s)
<1>1. /\ HasOracle(p, t) /\ Cycle(p, t) = Cycle(p, s) /\ Detours(p, t) = Detours(p, s)
      /\ t.max_iterations = s.max_iterations
  BY DEF KeepsCounters, HasOracle, Cycle, CheckSteps, Detours
<1>2. /\ s.verify_round \in Nat /\ t.verify_round \in Nat /\ s.max_iterations \in Nat
      /\ t.verify_round <= s.max_iterations - 1
  BY <1>1, BudgetsType
<1>3. Returns(p, s) = Returns(p, t) + 1
  BY <1>1, <1>2 DEF Returns, Monus
<1>4. Returns(p, s) * Cycle(p, s) = Returns(p, t) * Cycle(p, s) + Cycle(p, s)
  BY <1>3, PotentialType, Times
<1>5. /\ Detours(p, s) = (s.max_iterations - 1) \div 3
      /\ DetoursLeft(p, s) = Monus(Detours(p, s), s.verify_round \div 3)
      /\ DetoursLeft(p, t) = Monus(Detours(p, s), t.verify_round \div 3)
  BY <1>1 DEF Detours, DetoursLeft, STUCK_EVERY
<1>6. /\ t.verify_round \div 3 \in Nat /\ s.verify_round \div 3 \in Nat
      /\ s.verify_round \div 3 <= t.verify_round \div 3
      /\ t.verify_round \div 3 <= (s.max_iterations - 1) \div 3
      /\ t.verify_round % 3 = 0 => t.verify_round \div 3 = s.verify_round \div 3 + 1
  BY <1>2
<1>7. /\ DetoursLeft(p, t) <= DetoursLeft(p, s)
      /\ t.verify_round % STUCK_EVERY = 0 => DetoursLeft(p, t) + 1 <= DetoursLeft(p, s)
  BY <1>5, <1>6, PotentialType DEF Monus, STUCK_EVERY
<1>8. /\ Rest(p, s) = Returns(p, s) * Cycle(p, s) + 2 * DetoursLeft(p, s) + 1
      /\ Rest(p, t) = Returns(p, t) * Cycle(p, s) + 2 * DetoursLeft(p, t) + 1
  BY <1>1 DEF Rest
<1>9. Returns(p, t) * Cycle(p, s) \in Nat
  BY PotentialType, Times
<1> QED BY <1>1, <1>4, <1>7, <1>8, <1>9, PotentialType

\* So does a review that leaves revisions.
LEMMA ReviewPays ==
  ASSUME NEW p \in PresetNames, NEW s \in States, NEW t \in States,
         ~HasOracle(p, s),
         KeepsCounters(s, t, {"revision_round"}),
         t.revision_round = s.revision_round + 1,
         t.revision_round <= t.max_revisions
  PROVE  Cycle(p, t) + Rest(p, t) <= Rest(p, s)
<1>1. /\ ~HasOracle(p, t) /\ Cycle(p, t) = Cycle(p, s)
      /\ t.max_revisions = s.max_revisions
  BY DEF KeepsCounters, HasOracle, Cycle, CheckSteps
<1>2. s.revision_round \in Nat /\ s.max_revisions \in Nat
  BY BudgetsType
<1>3. Returns(p, s) = Returns(p, t) + 1
  BY <1>1, <1>2 DEF Returns, Monus
<1>4. Returns(p, s) * Cycle(p, s) = Returns(p, t) * Cycle(p, s) + Cycle(p, s)
  BY <1>3, PotentialType, Times
<1>5. DetoursLeft(p, s) = 0 /\ DetoursLeft(p, t) = 0
  BY <1>1 DEF DetoursLeft
<1>6. Rest(p, s) = Rest(p, t) + Cycle(p, t)
  BY <1>1, <1>4, <1>5, PotentialType, Times DEF Rest
<1> QED BY <1>6, PotentialType, RestType

LEMMA SuperstepsType ==
  ASSUME NEW p \in PresetNames, NEW s \in States
  PROVE  Supersteps(p, s) \in Nat
<1>1. Passes(p, s) \in Nat
  BY BudgetsType DEF Passes
<1>2. Passes(p, s) * Cycle(p, s) \in Nat
  BY <1>1, PotentialType, Times
<1> QED BY <1>2, PotentialType DEF Supersteps, Cycle

\* An invocation that starts at or before the developer has the supersteps it needs.
LEMMA StartPays ==
  ASSUME NEW p \in PresetNames, NEW s \in States
  PROVE  1 + Cycle(p, s) + Rest(p, s) <= Supersteps(p, s)
<1> DEFINE c == Cycle(p, s)
           r == Returns(p, s)
           all == Passes(p, s)
<1>1. r \in Nat /\ c \in Nat /\ all \in Nat /\ r + 1 <= all
  BY BudgetsType, PotentialType DEF Returns, Monus, Passes
<1>2. (r + 1) * c = r * c + c /\ (r + 1) * c <= all * c /\ r * c \in Nat /\ all * c \in Nat
  <2>1. r + 1 \in Nat
    BY <1>1
  <2> HIDE DEF r, c, all
  <2> QED BY <1>1, <2>1, Times, TimesGrows
<1>3. DetoursLeft(p, s) <= Detours(p, s)
  BY PotentialType, BudgetsType DEF DetoursLeft, Monus, STUCK_EVERY
<1>4. Supersteps(p, s) = 1 + all * c + 2 * Detours(p, s) + 1
  BY DEF Supersteps, Cycle
<1>5. Rest(p, s) = r * c + 2 * DetoursLeft(p, s) + 1
  BY DEF Rest
<1> HIDE DEF r, c, all
<1>6. 1 + c + Rest(p, s) <= Supersteps(p, s)
  BY <1>1, <1>2, <1>3, <1>4, <1>5, PotentialType
<1> QED BY <1>6 DEF c

\* Where a node may lead, and what the routers checked before.
LEMMA Targets ==
  ASSUME NEW p \in PresetNames, NEW n \in GraphNodes(p), NEW s \in States
  PROVE  /\ n = "planner" => After(p, n, s) \in {"developer", END}
         /\ n = "developer"
              => IF s.dev.tail = "calls" THEN After(p, n, s) = "tools"
                 ELSE /\ After(p, n, s) \in {"reviewer", "verify", END}
                      /\ After(p, n, s) = "reviewer" => p # "goal"
         /\ n = "tools" => After(p, n, s) = "developer"
         /\ n = "verify"
              => /\ p = "goal"
                 /\ After(p, n, s) \in {"reviewer", "delivery", "supervisor", "developer", END}
                 /\ After(p, n, s) = "reviewer" <=> s.verification.result = "none"
                 /\ After(p, n, s) \in {"supervisor", "developer"}
                      => s.verify_round < s.max_iterations
                 /\ After(p, n, s) = "supervisor" => s.verify_round % STUCK_EVERY = 0
         /\ n = "supervisor" => After(p, n, s) \in {"developer", "planner", END}
         /\ n = "reviewer"
              => /\ After(p, n, s) \in {"developer", "delivery", END}
                 /\ After(p, n, s) = "developer" => s.revision_round <= s.max_revisions
         /\ n = "delivery" => After(p, n, s) = END
<1>1. CASE n = "planner"
  BY <1>1 DEF After, Branch, planner_gate_router, PresetNodes, Roles
<1>2. CASE n = "developer"
  BY <1>2 DEF After, developer_route, DeveloperTarget, END
<1>3. CASE n = "tools"
  BY <1>3 DEF After
<1>4. CASE n = "verify"
  <2>1. p = "goal"
    BY <1>4 DEF GraphNodes, PresetNodes, Roles
  <2>2. After(p, n, s) = IF goal_router(s) \in Roles THEN goal_router(s) ELSE END
    BY <1>4, <2>1 DEF After, Branch, PresetNodes
  <2>3. /\ goal_router(s) \in {"reviewer", "delivery", "halt", "supervisor", "developer"}
        /\ goal_router(s) = "reviewer" <=> s.verification.result = "none"
        /\ goal_router(s) \in {"developer", "supervisor"} => s.verify_round < s.max_iterations
        /\ goal_router(s) = "supervisor" => s.verify_round % STUCK_EVERY = 0
    BY DEF goal_router, States, STUCK_EVERY
  <2> QED BY <1>4, <2>1, <2>2, <2>3 DEF END, Roles
<1>5. CASE n = "supervisor"
  BY <1>5 DEF After, Branch, stuck_router, PresetNodes, Roles
<1>6. CASE n = "reviewer"
  <2>1. /\ review_router(s) \in {"delivery", "halt", "developer"}
        /\ review_router(s) = "developer" => s.revision_round <= s.max_revisions
    BY DEF review_router
  <2> QED BY <1>6, <2>1 DEF After, Branch, END, PresetNodes, Roles
<1>7. CASE n = "delivery"
  BY <1>7 DEF After
<1> QED BY <1>1, <1>2, <1>3, <1>4, <1>5, <1>6, <1>7 DEF GraphNodes, PresetNodes, Roles

\* A superstep that spends one of the potential keeps it paid.
LEMMA SpendsOne ==
  ASSUME SuperstepInv, TypeInv', NEW n, n # END, NEW s, Superstep(n, s),
         NEW changed, KeepsCounters(st, s, changed),
         Left(spec.preset, next', s) + 1 <= Left(spec.preset, n, st),
         Left(spec.preset, next', s) \in Nat, Left(spec.preset, n, st) \in Nat,
         next' = "reviewer" => ~HasOracle(spec.preset, s)
  PROVE  SuperstepInv'
<1>1. /\ spec' = spec /\ st' = s /\ gate' = "clear" /\ steps' = steps + 1 /\ n = next
      /\ st \in States /\ s \in States /\ spec.preset \in PresetNames /\ steps \in Nat
  BY RunAssumption DEF Superstep, SuperstepInv, TypeInv, TypeOK, Specs
<1>2. RequestKept'
  BY <1>1 DEF SuperstepInv, RequestKept, KeepsCounters
<1>3. OracleDecides' /\ CallIsPending'
  BY <1>1 DEF OracleDecides, CallIsPending
<1>4. Supersteps(spec.preset, s) = Supersteps(spec.preset, st)
      /\ Supersteps(spec.preset, st) \in Nat
  <2>1. Supersteps(spec.preset, s) = Supersteps(spec.preset, st)
    BY <1>1, SuperstepsKept
  <2> QED BY <1>1, <2>1, SuperstepsType
<1>5. StepsPaid'
  BY <1>1, <1>4 DEF SuperstepInv, StepsPaid
<1> QED BY <1>2, <1>3, <1>5 DEF SuperstepInv

LEMMA LeftType ==
  ASSUME NEW p \in PresetNames, NEW n \in GraphNodes(p) \cup {END}, NEW s \in States
  PROVE  /\ Left(p, n, s) \in Nat
         /\ n # END => Left(p, n, s) >= 1
BY PotentialType, RestType DEF Left, GraphNodes, PresetNodes, Roles

LEMMA InitSupersteps == Init => SuperstepInv
<1> SUFFICES ASSUME Init PROVE SuperstepInv
  OBVIOUS
<1>1. PICK r \in RevisionBudgets, i \in IterationBudgets, o \in BOOLEAN :
        st = initial_state(r, i, o)
  BY DEF Init, TaskRequests
<1>2. RequestKept
  BY <1>1 DEF initial_state, RequestKept
<1>3. next \in {"planner", "developer"} /\ gate = "clear" /\ steps = 0
  BY DEF Init, PresetEntry
<1>4. OracleDecides /\ CallIsPending
  BY <1>3 DEF OracleDecides, CallIsPending
<1>5. TypeInv /\ spec.preset \in PresetNames /\ st \in States
  BY InitType, RunAssumption DEF TypeInv, TypeOK, Specs
<1>6. StepsPaid
  <2> DEFINE p == spec.preset
  <2>1. 1 + Cycle(p, st) + Rest(p, st) <= Supersteps(p, st)
    BY <1>5, StartPays
  <2>2. Left(p, next, st) <= 1 + Cycle(p, st) + Rest(p, st)
    BY <1>3, <1>5, PotentialType, RestType DEF Left, Cycle
  <2>3. Left(p, next, st) \in Nat /\ Supersteps(p, st) \in Nat
    BY <1>5, LeftType, SuperstepsType DEF TypeInv, TypeOK
  <2> QED BY <1>3, <1>5, <2>1, <2>2, <2>3, PotentialType, RestType DEF StepsPaid
<1> QED BY <1>2, <1>4, <1>5, <1>6 DEF SuperstepInv

LEMMA NextSupersteps == SuperstepInv /\ [Next]_vars => SuperstepInv'
<1> SUFFICES ASSUME SuperstepInv, [Next]_vars PROVE SuperstepInv'
  OBVIOUS
<1> USE AnswersType
<1> DEFINE p == spec.preset
           left(n, s) == Left(p, n, s)
<1>0. /\ TypeInv /\ TypeInv'
      /\ st \in States /\ st' \in States
      /\ p \in PresetNames
      /\ next \in GraphNodes(p) \cup {END}
      /\ ~UsesTools(p) => st.dev.tail = "empty"
  BY NextType, RunAssumption DEF SuperstepInv, TypeInv, TypeOK, Specs, ToollessTranscript
<1>1. ASSUME NEW n, n # END, NEW s, Superstep(n, s)
      PROVE  /\ n = next /\ n \in GraphNodes(p) /\ st' = s /\ s \in States
             /\ next' = After(p, n, s)
             /\ next' \in GraphNodes(p) \cup {END}
             /\ left(n, st) \in Nat /\ left(next', s) \in Nat
  <2>1. /\ n = next /\ n \in GraphNodes(p) /\ st' = s /\ s \in States
        /\ next' = After(p, n, s) /\ spec' = spec
    BY <1>0, <1>1 DEF Superstep
  <2>2. next' \in GraphNodes(p) \cup {END}
    BY <1>0, <2>1 DEF TypeInv, TypeOK
  <2> QED BY <1>0, <2>1, <2>2, LeftType
<1>2. ASSUME NEW n, n # END, NEW s, Superstep(n, s),
             KeepsCounters(st, s, {"supervisions", "user_directives"})
      PROVE  /\ Rest(p, s) = Rest(p, st) /\ Cycle(p, s) = Cycle(p, st)
             /\ CheckSteps(p, s) = CheckSteps(p, st)
             /\ HasOracle(p, s) = HasOracle(p, st)
  BY <1>0, <1>1, <1>2, RestKept, SuperstepsKept
<1>3. \A s \in States :
        /\ Rest(p, s) \in Nat /\ Rest(p, s) >= 1
        /\ Cycle(p, s) = PassSteps(p) + CheckSteps(p, s)
        /\ PassSteps(p) \in Nat /\ PassLeft(p, s) \in Nat
        /\ CheckSteps(p, s) \in {1, 2}
        /\ PassLeft(p, s) >= 1 /\ PassLeft(p, s) <= PassSteps(p)
  BY <1>0, PotentialType, RestType DEF Cycle
<1> DEFINE others == {"supervisions", "user_directives"}
<1>14. ASSUME NEW s, KeepsCounters(st, s, {}) PROVE KeepsCounters(st, s, others)
  BY <1>14 DEF KeepsCounters
<1>4. CASE Planner
  <2>1. PICK s : Superstep("planner", s) /\ KeepsCounters(st, s, others)
    BY <1>0, <1>4, <1>14, NodesKeepCounters DEF Planner
  <2>2. "planner" # END
    BY DEF END
  <2>3. s \in States /\ next' \in {"developer", END}
    <3>1. "planner" \in GraphNodes(p) /\ s \in States /\ next' = After(p, "planner", s)
      BY <1>1, <2>1, <2>2
    <3> QED BY <1>0, <3>1, Targets
  <2>4. left("planner", st) = 1 + Cycle(p, st) + Rest(p, st)
    BY DEF Left
  <2>5. left(next', s) + 1 <= left("planner", st)
    BY <1>0, <1>2, <1>3, <2>1, <2>2, <2>3, <2>4 DEF Left, END
  <2> QED BY <1>0, <1>1, <2>1, <2>2, <2>3, <2>5, SpendsOne DEF END
<1>5. CASE Developer
  <2>1. PICK asks \in Answers.asks :
          /\ asks => UsesTools(p) /\ ~budget_used(st)
          /\ Superstep("developer",
                       IF UsesTools(p) THEN developer_react(st, asks) ELSE developer(st))
    BY <1>5 DEF Developer
  <2> DEFINE s == IF UsesTools(p) THEN developer_react(st, asks) ELSE developer(st)
  <2>2. "developer" # END
    BY DEF END
  <2>3. KeepsCounters(st, s, others)
    <3>1. KeepsCounters(st, s, {})
      BY <1>0, NodesKeepCounters
    <3> QED BY <1>14, <3>1
  <2>4. s.dev.tail = "calls" => UsesTools(p) /\ asks /\ s.dev_round = st.dev_round + 1
    <3>1. developer(st).dev = st.dev
      BY <1>0 DEF developer, States
    <3>2. /\ developer_react(st, asks).dev.tail = IF asks THEN "calls" ELSE "answer"
          /\ developer_react(st, asks).dev_round = st.dev_round + 1
      BY <1>0 DEF developer_react, States
    <3> QED BY <1>0, <3>1, <3>2
  <2> HIDE DEF s
  <2>5. /\ s \in States
        /\ IF s.dev.tail = "calls" THEN next' = "tools"
           ELSE /\ next' \in {"reviewer", "verify", END}
                /\ next' = "reviewer" => p # "goal"
    <3>1. "developer" \in GraphNodes(p) /\ s \in States /\ next' = After(p, "developer", s)
      BY <1>1, <2>1, <2>2 DEF s
    <3> QED BY <1>0, <3>1, Targets
  <2>6. left("developer", st) = PassLeft(p, st) + CheckSteps(p, st) + Rest(p, st)
    BY DEF Left
  <2>7. left(next', s) + 1 <= left("developer", st)
    <3>1. Rest(p, s) = Rest(p, st) /\ CheckSteps(p, s) = CheckSteps(p, st)
      BY <1>2, <2>1, <2>2, <2>3 DEF s
    <3>2. CASE s.dev.tail = "calls"
      <4>1. UsesTools(p) /\ st.dev_round < MaxDevRounds /\ s.dev_round = st.dev_round + 1
        BY <1>0, <2>1, <2>4, <3>2, BudgetsType, MaxDevRoundsAssumption DEF budget_used
      <4>2. PassLeft(p, s) + 2 = PassLeft(p, st)
        BY <1>0, <4>1, BudgetsType, MaxDevRoundsAssumption DEF PassLeft, Monus
      <4>3. left(next', s) = 1 + PassLeft(p, s) + CheckSteps(p, s) + Rest(p, s)
        BY <2>5, <3>2 DEF Left
      <4> QED BY <1>0, <1>3, <2>5, <2>6, <3>1, <4>2, <4>3
    <3>3. CASE s.dev.tail # "calls"
      <4>1. next' \in {"reviewer", "verify", END}
        BY <2>5, <3>3
      <4>2. left(next', s) <= CheckSteps(p, s) + Rest(p, s) /\ left(next', s) \in Nat
        BY <1>3, <2>5, <4>1 DEF Left, END
      <4> QED BY <1>0, <1>3, <2>5, <2>6, <3>1, <4>2
    <3> QED BY <3>2, <3>3
  <2>8. next' = "reviewer" => ~HasOracle(p, s)
    BY <2>5 DEF HasOracle
  <2> QED BY <1>0, <1>1, <2>1, <2>2, <2>3, <2>7, <2>8, SpendsOne DEF s
<1>6. CASE Tools
  <2>1. PICK s : /\ Superstep("tools", s) /\ KeepsCounters(st, s, others)
                 /\ s.dev_round = st.dev_round
    <3>1. PICK verdict : Superstep("tools", tools(st, verdict))
      BY <1>6 DEF Tools
    <3>2. tools(st, verdict).dev_round = st.dev_round
      BY <1>0 DEF tools, States
    <3> QED BY <1>0, <1>14, <3>1, <3>2, NodesKeepCounters
  <2>2. "tools" # END
    BY DEF END
  <2>3. s \in States /\ next' = "developer"
    <3>1. "tools" \in GraphNodes(p) /\ s \in States /\ next' = After(p, "tools", s)
      BY <1>1, <2>1, <2>2
    <3> QED BY <1>0, <3>1, Targets
  <2>4. left("tools", st) = 1 + PassLeft(p, st) + CheckSteps(p, st) + Rest(p, st)
    BY DEF Left
  <2>5. PassLeft(p, s) = PassLeft(p, st)
    BY <2>1 DEF PassLeft
  <2>6. left(next', s) + 1 <= left("tools", st)
    BY <1>0, <1>2, <1>3, <2>1, <2>2, <2>3, <2>4, <2>5 DEF Left
  <2> QED BY <1>0, <1>1, <2>1, <2>2, <2>3, <2>6, SpendsOne
<1>7. CASE Verify
  <2>1. PICK r \in {"passed", "failed"} : Superstep("verify", verifier(st, r))
    BY <1>7 DEF Verify
  <2> DEFINE s == verifier(st, r)
  <2>2. "verify" # END
    BY DEF END
  <2>3. /\ KeepsCounters(st, s, {"verify_round"})
        /\ IF st.verify_command
           THEN s.verify_round = st.verify_round + 1 /\ s.verification.result = r
           ELSE s.verify_round = st.verify_round /\ s.verification.result = "none"
    BY <1>0, NodesCount
  <2> HIDE DEF s
  <2>4. /\ s \in States /\ st' = s
        /\ p = "goal"
        /\ next' \in {"reviewer", "delivery", "supervisor", "developer", END}
        /\ next' = "reviewer" <=> s.verification.result = "none"
        /\ next' \in {"supervisor", "developer"} => s.verify_round < s.max_iterations
        /\ next' = "supervisor" => s.verify_round % STUCK_EVERY = 0
    <3>1. /\ "verify" \in GraphNodes(p) /\ s \in States /\ st' = s
          /\ next' = After(p, "verify", s)
      BY <1>1, <2>1, <2>2 DEF s
    <3> QED BY <1>0, <3>1, Targets
  <2>5. left("verify", st) = CheckSteps(p, st) + Rest(p, st)
    BY DEF Left
  <2>6. CASE st.verify_command
    <3>1. HasOracle(p, st)
      BY <2>4, <2>6 DEF HasOracle
    <3>2. next' # "reviewer" /\ s.verify_round = st.verify_round + 1
      BY <2>3, <2>4, <2>6
    <3>3. left(next', s) + 1 <= left("verify", st)
      <4>1. CASE next' \in {"developer", "supervisor"}
        <5>1. /\ Cycle(p, s) + Rest(p, s) <= Rest(p, st)
              /\ s.verify_round % STUCK_EVERY = 0
                   => 2 + Cycle(p, s) + Rest(p, s) <= Rest(p, st)
          BY <1>0, <2>3, <2>4, <3>1, <3>2, <4>1, FailurePays
        <5>2. left("developer", s) = PassLeft(p, s) + CheckSteps(p, s) + Rest(p, s)
              /\ left("supervisor", s) = 2 + Cycle(p, s) + Rest(p, s)
          BY DEF Left
        <5> QED BY <1>0, <1>3, <2>4, <2>5, <4>1, <5>1, <5>2
      <4>2. CASE next' \in {"delivery", END}
        <5>1. left(next', s) <= 1 /\ left(next', s) \in Nat
          BY <4>2 DEF Left, END
        <5> QED BY <1>0, <1>3, <2>5, <5>1
      <4> QED BY <2>4, <3>2, <4>1, <4>2
    <3> QED BY <1>0, <1>1, <2>1, <2>2, <2>3, <3>2, <3>3, SpendsOne DEF s
  <2>7. CASE ~st.verify_command
    <3>1. KeepsCounters(st, s, others) /\ s.verify_command = st.verify_command
      BY <2>3, <2>7 DEF KeepsCounters
    <3>2. next' = "reviewer"
      BY <2>3, <2>4, <2>7
    <3>3. ~HasOracle(p, s) /\ CheckSteps(p, st) = 2
      BY <2>4, <2>7, <3>1 DEF HasOracle, CheckSteps
    <3>4. left(next', s) = 1 + Rest(p, s)
      BY <3>2 DEF Left
    <3>5. left(next', s) + 1 <= left("verify", st)
      BY <1>0, <1>2, <1>3, <2>1, <2>2, <2>4, <2>5, <3>1, <3>3, <3>4 DEF s
    <3> QED BY <1>0, <1>1, <2>1, <2>2, <3>1, <3>3, <3>5, SpendsOne DEF s
  <2> QED BY <2>6, <2>7
<1>8. CASE Reviewer
  <2>1. PICK s : /\ Superstep("reviewer", s)
                 /\ KeepsCounters(st, s, {"revision_round"})
                 /\ s.revision_round = st.revision_round + 1
    BY <1>0, <1>8, NodesCount DEF Reviewer
  <2>2. "reviewer" # END
    BY DEF END
  <2>3. /\ s \in States /\ next' \in {"developer", "delivery", END}
        /\ next' = "developer" => s.revision_round <= s.max_revisions
    <3>1. "reviewer" \in GraphNodes(p) /\ s \in States /\ next' = After(p, "reviewer", s)
      BY <1>1, <2>1, <2>2
    <3> QED BY <1>0, <3>1, Targets
  <2>4. ~HasOracle(p, st)
    BY <1>1, <2>1, <2>2 DEF SuperstepInv, OracleDecides
  <2>5. left("reviewer", st) = 1 + Rest(p, st)
    BY DEF Left
  <2>6. CASE next' = "developer"
    <3>1. Cycle(p, s) + Rest(p, s) <= Rest(p, st)
      BY <1>0, <2>1, <2>3, <2>4, <2>6, ReviewPays
    <3>2. left(next', s) = PassLeft(p, s) + CheckSteps(p, s) + Rest(p, s)
      BY <2>6 DEF Left
    <3>3. left(next', s) + 1 <= left("reviewer", st)
      BY <1>0, <1>3, <2>3, <2>5, <3>1, <3>2
    <3> QED BY <1>0, <1>1, <2>1, <2>2, <2>6, <3>3, SpendsOne
  <2>7. CASE next' \in {"delivery", END}
    <3>1. left(next', s) <= 1
      BY <2>7 DEF Left, END
    <3>2. left(next', s) + 1 <= left("reviewer", st)
      BY <1>0, <1>1, <1>3, <2>1, <2>2, <2>5, <3>1
    <3> QED BY <1>0, <1>1, <2>1, <2>2, <2>7, <3>2, SpendsOne DEF END
  <2> QED BY <2>3, <2>6, <2>7
<1>9. CASE Supervisor
  <2>1. PICK s : Superstep("supervisor", s) /\ KeepsCounters(st, s, others)
    <3>1. PICK action : Superstep("supervisor", supervisor(st, action))
      BY <1>9 DEF Supervisor
    <3>2. KeepsCounters(st, supervisor(st, action), {"supervisions"})
      BY <1>0, NodesCount
    <3> QED BY <3>1, <3>2 DEF KeepsCounters
  <2>2. "supervisor" # END
    BY DEF END
  <2>3. s \in States /\ next' \in {"developer", "planner", END}
    <3>1. "supervisor" \in GraphNodes(p) /\ s \in States /\ next' = After(p, "supervisor", s)
      BY <1>1, <2>1, <2>2
    <3> QED BY <1>0, <3>1, Targets
  <2>4. left("supervisor", st) = 2 + Cycle(p, st) + Rest(p, st)
    BY DEF Left
  <2>5. left(next', s) + 1 <= left("supervisor", st)
    BY <1>0, <1>2, <1>3, <2>1, <2>2, <2>3, <2>4 DEF Left, END
  <2> QED BY <1>0, <1>1, <2>1, <2>2, <2>3, <2>5, SpendsOne DEF END
<1>10. CASE Delivery
  <2>1. PICK s : Superstep("delivery", s) /\ KeepsCounters(st, s, others)
    BY <1>0, <1>10, <1>14, NodesKeepCounters DEF Delivery
  <2>2. "delivery" # END
    BY DEF END
  <2>3. s \in States /\ next' = END
    <3>1. "delivery" \in GraphNodes(p) /\ s \in States /\ next' = After(p, "delivery", s)
      BY <1>1, <2>1, <2>2
    <3> QED BY <1>0, <3>1, Targets
  <2>4. left("delivery", st) = 1 /\ left(next', s) = 0
    BY <2>3 DEF Left, END
  <2> QED BY <1>0, <1>1, <2>1, <2>2, <2>3, <2>4, SpendsOne DEF END
<1>11. CASE ResumeAtReviewer \/ ResumeAtPlanner
  <2>1. PICK n \in {"reviewer", "planner"}, s \in States :
          /\ Resumed /\ Reinvoke(n, s)
          /\ KeepsCounters(st, s, others)
    <3>1. /\ KeepsCounters(st, reviewer_answer(st), {"user_directives"})
          /\ KeepsCounters(st, planner_answer(st), {"user_directives"})
      BY <1>0, NodesCount
    <3>2. /\ KeepsCounters(st, reviewer_answer(st), others)
          /\ KeepsCounters(st, planner_answer(st), others)
      BY <3>1 DEF KeepsCounters
    <3> QED BY <1>0, <1>11, <3>2, AnswerType DEF ResumeAtReviewer, ResumeAtPlanner
  <2>2. /\ spec' = spec /\ st' = s /\ s \in States /\ gate' = "clear" /\ steps' = 0
        /\ n \in GraphNodes(p) /\ next' = After(p, n, s)
    BY <1>0, <2>1 DEF Resumed, Reinvoke, GraphNodes
  <2>3. next' \in {"developer", "delivery", END}
    BY <1>0, <2>1, <2>2, Targets
  <2>4. RequestKept' /\ OracleDecides' /\ CallIsPending'
    BY <2>1, <2>2, <2>3 DEF SuperstepInv, RequestKept, KeepsCounters, OracleDecides, CallIsPending, END
  <2>5. left(next', s) <= Cycle(p, s) + Rest(p, s) /\ left(next', s) \in Nat
    BY <1>3, <2>2, <2>3 DEF Left, END
  <2>6. /\ 1 + Cycle(p, s) + Rest(p, s) <= Supersteps(p, s)
        /\ Supersteps(p, s) \in Nat /\ Cycle(p, s) \in Nat /\ Rest(p, s) \in Nat
    BY <1>0, <1>3, <2>2, StartPays, SuperstepsType, PotentialType
  <2>7. StepsPaid'
    BY <2>2, <2>5, <2>6 DEF StepsPaid
  <2> QED BY <1>0, <2>4, <2>7 DEF SuperstepInv
<1>12. CASE ResumeToolCall
  <2>1. spec' = spec /\ st' = st /\ next' = next /\ next = "tools" /\ steps' = 0
    BY <1>12 DEF ResumeToolCall, Resumed, SuperstepInv, CallIsPending
  <2>2. RequestKept' /\ OracleDecides' /\ CallIsPending'
    BY <2>1 DEF SuperstepInv, RequestKept, OracleDecides, CallIsPending
  <2>3. left("tools", st) = 1 + PassLeft(p, st) + CheckSteps(p, st) + Rest(p, st)
    BY DEF Left
  <2>4. /\ 1 + Cycle(p, st) + Rest(p, st) <= Supersteps(p, st)
        /\ Supersteps(p, st) \in Nat
    BY <1>0, StartPays, SuperstepsType
  <2>5. StepsPaid'
    BY <1>0, <1>3, <2>1, <2>3, <2>4 DEF StepsPaid
  <2> QED BY <1>0, <2>2, <2>5 DEF SuperstepInv
<1>13. CASE ApprovalHalt \/ Return \/ RecursionError \/ Raise \/ UNCHANGED vars
  <2>1. /\ spec' = spec /\ st' = st /\ next' = next /\ steps' = steps
        /\ gate' # "clear" => gate # "clear" \/ next = "tools"
    BY <1>13 DEF ApprovalHalt, Return, RecursionError, Raise, Ended, vars
  <2> QED BY <1>0, <2>1
          DEF SuperstepInv, RequestKept, OracleDecides, CallIsPending, StepsPaid
<1> QED
  BY <1>4, <1>5, <1>6, <1>7, <1>8, <1>9, <1>10, <1>11, <1>12, <1>13 DEF Next, Node, Resume

LEMMA AlwaysSuperstepInv == Spec => []SuperstepInv
BY InitSupersteps, NextSupersteps, PTL DEF Spec

\* The budgets of a task hold for every client, crash and answer, the supervisor's pace too,
\* and an invocation takes no more supersteps than they pay for.
THEOREM BudgetsHold == Spec => []BudgetsRespected
<1>1. BudgetInv => RoundsBounded /\ SupervisorPaced
  BY DEF BudgetInv
<1>2. SuperstepInv => SuperstepsBounded
  <2> SUFFICES ASSUME SuperstepInv PROVE SuperstepsBounded
    OBVIOUS
  <2>1. /\ st \in States /\ spec.preset \in PresetNames /\ steps \in Nat
        /\ next \in GraphNodes(spec.preset) \cup {END}
    BY RunAssumption DEF SuperstepInv, TypeInv, TypeOK, Specs
  <2>2. Left(spec.preset, next, st) \in Nat /\ Supersteps(spec.preset, st) \in Nat
    BY <2>1, LeftType, SuperstepsType
  <2> QED BY <2>1, <2>2 DEF SuperstepInv, StepsPaid, SuperstepsBounded
<1>3. BudgetInv /\ SuperstepInv => BudgetsRespected
  BY <1>1, <1>2 DEF BudgetsRespected
<1> QED BY <1>3, AlwaysBudgetInv, AlwaysSuperstepInv, PTL

\* The recursion limit pays for every request.
EnoughSupersteps ==
  \A p \in Presets, r \in RevisionBudgets, i \in IterationBudgets, o \in BOOLEAN :
    Supersteps(p, initial_state(r, i, o)) <= RecursionLimit

\* Where the recursion limit pays for every request, LangGraph never ends a run: the
\* budgets do (the comment on GRAPH_RECURSION_LIMIT in service.py).
THEOREM LimitNeverFires == EnoughSupersteps => (Spec => [](outcome # "recursion"))
<1> SUFFICES ASSUME EnoughSupersteps PROVE Spec => [](outcome # "recursion")
  OBVIOUS
<1>1. Init => outcome # "recursion"
  BY DEF Init
<1>2. SuperstepInv /\ outcome # "recursion" /\ [Next]_vars => (outcome # "recursion")'
  <2> SUFFICES ASSUME SuperstepInv, outcome # "recursion", [Next]_vars, outcome' = "recursion"
               PROVE  FALSE
    OBVIOUS
  <2>1. RecursionError
    BY DEF Next, Node, Planner, Developer, ApprovalHalt, Tools, Reviewer, Verify, Supervisor,
           Delivery, Superstep, Return, Raise, Ended, Resume, ResumeAtReviewer,
           ResumeAtPlanner, ResumeToolCall, Resumed, vars
  <2>2. /\ st \in States /\ spec.preset \in PresetNames /\ spec.preset \in Presets
        /\ next \in GraphNodes(spec.preset) /\ steps = RecursionLimit
    BY <2>1, RunAssumption DEF SuperstepInv, TypeInv, TypeOK, Specs, RecursionError
  <2>3. Left(spec.preset, next, st) \in Nat /\ Left(spec.preset, next, st) >= 1
    BY <2>2, LeftType DEF END, GraphNodes, PresetNodes, Roles
  <2>4. Supersteps(spec.preset, st) <= RecursionLimit
    <3> DEFINE t == initial_state(st.max_revisions, st.max_iterations, st.verify_command)
    <3>1. /\ st.max_revisions \in RevisionBudgets /\ st.max_iterations \in IterationBudgets
          /\ st.verify_command \in BOOLEAN
      BY <2>2, BudgetsType DEF SuperstepInv, RequestKept
    <3>2. Supersteps(spec.preset, t) <= RecursionLimit
      BY <2>2, <3>1 DEF EnoughSupersteps
    <3>3. /\ t.max_revisions = st.max_revisions /\ t.max_iterations = st.max_iterations
          /\ t.verify_command = st.verify_command
      BY DEF initial_state
    <3> HIDE DEF t
    <3>4. Supersteps(spec.preset, t) = Supersteps(spec.preset, st)
      BY <3>3 DEF Supersteps, Passes, Detours, CheckSteps, HasOracle
    <3> QED BY <3>2, <3>4
  <2>5. Supersteps(spec.preset, st) \in Nat
    BY <2>2, SuperstepsType
  <2> QED BY <2>2, <2>3, <2>4, <2>5, RunAssumption DEF SuperstepInv, StepsPaid
<1> QED BY <1>1, <1>2, AlwaysSuperstepInv, PTL DEF Spec

\* With the constants the code ships the limit pays for up to 49 iterations.  The 50 that
\* a TaskRequest may ask for are one too many: they may need 934 supersteps.
THEOREM ShippedLimitHolds ==
  ASSUME MaxDevRounds = 8, RecursionLimit = 10 + (50 + 1) * (2 * 8 + 1 + 1),
         RevisionBudgets \subseteq 0..10, IterationBudgets \subseteq 1..49
  PROVE  Spec => [](outcome # "recursion")
<1>1. EnoughSupersteps
  <2> SUFFICES ASSUME NEW p \in Presets, NEW r \in RevisionBudgets, NEW i \in IterationBudgets,
                      NEW o \in BOOLEAN
               PROVE  Supersteps(p, initial_state(r, i, o)) <= RecursionLimit
    BY DEF EnoughSupersteps
  <2> DEFINE s == initial_state(r, i, o)
  <2>1. s.max_revisions = r /\ s.max_iterations = i /\ r \in 0..10 /\ i \in 1..49
    BY DEF initial_state
  <2> HIDE DEF s
  <2>2. Cycle(p, s) \in {2, 3, 18, 19} /\ (HasOracle(p, s) => Cycle(p, s) = 18)
    BY DEF Cycle, PassSteps, CheckSteps, HasOracle, UsesTools
  <2>3. Supersteps(p, s) = 1 + Passes(p, s) * Cycle(p, s) + 2 * Detours(p, s) + 1
    BY DEF Supersteps, Cycle
  <2>4. CASE HasOracle(p, s)
    <3>1. Passes(p, s) = i /\ Detours(p, s) = (i - 1) \div 3 /\ Cycle(p, s) = 18
      BY <2>1, <2>2, <2>4 DEF Passes, Detours, STUCK_EVERY
    <3> QED BY <2>1, <2>3, <3>1 DEF s
  <2>5. CASE ~HasOracle(p, s)
    <3>1. Passes(p, s) = r + 1 /\ Detours(p, s) = 0
      BY <2>1, <2>5 DEF Passes, Detours
    <3>2. Passes(p, s) * Cycle(p, s) <= 209
      BY <2>1, <2>2, <3>1
    <3> QED BY <2>1, <2>2, <2>3, <3>1, <3>2 DEF s
  <2> QED BY <2>4, <2>5
<1> QED BY <1>1, LimitNeverFires

-----------------------------------------------------------------------------
(***************************************************************************)
(* What the developer is told, and what holds for clients that resume a    *)
(* task the way the docs say.  The last theorem is that a run implements   *)
(* TaskLifecycle.                                                          *)
(***************************************************************************)

(***************************************************************************)
(* What each node leaves alone.                                            *)
(***************************************************************************)

\* The parts of a state from which its status is derived, the plan aside.
SameVerdicts(s, t) ==
  /\ t.review = s.review
  /\ t.verification = s.verification
  /\ t.delivery = s.delivery
  /\ t.stuck_decision = s.stuck_decision

LEMMA PushKeeps ==
  ASSUME NEW s \in States, NEW kind
  PROVE  /\ SameVerdicts(s, pushed(s, kind)) /\ SameVerdicts(s, superseded(s, kind))
         /\ pushed(s, kind).plan = s.plan /\ superseded(s, kind).plan = s.plan
         /\ pushed(s, kind).open_questions = s.open_questions
         /\ superseded(s, kind).open_questions = s.open_questions
BY DEF pushed, superseded, SameVerdicts, States

LEMMA PlannerKeeps ==
  ASSUME NEW s \in States, NEW plan \in Texts
  PROVE  /\ SameVerdicts(s, planner(s, plan)) /\ planner(s, plan).plan = plan
         /\ planner(s, plan).open_questions = s.open_questions
<1>1. /\ [s EXCEPT !.plan = plan] \in States /\ SameVerdicts(s, [s EXCEPT !.plan = plan])
      /\ [s EXCEPT !.plan = plan].plan = plan
      /\ [s EXCEPT !.plan = plan].open_questions = s.open_questions
  BY DEF States, SameVerdicts
<1> QED BY <1>1, PushKeeps DEF planner, SameVerdicts

LEMMA GateKeeps ==
  ASSUME NEW s \in States, NEW plan \in Texts, NEW questions \in BOOLEAN
  PROVE  LET t == planner_gate(s, plan, questions) IN
         /\ t.verification = s.verification /\ t.delivery = s.delivery
         /\ t.stuck_decision = s.stuck_decision /\ t.dev = s.dev
         /\ t.plan = plan /\ t.open_questions = questions
         /\ IF questions THEN t.review.decision = "need_user_decision"
                         ELSE t.review = s.review
BY DEF planner_gate, States

LEMMA DeveloperKeeps ==
  ASSUME NEW s \in States
  PROVE  /\ SameVerdicts(s, developer(s)) /\ developer(s).plan = s.plan
         /\ developer(s).dev = s.dev
         /\ developer(s).open_questions = s.open_questions
         /\ \A asks : /\ SameVerdicts(s, developer_react(s, asks))
                      /\ developer_react(s, asks).plan = s.plan
                      /\ developer_react(s, asks).open_questions = s.open_questions
BY DEF developer, developer_react, SameVerdicts, States

LEMMA ToolsKeep ==
  ASSUME NEW s \in States, NEW verdict
  PROVE  /\ SameVerdicts(s, tools(s, verdict)) /\ tools(s, verdict).plan = s.plan
         /\ tools(s, verdict).open_questions = s.open_questions
BY DEF tools, SameVerdicts, States

LEMMA ReviewerKeeps ==
  ASSUME NEW s \in States, NEW d \in Decisions
  PROVE  /\ reviewer(s, d).verification = s.verification
         /\ reviewer(s, d).delivery = s.delivery
         /\ reviewer(s, d).stuck_decision = s.stuck_decision
         /\ reviewer(s, d).plan = s.plan
         /\ reviewer(s, d).open_questions = s.open_questions
         /\ reviewer(s, d).review.decision = d
         /\ reviewer(s, d).review.by = "reviewer"
<1> DEFINE t == reviewed(s, d)
<1>1. /\ t \in States
      /\ t.verification = s.verification /\ t.delivery = s.delivery
      /\ t.stuck_decision = s.stuck_decision /\ t.plan = s.plan
      /\ t.open_questions = s.open_questions
      /\ t.review.decision = d /\ t.review.by = "reviewer"
  BY ReviewerType DEF reviewed, States
<1>2. reviewer(s, d) \in {pushed(t, "review"), superseded(t, "review")}
  BY DEF reviewer
<1> HIDE DEF t
<1> QED BY <1>1, <1>2, PushKeeps DEF SameVerdicts

LEMMA TwoCallKeeps ==
  ASSUME NEW s \in States, NEW e \in BOOLEAN, NEW d \in Decisions
  PROVE  LET t == reviewer_two_call(s, e, d) IN
         /\ t.verification = s.verification /\ t.delivery = s.delivery
         /\ t.stuck_decision = s.stuck_decision /\ t.plan = s.plan
         /\ t.review.decision \in {d, "need_user_decision"}
         /\ t.review.by = "reviewer"
         /\ t.dev = s.dev
BY DEF reviewer_two_call, reviewed, States

LEMMA VerifierKeeps ==
  ASSUME NEW s \in States, NEW r \in {"passed", "failed"}
  PROVE  /\ verifier(s, r).review = s.review
         /\ verifier(s, r).delivery = s.delivery
         /\ verifier(s, r).stuck_decision = s.stuck_decision
         /\ verifier(s, r).plan = s.plan
         /\ verifier(s, r).open_questions = s.open_questions
<1> DEFINE t == [s EXCEPT !.verification = [result |-> r, of |-> s.code],
                          !.verify_round = @ + 1]
<1>1. t \in States
  BY FieldsType, CountersType, CodeType DEF Verifications
<1>2. /\ t.review = s.review /\ t.delivery = s.delivery
      /\ t.stuck_decision = s.stuck_decision /\ t.plan = s.plan
      /\ t.open_questions = s.open_questions
  BY DEF States
<1>3. CASE s.verify_command
  <2>1. verifier(s, r) \in {pushed(t, "verification"), t}
    BY <1>3 DEF verifier
  <2> HIDE DEF t
  <2> QED BY <1>1, <1>2, <2>1, PushKeeps DEF SameVerdicts
<1>4. CASE ~s.verify_command
  BY <1>4 DEF verifier, States
<1> QED BY <1>3, <1>4

LEMMA SupervisorKeeps ==
  ASSUME NEW s \in States, NEW a \in StuckActions
  PROVE  LET t == supervisor(s, a) IN
         /\ t.verification = s.verification /\ t.delivery = s.delivery /\ t.plan = s.plan
         /\ t.open_questions = s.open_questions
         /\ t.stuck_decision = a /\ t.dev = s.dev
         /\ IF a = "ask_user" THEN /\ t.review.decision = "need_user_decision"
                                   /\ t.review.by = "supervisor"
                              ELSE t.review = s.review
BY DEF supervisor, States

LEMMA DeliveryKeeps ==
  ASSUME NEW s \in States, NEW text \in Texts
  PROVE  LET t == delivery(s, text) IN
         /\ t.review = s.review /\ t.verification = s.verification
         /\ t.stuck_decision = s.stuck_decision /\ t.plan = s.plan /\ t.dev = s.dev
         /\ t.open_questions = s.open_questions
         /\ t.delivery.text = text
BY DEF delivery, States

LEMMA AnswersKeep ==
  ASSUME NEW s \in States
  PROVE  /\ reviewer_answer(s).verification = s.verification
         /\ reviewer_answer(s).delivery = s.delivery
         /\ reviewer_answer(s).stuck_decision = s.stuck_decision
         /\ reviewer_answer(s).plan = s.plan
         /\ reviewer_answer(s).open_questions = s.open_questions
         /\ reviewer_answer(s).review.decision = "revision_required"
         /\ reviewer_answer(s).review.by = "user"
         /\ planner_answer(s).verification = s.verification
         /\ planner_answer(s).delivery = s.delivery
         /\ planner_answer(s).stuck_decision = s.stuck_decision
         /\ planner_answer(s).plan = s.plan
         /\ planner_answer(s).open_questions = FALSE
         /\ planner_answer(s).review.decision = "none"
         /\ planner_answer(s).review.by = "nobody"
BY DEF reviewer_answer, planner_answer, superseded, NoReview, States

-----------------------------------------------------------------------------
(***************************************************************************)
(* What each node makes of the developer's transcript.                     *)
(***************************************************************************)

\* An item of this kind is appended to an open transcript.
LEMMA PushTells ==
  ASSUME NEW s \in States, NEW kind
  PROVE  LET d == pushed(s, kind).dev IN
         IF s.dev.tail = "empty"
         THEN d = s.dev
         ELSE /\ d.tail = "human"
              /\ d.known = s.dev.known \cup {kind}
              /\ s.dev.tail # "calls" => d.torn = s.dev.torn
<1>1. s.dev \in Transcripts
  BY DEF States
<1> QED BY <1>1 DEF pushed, States, Transcripts

LEMMA SupersedeTells ==
  ASSUME NEW s \in States, NEW kind
  PROVE  LET d == superseded(s, kind).dev IN
         d.tail = s.dev.tail /\ d.torn = s.dev.torn /\ d.known = s.dev.known \ {kind}
BY DEF superseded, States, Transcripts

LEMMA PlannerTells ==
  ASSUME NEW s \in States, NEW plan \in Texts
  PROVE  LET d == planner(s, plan).dev IN
         IF s.dev.tail = "empty"
         THEN d = s.dev
         ELSE /\ d.tail = "human"
              /\ d.known = s.dev.known \cup {"plan"}
              /\ s.dev.tail # "calls" => d.torn = s.dev.torn
<1> DEFINE t == [s EXCEPT !.plan = plan]
<1>1. t \in States /\ t.dev = s.dev
  BY DEF States
<1>2. planner(s, plan) = pushed(t, "plan")
  BY DEF planner
<1> HIDE DEF t
<1> QED BY <1>1, <1>2, PushTells

LEMMA DeveloperTells ==
  ASSUME NEW s \in States, NEW asks \in BOOLEAN
  PROVE  LET d == developer_react(s, asks).dev IN
         /\ d.tail = (IF asks THEN "calls" ELSE "answer")
         /\ s.dev.tail # "calls" => d.torn = s.dev.torn
         /\ d.known = IF s.dev.tail = "empty" THEN rendered(s) ELSE s.dev.known
BY DEF developer_react, States, Transcripts

LEMMA ReviewerTells ==
  ASSUME NEW s \in States, NEW decision \in Decisions
  PROVE  LET d == reviewer(s, decision).dev IN
         /\ s.dev.tail = "empty" => d.tail = "empty"
         /\ s.dev.tail # "empty" => d.tail \in {"human", s.dev.tail}
         /\ s.dev.tail # "empty" => s.dev.known \ {"review"} \subseteq d.known
         /\ s.dev.tail # "empty" /\ decision = "revision_required" => "review" \in d.known
         /\ s.dev.tail # "calls" => d.torn = s.dev.torn
<1> DEFINE t == reviewed(s, decision)
<1>1. t \in States /\ t.dev = s.dev
  BY ReviewerType DEF reviewed, States
<1>2. reviewer(s, decision)
        = IF decision = "revision_required" THEN pushed(t, "review")
                                            ELSE superseded(t, "review")
  BY DEF reviewer
<1> HIDE DEF t
<1>3. CASE decision = "revision_required" /\ s.dev.tail = "empty"
  BY <1>1, <1>2, <1>3, PushTells
<1>4. CASE decision = "revision_required" /\ s.dev.tail # "empty"
  BY <1>1, <1>2, <1>4, PushTells
<1>5. CASE decision # "revision_required"
  BY <1>1, <1>2, <1>5, SupersedeTells
<1> QED BY <1>3, <1>4, <1>5

LEMMA VerifierTells ==
  ASSUME NEW s \in States, NEW r \in {"passed", "failed"}
  PROVE  LET d == verifier(s, r).dev IN
         /\ s.dev.tail = "empty" => d.tail = "empty"
         /\ s.dev.tail # "empty" => d.tail \in {"human", s.dev.tail}
         /\ s.dev.tail # "empty" => s.dev.known \subseteq d.known
         /\ s.dev.tail # "empty" /\ verifier(s, r).verification.result = "failed"
              => "verification" \in d.known
         /\ s.dev.tail # "calls" => d.torn = s.dev.torn
<1> DEFINE t == [s EXCEPT !.verification = [result |-> r, of |-> s.code],
                          !.verify_round = @ + 1]
<1>1. t \in States /\ t.dev = s.dev /\ t.verification.result = r
  BY FieldsType, CountersType, CodeType DEF Verifications, States
<1>2. CASE s.verify_command
  <2>1. verifier(s, r) = IF r = "failed" THEN pushed(t, "verification") ELSE t
    BY <1>2 DEF verifier
  <2> HIDE DEF t
  <2>2. CASE r = "failed" /\ s.dev.tail = "empty"
    BY <1>1, <2>1, <2>2, PushTells
  <2>3. CASE r = "failed" /\ s.dev.tail # "empty"
    BY <1>1, <2>1, <2>3, PushTells
  <2>4. CASE r # "failed"
    BY <1>1, <2>1, <2>4
  <2> QED BY <2>2, <2>3, <2>4
<1>3. CASE ~s.verify_command
  BY <1>3 DEF verifier, States
<1> QED BY <1>2, <1>3

LEMMA AnswersTell ==
  ASSUME NEW s \in States
  PROVE  /\ reviewer_answer(s).dev.tail = s.dev.tail
         /\ reviewer_answer(s).dev.torn = s.dev.torn
         /\ reviewer_answer(s).dev.known = s.dev.known \ {"directive"}
         /\ planner_answer(s).dev.tail = s.dev.tail
         /\ planner_answer(s).dev.torn = s.dev.torn
         /\ planner_answer(s).dev.known = s.dev.known \ {"directive"}
BY DEF reviewer_answer, planner_answer, superseded, States, Transcripts

LEMMA ToolsTell ==
  ASSUME NEW s \in States, NEW verdict
  PROVE  /\ tools(s, verdict).dev.tail = "results"
         /\ tools(s, verdict).dev.torn = s.dev.torn
         /\ tools(s, verdict).dev.known = s.dev.known
BY DEF tools, States, Transcripts

-----------------------------------------------------------------------------
(***************************************************************************)
(* No developer pass is blind.                                             *)
(***************************************************************************)

\* An open transcript holds everything the developer has to be told.
Told(s) == s.dev.tail # "empty" => Feedback(s) \subseteq s.dev.known

\* Tools and oracle run, and so the oracle fails, only after a developer that opened
\* its transcript.
DeveloperCameFirst ==
  st.verification.result = "failed" \/ next \in {"tools", "verify"} => st.dev.tail # "empty"

ToldInv == TypeInv /\ Told(st) /\ DeveloperCameFirst

LEMMA VerifyRoute ==
  ASSUME NEW p \in PresetNames, NEW n \in GraphNodes(p), NEW s \in States,
         After(p, n, s) \in {"tools", "verify"}
  PROVE  /\ n = "developer"
         /\ After(p, n, s) = "verify" => UsesTools(p)
         /\ After(p, n, s) = "tools" => s.dev.tail = "calls"
<1>1. n \in {"planner", "developer", "tools", "verify", "supervisor", "reviewer", "delivery"}
  BY DEF GraphNodes, PresetNodes, Roles
<1>2. CASE n = "planner"
  BY <1>2 DEF After, Branch, planner_gate_router, END
<1>3. CASE n = "developer"
  BY <1>3 DEF After, developer_route, DeveloperTarget, END, UsesTools
<1>4. CASE n = "tools"
  BY <1>4 DEF After
<1>5. CASE n = "verify"
  BY <1>5 DEF After, Branch, goal_router, END
<1>6. CASE n = "supervisor"
  BY <1>6 DEF After, Branch, stuck_router, END
<1>7. CASE n = "reviewer"
  BY <1>7 DEF After, Branch, review_router, END
<1>8. CASE n = "delivery"
  BY <1>8 DEF After, END
<1> QED BY <1>1, <1>2, <1>3, <1>4, <1>5, <1>6, <1>7, <1>8

\* The facts every superstep of a well-typed run gives.
LEMMA SuperstepFacts ==
  ASSUME TypeInv, NEW n, n # END, NEW s, Superstep(n, s)
  PROVE  /\ live /\ n = next /\ n \in GraphNodes(spec.preset) /\ spec.preset \in PresetNames
         /\ st \in States /\ st' = s /\ spec' = spec /\ gate' = "clear" /\ live' /\ outcome' = outcome
         /\ next' = After(spec.preset, n, s)
BY RunAssumption DEF TypeInv, TypeOK, Specs, Superstep

\* A node that leaves the feedback alone, or says it, leaves the developer told.
LEMMA NextTold == ToldInv /\ [Next]_vars => ToldInv'
<1> SUFFICES ASSUME ToldInv, [Next]_vars PROVE ToldInv'
  OBVIOUS
<1> USE AnswersType
<1>0. /\ TypeInv /\ TypeInv' /\ st \in States /\ st' \in States
      /\ ~UsesTools(spec.preset) => st.dev.tail = "empty"
      /\ Told(st)
      /\ st.verification.result = "failed" => st.dev.tail # "empty"
      /\ next \in {"tools", "verify"} => st.dev.tail # "empty"
  BY NextType DEF ToldInv, TypeInv, TypeOK, ToollessTranscript, DeveloperCameFirst
<1>1. ASSUME NEW n, n # END, NEW s, Superstep(n, s), n # "developer"
      PROVE  st' = s /\ n = next /\ next' \notin {"tools", "verify"}
  BY <1>0, <1>1, SuperstepFacts, VerifyRoute
<1>a. \A n \in {"planner", "developer", "tools", "verify", "supervisor", "reviewer",
                "delivery"} : n # END
  BY DEF END
<1>2. CASE Planner
  <2>1. PICK plan \in Answers.text, questions \in Answers.questions :
          Superstep("planner",
                    IF spec.preset = "planner_gate" THEN planner_gate(st, plan, questions)
                                                    ELSE planner(st, plan))
    BY <1>2 DEF Planner
  <2>2. st' = (IF spec.preset = "planner_gate" THEN planner_gate(st, plan, questions)
                                               ELSE planner(st, plan))
        /\ next' \notin {"tools", "verify"}
    BY <1>1, <1>a, <2>1
  <2>3. CASE spec.preset = "planner_gate"
    <3>1. st.dev.tail = "empty" /\ st' = planner_gate(st, plan, questions)
      BY <1>0, <2>2, <2>3 DEF UsesTools
    <3>2. st'.dev.tail = "empty" /\ st'.verification = st.verification
      BY <1>0, <3>1, EmptyTranscript, GateKeeps
    <3> QED BY <1>0, <2>2, <3>1, <3>2 DEF ToldInv, Told, DeveloperCameFirst
  <2>4. CASE spec.preset # "planner_gate"
    <3>1. st' = planner(st, plan)
      BY <2>2, <2>4
    <3>2. SameVerdicts(st, st')
      BY <1>0, <3>1, PlannerKeeps
    <3>3. CASE st.dev.tail = "empty"
      <4>1. st'.dev.tail = "empty"
        BY <1>0, <3>1, <3>3, EmptyTranscript
      <4> QED BY <1>0, <2>2, <3>2, <3>3, <4>1 DEF ToldInv, Told, DeveloperCameFirst, SameVerdicts
    <3>4. CASE st.dev.tail # "empty"
      <4>1. st'.dev.tail = "human" /\ st'.dev.known = st.dev.known \cup {"plan"}
        BY <1>0, <3>1, <3>4, PlannerTells
      <4> QED BY <1>0, <2>2, <3>2, <3>4, <4>1
              DEF ToldInv, Told, DeveloperCameFirst, SameVerdicts, Feedback
    <3> QED BY <3>3, <3>4
  <2> QED BY <2>3, <2>4
<1>3. CASE Developer
  <2>1. PICK asks \in Answers.asks :
          Superstep("developer",
                    IF UsesTools(spec.preset) THEN developer_react(st, asks) ELSE developer(st))
    BY <1>3 DEF Developer
  <2>2. /\ st' = (IF UsesTools(spec.preset) THEN developer_react(st, asks) ELSE developer(st))
        /\ next' = "verify" => UsesTools(spec.preset)
        /\ next' = "tools" => st'.dev.tail = "calls"
    <3> DEFINE s == IF UsesTools(spec.preset) THEN developer_react(st, asks) ELSE developer(st)
    <3> HIDE DEF s
    <3>1. Superstep("developer", s)
      BY <2>1 DEF s
    <3>2. /\ st' = s /\ s \in States /\ spec.preset \in PresetNames
          /\ "developer" \in GraphNodes(spec.preset)
          /\ next' = After(spec.preset, "developer", s)
      BY <1>0, <1>a, <3>1, SuperstepFacts
    <3>3. /\ next' = "verify" => UsesTools(spec.preset)
          /\ next' = "tools" => st'.dev.tail = "calls"
      BY <3>2, VerifyRoute
    <3> QED BY <3>2, <3>3 DEF s
  <2>3. SameVerdicts(st, st') /\ st'.plan = st.plan
    BY <1>0, <2>2, DeveloperKeeps
  <2>4. CASE UsesTools(spec.preset)
    <3>1. /\ st'.dev.tail # "empty"
          /\ st'.dev.known = IF st.dev.tail = "empty" THEN rendered(st) ELSE st.dev.known
      BY <1>0, <2>2, <2>4, DeveloperTells
    <3>2. Feedback(st') = Feedback(st)
      BY <2>3 DEF Feedback, SameVerdicts
    <3>3. Told(st')
      BY <1>0, <3>1, <3>2 DEF Told, Feedback, rendered
    <3> QED BY <1>0, <3>1, <3>3 DEF ToldInv, DeveloperCameFirst
  <2>5. CASE ~UsesTools(spec.preset)
    <3>1. st'.dev.tail = "empty"
      BY <1>0, <2>2, <2>5, EmptyTranscript
    <3> QED BY <1>0, <2>2, <2>3, <2>5, <3>1 DEF ToldInv, Told, DeveloperCameFirst, SameVerdicts
  <2> QED BY <2>4, <2>5
<1>4. CASE Tools
  <2>1. PICK verdict : Superstep("tools", tools(st, verdict))
    BY <1>4 DEF Tools
  <2>2. st' = tools(st, verdict) /\ next' \notin {"tools", "verify"} /\ next = "tools"
    BY <1>1, <1>a, <2>1
  <2>3. /\ SameVerdicts(st, st') /\ st'.plan = st.plan
        /\ st'.dev.tail = "results" /\ st'.dev.known = st.dev.known
    BY <1>0, <2>2, ToolsKeep, ToolsTell
  <2>4. Feedback(st') = Feedback(st)
    BY <2>3 DEF Feedback, SameVerdicts
  <2> QED BY <1>0, <2>2, <2>3, <2>4 DEF ToldInv, Told, DeveloperCameFirst
<1>5. CASE Reviewer
  <2>1. PICK decision \in Answers.decision, escalate \in Answers.questions :
          Superstep("reviewer",
                    IF spec.preset = "two_call_review"
                    THEN reviewer_two_call(st, escalate, decision)
                    ELSE reviewer(st, decision))
    BY <1>5 DEF Reviewer
  <2>2. /\ st' = (IF spec.preset = "two_call_review"
                  THEN reviewer_two_call(st, escalate, decision)
                  ELSE reviewer(st, decision))
        /\ next' \notin {"tools", "verify"}
    BY <1>1, <1>a, <2>1
  <2>3. CASE spec.preset = "two_call_review"
    <3>1. st.dev.tail = "empty" /\ st' = reviewer_two_call(st, escalate, decision)
      BY <1>0, <2>2, <2>3 DEF UsesTools
    <3>2. st'.dev = st.dev /\ st'.verification = st.verification
      BY <1>0, <3>1, TwoCallKeeps
    <3> QED BY <1>0, <2>2, <3>1, <3>2 DEF ToldInv, Told, DeveloperCameFirst
  <2>4. CASE spec.preset # "two_call_review"
    <3>1. st' = reviewer(st, decision) /\ decision \in Decisions
      BY <2>2, <2>4
    <3>2. /\ st'.verification = st.verification /\ st'.plan = st.plan
          /\ st'.review.decision = decision
      BY <1>0, <3>1, ReviewerKeeps
    <3>3. CASE st.dev.tail = "empty"
      <4>1. st'.dev.tail = "empty"
        BY <1>0, <3>1, <3>3, ReviewerTells
      <4> QED BY <1>0, <2>2, <3>2, <3>3, <4>1 DEF ToldInv, Told, DeveloperCameFirst
    <3>4. CASE st.dev.tail # "empty"
      <4>1. /\ st'.dev.tail # "empty"
            /\ st.dev.known \ {"review"} \subseteq st'.dev.known
            /\ decision = "revision_required" => "review" \in st'.dev.known
        BY <1>0, <3>1, <3>4, ReviewerTells
      <4>2. Told(st')
        BY <1>0, <3>2, <3>4, <4>1 DEF Told, Feedback
      <4> QED BY <1>0, <2>2, <4>1, <4>2 DEF ToldInv, DeveloperCameFirst
    <3> QED BY <3>3, <3>4
  <2> QED BY <2>3, <2>4
<1>6. CASE Verify
  <2>1. PICK r \in Answers.oracle : Superstep("verify", verifier(st, r))
    BY <1>6 DEF Verify
  <2>2. /\ st' = verifier(st, r) /\ r \in {"passed", "failed"}
        /\ next = "verify" /\ next' \notin {"tools", "verify"}
    BY <1>1, <1>a, <2>1
  <2>3. st.dev.tail # "empty"
    BY <1>0, <2>2
  <2>4. /\ st'.review = st.review /\ st'.plan = st.plan
        /\ st'.dev.tail # "empty"
        /\ st.dev.known \subseteq st'.dev.known
        /\ st'.verification.result = "failed" => "verification" \in st'.dev.known
    BY <1>0, <2>2, <2>3, VerifierKeeps, VerifierTells
  <2>5. Told(st')
    BY <1>0, <2>3, <2>4 DEF Told, Feedback
  <2> QED BY <1>0, <2>4, <2>5 DEF ToldInv, DeveloperCameFirst
<1>7. CASE Supervisor
  <2>1. PICK a \in Answers.action : Superstep("supervisor", supervisor(st, a))
    BY <1>7 DEF Supervisor
  <2>2. st' = supervisor(st, a) /\ a \in StuckActions /\ next' \notin {"tools", "verify"}
    BY <1>1, <1>a, <2>1
  <2>3. /\ st'.verification = st.verification /\ st'.plan = st.plan /\ st'.dev = st.dev
        /\ st'.review = st.review \/ st'.review.decision = "need_user_decision"
    BY <1>0, <2>2, SupervisorKeeps
  <2>4. Feedback(st') \subseteq Feedback(st)
    BY <2>3 DEF Feedback
  <2> QED BY <1>0, <2>2, <2>3, <2>4 DEF ToldInv, Told, DeveloperCameFirst
<1>8. CASE Delivery
  <2>1. PICK text \in Answers.text : Superstep("delivery", delivery(st, text))
    BY <1>8 DEF Delivery
  <2>2. st' = delivery(st, text) /\ text \in Texts /\ next' \notin {"tools", "verify"}
    BY <1>1, <1>a, <2>1
  <2>3. /\ st'.verification = st.verification /\ st'.plan = st.plan /\ st'.dev = st.dev
        /\ st'.review = st.review
    BY <1>0, <2>2, DeliveryKeeps
  <2>4. Feedback(st') = Feedback(st)
    BY <2>3 DEF Feedback
  <2> QED BY <1>0, <2>2, <2>3, <2>4 DEF ToldInv, Told, DeveloperCameFirst
<1>9. CASE ApprovalHalt \/ Return \/ RecursionError \/ Raise \/ ResumeToolCall \/ UNCHANGED vars
  <2>1. st' = st /\ next' = next
    BY <1>9 DEF ApprovalHalt, Return, RecursionError, Raise, Ended, ResumeToolCall, vars
  <2> QED BY <1>0, <2>1 DEF ToldInv, DeveloperCameFirst
<1>10. CASE ResumeAtReviewer \/ ResumeAtPlanner
  <2>1. st' \in {reviewer_answer(st), planner_answer(st)} /\ next' \notin {"tools", "verify"}
    BY <1>0, <1>10, VerifyRoute, RunAssumption
       DEF ResumeAtReviewer, ResumeAtPlanner, Reinvoke, GraphNodes, TypeInv, TypeOK, Specs
  <2>2. /\ st'.verification = st.verification /\ st'.plan = st.plan
        /\ ~(st'.review.decision = "revision_required" /\ st'.review.by = "reviewer")
        /\ st'.dev.tail = st.dev.tail /\ st'.dev.known = st.dev.known \ {"directive"}
    <3>1. st'.verification = st.verification /\ st'.plan = st.plan
      BY <1>0, <2>1, AnswersKeep
    <3>2. st'.review.by \in {"user", "nobody"}
      BY <1>0, <2>1, AnswersKeep
    <3>3. st'.dev.tail = st.dev.tail /\ st'.dev.known = st.dev.known \ {"directive"}
      BY <1>0, <2>1, AnswersTell
    <3> QED BY <3>1, <3>2, <3>3
  <2>3. Told(st')
    BY <1>0, <2>2 DEF Told, Feedback
  <2> QED BY <1>0, <2>1, <2>2, <2>3 DEF ToldInv, DeveloperCameFirst
<1> QED
  BY <1>2, <1>3, <1>4, <1>5, <1>6, <1>7, <1>8, <1>9, <1>10 DEF Next, Node, Resume

LEMMA AlwaysToldInv == Spec => []ToldInv
<1>1. Init => ToldInv
  <2> SUFFICES ASSUME Init PROVE ToldInv
    OBVIOUS
  <2>1. st.dev.tail = "empty" /\ st.verification.result = "none"
    BY DEF Init, initial_state
  <2>2. next \notin {"tools", "verify"}
    BY DEF Init, PresetEntry
  <2> QED BY <2>1, <2>2, InitType DEF ToldInv, Told, DeveloperCameFirst
<1> QED BY <1>1, NextTold, PTL DEF Spec

(***************************************************************************)
(* No pass of the developer is blind: whoever resumes the task and where,  *)
(* its prompt or its transcript carries the latest plan, the latest        *)
(* request for a revision and the latest failure of the oracle, although   *)
(* a tool-using developer's prompt is rendered from the state only once    *)
(* (the pushes of roles/planner.py, reviewer.py and verifier.py).          *)
(***************************************************************************)
THEOREM DeveloperIsTold == Spec => []DeveloperIsNeverBlind
<1>1. ASSUME ToldInv
      PROVE  Feedback(st) \subseteq prompt_of(spec.preset, st)
  <2>1. CASE UsesTools(spec.preset) /\ st.dev.tail # "empty"
    BY <1>1, <2>1 DEF ToldInv, Told, prompt_of
  <2>2. CASE ~UsesTools(spec.preset) \/ st.dev.tail = "empty"
    <3>1. st.verification.result # "failed"
      BY <1>1, <2>2 DEF ToldInv, TypeInv, ToollessTranscript, DeveloperCameFirst
    <3> QED BY <2>2, <3>1 DEF prompt_of, Feedback, rendered
  <2> QED BY <2>1, <2>2
<1>2. ToldInv => DeveloperIsNeverBlind
  BY <1>1 DEF DeveloperIsNeverBlind
<1> QED BY <1>2, AlwaysToldInv, PTL

-----------------------------------------------------------------------------
(***************************************************************************)
(* Clients that do what the docs say: they answer a task that waits for    *)
(* its user, and they answer what it waits for.                            *)
(***************************************************************************)

DocumentedClient == Client = "documented" /\ ResumeOn \subseteq {"awaiting_user"}

\* The user's answer to a question can put the task back to work.
Resumable(s) ==
  /\ s.delivery.text # "text"
  /\ s.stuck_decision # "abort"
  /\ ~(s.verification.result = "failed" /\ s.verify_round >= s.max_iterations)

\* The task has neither a verdict nor a question.
Going(s) ==
  /\ Resumable(s)
  /\ s.review.decision # "need_user_decision"
  /\ ~(s.review.decision = "revision_required" /\ s.revision_round > s.max_revisions)

\* A task with a node to run has neither verdict nor question, and a question is
\* only asked while an answer still helps.
GoingInv ==
  /\ next # END => Going(st)
  /\ st.review.decision = "need_user_decision" => Resumable(st)

\* Only tool calls halt on an approval, and they wait with nothing running.
GateInv == (gate # "clear" => next = "tools") /\ (gate = "halted" => ~live)

\* An unanswered tool call is the newest message, and the tool node is next.
CallsInv == (st.dev.tail = "calls" => next = "tools") /\ ~st.dev.torn

ClientInv == TypeInv /\ GoingInv /\ GateInv /\ CallsInv

LEMMA GoingStatus ==
  ASSUME NEW s, Going(s)
  PROVE  StatusOf(s, FALSE) = "running"
BY DEF Going, Resumable, StatusOf, Failed

\* A node leads on only while the task has neither a verdict nor a question.
LEMMA GoingRoutes ==
  ASSUME NEW p \in PresetNames, NEW n \in GraphNodes(p), NEW s \in States
  PROVE  /\ After(p, n, s) # END =>
              /\ n = "planner" /\ p = "planner_gate" =>
                   /\ ~s.open_questions /\ s.plan = "text"
                   /\ s.review.decision # "need_user_decision"
              /\ n = "reviewer" =>
                   \/ s.review.decision = "approved"
                   \/ /\ s.review.decision = "revision_required"
                      /\ s.revision_round <= s.max_revisions
              /\ n = "verify" =>
                   ~(s.verification.result = "failed" /\ s.verify_round >= s.max_iterations)
              /\ n = "supervisor" => s.stuck_decision \in {"continue", "replan"}
              /\ n # "delivery"
         /\ n = "developer" /\ s.dev.tail = "calls" => After(p, n, s) = "tools"
<1>1. CASE n = "planner"
  BY <1>1 DEF After, Branch, planner_gate_router, PresetNodes
<1>2. CASE n = "reviewer"
  <2>1. After(p, n, s) = Branch(p, review_router(s))
    BY <1>2 DEF After
  <2>2. "halt" \notin PresetNodes(p)
    BY DEF PresetNodes, Roles
  <2>3. review_router(s) # "halt" =>
          \/ s.review.decision = "approved"
          \/ s.review.decision = "revision_required" /\ s.revision_round <= s.max_revisions
    BY DEF review_router
  <2> QED BY <1>2, <2>1, <2>2, <2>3 DEF Branch
<1>3. CASE n = "verify"
  <2>1. After(p, n, s) = Branch(p, goal_router(s))
    BY <1>3 DEF After
  <2>2. "halt" \notin PresetNodes(p)
    BY DEF PresetNodes, Roles
  <2>3. s.verification.result = "failed" /\ s.verify_round >= s.max_iterations
          => goal_router(s) = "halt"
    BY DEF goal_router
  <2> QED BY <1>3, <2>1, <2>2, <2>3 DEF Branch
<1>4. CASE n = "supervisor"
  BY <1>4 DEF After, Branch, stuck_router, PresetNodes, Roles
<1>5. CASE n = "delivery"
  BY <1>5 DEF After
<1>6. CASE n = "developer"
  BY <1>6 DEF After, developer_route
<1> QED BY <1>1, <1>2, <1>3, <1>4, <1>5, <1>6

\* A superstep of node n that leaves the state s keeps the invariant.
LEMMA GoingStep ==
  ASSUME ClientInv, TypeInv', NEW n, n # END, NEW s, Superstep(n, s),
         After(spec.preset, n, s) # END => Going(s),
         s.review.decision = "need_user_decision" => Resumable(s),
         s.dev.tail = "calls" => n = "developer", s.dev.torn = st.dev.torn
  PROVE  ClientInv'
<1>1. /\ st' = s /\ gate' = "clear" /\ spec.preset \in PresetNames /\ s \in States
      /\ n \in GraphNodes(spec.preset) /\ next' = After(spec.preset, n, s)
  BY SuperstepFacts DEF ClientInv, TypeInv, TypeOK
<1>2. GoingInv'
  BY <1>1 DEF GoingInv
<1>3. CallsInv'
  BY <1>1, GoingRoutes DEF ClientInv, CallsInv
<1>4. GateInv'
  BY <1>1 DEF GateInv
<1> QED BY <1>2, <1>3, <1>4 DEF ClientInv

\* The same state, or one that differs in nothing the status depends on.
LEMMA GoingSame ==
  ASSUME NEW s, NEW t, SameVerdicts(s, t), KeepsCounters(s, t, {}), Going(s)
  PROVE  Going(t)
BY DEF SameVerdicts, KeepsCounters, Going, Resumable

LEMMA NextClient == DocumentedClient /\ ClientInv /\ [Next]_vars => ClientInv'
<1> SUFFICES ASSUME DocumentedClient, ClientInv, [Next]_vars PROVE ClientInv'
  OBVIOUS
<1> USE AnswersType
<1>0. /\ TypeInv /\ TypeInv' /\ st \in States
      /\ spec.preset \in PresetNames
      /\ next # END => Going(st)
      /\ st.review.decision = "need_user_decision" => Resumable(st)
      /\ st.dev.tail = "calls" => next = "tools"
      /\ ~st.dev.torn
  BY NextType, RunAssumption DEF ClientInv, TypeInv, TypeOK, Specs, GoingInv, CallsInv
<1>a. \A n \in {"planner", "developer", "tools", "verify", "supervisor", "reviewer",
                "delivery"} : n # END
  BY DEF END
<1>1. ASSUME NEW n, n # END, NEW s, Superstep(n, s)
      PROVE  /\ next = n /\ n \in GraphNodes(spec.preset) /\ s \in States
             /\ Going(st)
             /\ n # "tools" => st.dev.tail # "calls"
  BY <1>0, <1>1, SuperstepFacts DEF TypeInv, TypeOK
<1>2. CASE Planner
  <2>1. PICK plan \in Answers.text, questions \in Answers.questions :
          Superstep("planner",
                    IF spec.preset = "planner_gate" THEN planner_gate(st, plan, questions)
                                                    ELSE planner(st, plan))
    BY <1>2 DEF Planner
  <2>2. CASE spec.preset = "planner_gate"
    <3> DEFINE s == planner_gate(st, plan, questions)
    <3>1. Superstep("planner", s)
      BY <2>1, <2>2
    <3>2. /\ s.verification = st.verification /\ s.delivery = st.delivery
          /\ s.stuck_decision = st.stuck_decision /\ s.dev = st.dev
          /\ s.open_questions = questions
          /\ IF questions THEN s.review.decision = "need_user_decision"
                          ELSE s.review = st.review
          /\ KeepsCounters(st, s, {})
      BY <1>0, GateKeeps, NodesKeepCounters
    <3> HIDE DEF s
    <3>3. Going(st) /\ s \in States /\ "planner" \in GraphNodes(spec.preset)
          /\ st.dev.tail # "calls"
      BY <1>1, <1>a, <3>1
    <3>4. Resumable(s)
      BY <3>2, <3>3 DEF Going, Resumable, KeepsCounters
    <3>5. After(spec.preset, "planner", s) # END => Going(s)
      BY <1>0, <2>2, <3>2, <3>3, <3>4, GoingRoutes DEF Going, KeepsCounters
    <3> QED BY <1>0, <1>a, <3>1, <3>2, <3>3, <3>4, <3>5, GoingStep
  <2>3. CASE spec.preset # "planner_gate"
    <3> DEFINE s == planner(st, plan)
    <3>1. Superstep("planner", s)
      BY <2>1, <2>3
    <3>2. /\ SameVerdicts(st, s) /\ KeepsCounters(st, s, {})
          /\ st.dev.tail # "calls" => s.dev.tail # "calls" /\ s.dev.torn = st.dev.torn
      BY <1>0, PlannerKeeps, PlannerTells, NodesKeepCounters
    <3> HIDE DEF s
    <3>3. Going(st) /\ st.dev.tail # "calls"
      BY <1>1, <1>a, <3>1
    <3>4. Going(s)
      BY <3>2, <3>3, GoingSame
    <3> QED BY <1>0, <1>a, <3>1, <3>2, <3>3, <3>4, GoingStep DEF Going
  <2> QED BY <2>2, <2>3
<1>3. CASE Developer
  <2>1. PICK asks \in Answers.asks :
          Superstep("developer",
                    IF UsesTools(spec.preset) THEN developer_react(st, asks) ELSE developer(st))
    BY <1>3 DEF Developer
  <2> DEFINE s == IF UsesTools(spec.preset) THEN developer_react(st, asks) ELSE developer(st)
  <2>2. /\ SameVerdicts(st, s) /\ KeepsCounters(st, s, {})
        /\ st.dev.tail # "calls" => s.dev.torn = st.dev.torn
    BY <1>0, DeveloperKeeps, DeveloperTells, NodesKeepCounters
  <2> HIDE DEF s
  <2>3. Superstep("developer", s)
    BY <2>1 DEF s
  <2>4. Going(st) /\ st.dev.tail # "calls"
    BY <1>1, <1>a, <2>3
  <2>5. Going(s)
    BY <2>2, <2>4, GoingSame
  <2> QED BY <1>0, <1>a, <2>2, <2>3, <2>4, <2>5, GoingStep DEF Going
<1>4. CASE Tools
  <2>1. PICK verdict : Superstep("tools", tools(st, verdict))
    BY <1>4 DEF Tools
  <2> DEFINE s == tools(st, verdict)
  <2>2. /\ SameVerdicts(st, s) /\ KeepsCounters(st, s, {})
        /\ s.dev.tail = "results" /\ s.dev.torn = st.dev.torn
    BY <1>0, ToolsKeep, ToolsTell, NodesKeepCounters
  <2>3. Going(st)
    BY <1>1, <1>a, <2>1
  <2> HIDE DEF s
  <2>4. Going(s)
    BY <2>2, <2>3, GoingSame
  <2>5. Superstep("tools", s)
    BY <2>1 DEF s
  <2> QED BY <1>0, <1>a, <2>2, <2>4, <2>5, GoingStep DEF Going
<1>5. CASE Reviewer
  <2>1. PICK decision \in Answers.decision, escalate \in Answers.questions :
          Superstep("reviewer",
                    IF spec.preset = "two_call_review"
                    THEN reviewer_two_call(st, escalate, decision)
                    ELSE reviewer(st, decision))
    BY <1>5 DEF Reviewer
  <2> DEFINE s == IF spec.preset = "two_call_review"
                  THEN reviewer_two_call(st, escalate, decision)
                  ELSE reviewer(st, decision)
  <2>2. /\ s.verification = st.verification /\ s.delivery = st.delivery
        /\ s.stuck_decision = st.stuck_decision
        /\ KeepsCounters(st, s, {"revision_round"})
        /\ st.dev.tail # "calls" => s.dev.tail # "calls" /\ s.dev.torn = st.dev.torn
    <3>1. decision \in Decisions /\ escalate \in BOOLEAN
      OBVIOUS
    <3>2. CASE spec.preset = "two_call_review"
      BY <1>0, <3>1, <3>2, TwoCallKeeps, NodesCount
    <3>3. CASE spec.preset # "two_call_review"
      BY <1>0, <3>1, <3>3, ReviewerKeeps, ReviewerTells, NodesCount
    <3> QED BY <3>2, <3>3
  <2> HIDE DEF s
  <2>3. Superstep("reviewer", s)
    BY <2>1 DEF s
  <2>4. Going(st) /\ s \in States /\ "reviewer" \in GraphNodes(spec.preset)
        /\ st.dev.tail # "calls"
    BY <1>1, <1>a, <2>3
  <2>5. Resumable(s)
    BY <2>2, <2>4 DEF Going, Resumable, KeepsCounters
  <2>6. s.revision_round \in Nat /\ s.max_revisions \in Nat
    BY <2>4 DEF States
  <2>7. After(spec.preset, "reviewer", s) # END => Going(s)
    BY <1>0, <2>4, <2>5, <2>6, GoingRoutes DEF Going
  <2> QED BY <1>0, <1>a, <2>2, <2>3, <2>4, <2>5, <2>7, GoingStep
<1>6. CASE Verify
  <2>1. PICK r \in {"passed", "failed"} : Superstep("verify", verifier(st, r))
    BY <1>6 DEF Verify
  <2> DEFINE s == verifier(st, r)
  <2>2. /\ s.review = st.review /\ s.delivery = st.delivery
        /\ s.stuck_decision = st.stuck_decision
        /\ KeepsCounters(st, s, {"verify_round"})
        /\ st.dev.tail # "calls" => s.dev.tail # "calls" /\ s.dev.torn = st.dev.torn
    BY <1>0, VerifierKeeps, VerifierTells, NodesCount
  <2> HIDE DEF s
  <2>3. Superstep("verify", s)
    BY <2>1 DEF s
  <2>4. Going(st) /\ s \in States /\ "verify" \in GraphNodes(spec.preset)
        /\ st.dev.tail # "calls"
    BY <1>1, <1>a, <2>3
  <2>5. s.review.decision # "need_user_decision"
    BY <2>2, <2>4 DEF Going
  <2>6. After(spec.preset, "verify", s) # END => Going(s)
    BY <1>0, <2>2, <2>4, GoingRoutes DEF Going, Resumable, KeepsCounters
  <2> QED BY <1>0, <1>a, <2>2, <2>3, <2>4, <2>5, <2>6, GoingStep
<1>7. CASE Supervisor
  <2>1. PICK a \in Answers.action : Superstep("supervisor", supervisor(st, a))
    BY <1>7 DEF Supervisor
  <2> DEFINE s == supervisor(st, a)
  <2>2. /\ s.verification = st.verification /\ s.delivery = st.delivery
        /\ s.stuck_decision = a /\ s.dev = st.dev
        /\ IF a = "ask_user" THEN s.review.decision = "need_user_decision"
                             ELSE s.review = st.review
        /\ KeepsCounters(st, s, {"supervisions"})
    BY <1>0, SupervisorKeeps, NodesCount
  <2> HIDE DEF s
  <2>3. Superstep("supervisor", s)
    BY <2>1 DEF s
  <2>4. Going(st) /\ s \in States /\ "supervisor" \in GraphNodes(spec.preset)
        /\ st.dev.tail # "calls"
    BY <1>1, <1>a, <2>3
  <2>5. s.review.decision = "need_user_decision" => Resumable(s)
    BY <2>2, <2>4 DEF Going, Resumable, KeepsCounters
  <2>6. After(spec.preset, "supervisor", s) # END => a \in {"continue", "replan"}
    BY <1>0, <2>2, <2>4, GoingRoutes
  <2>7. After(spec.preset, "supervisor", s) # END => Going(s)
    BY <2>2, <2>4, <2>6 DEF Going, Resumable, KeepsCounters
  <2> QED BY <1>0, <1>a, <2>2, <2>3, <2>4, <2>5, <2>7, GoingStep
<1>8. CASE Delivery
  <2>1. PICK text \in Answers.text : Superstep("delivery", delivery(st, text))
    BY <1>8 DEF Delivery
  <2> DEFINE s == delivery(st, text)
  <2>2. s.review = st.review /\ s.dev = st.dev
    BY <1>0, DeliveryKeeps
  <2> HIDE DEF s
  <2>3. Superstep("delivery", s)
    BY <2>1 DEF s
  <2>4. Going(st) /\ s \in States /\ "delivery" \in GraphNodes(spec.preset)
        /\ st.dev.tail # "calls"
    BY <1>1, <1>a, <2>3
  <2>5. s.review.decision # "need_user_decision"
    BY <2>2, <2>4 DEF Going
  <2>6. After(spec.preset, "delivery", s) = END
    BY <1>0, <2>4, GoingRoutes
  <2> QED BY <1>0, <1>a, <2>2, <2>3, <2>4, <2>5, <2>6, GoingStep
<1>9. CASE ApprovalHalt
  BY <1>0, <1>9 DEF ApprovalHalt, ClientInv, GoingInv, GateInv, CallsInv
<1>10. CASE Return \/ RecursionError \/ Raise
  BY <1>0, <1>10 DEF Return, RecursionError, Raise, Ended, ClientInv, GoingInv, GateInv, CallsInv
<1>11. ASSUME Resumed, gate = "clear"
       PROVE  /\ next = END /\ st.dev.tail # "calls" /\ Resumable(st)
              /\ st.review.decision = "need_user_decision"
  <2>1. StatusOf(st, FALSE) = "awaiting_user"
    BY <1>11 DEF Resumed, Status, DocumentedClient
  <2>2. st.review.decision = "need_user_decision"
    BY <2>1 DEF StatusOf
  <2> QED BY <1>0, <2>2 DEF Going, END
<1>12. CASE ResumeAtReviewer
  <2>1. gate = "clear" /\ Resumed /\ Reinvoke("reviewer", reviewer_answer(st))
    BY <1>12 DEF ResumeAtReviewer, AtNodes, DocumentedClient
  <2> DEFINE s == reviewer_answer(st)
  <2>2. /\ s.verification = st.verification /\ s.delivery = st.delivery
        /\ s.stuck_decision = st.stuck_decision
        /\ s.review.decision = "revision_required"
        /\ s.dev.tail = st.dev.tail /\ s.dev.torn = st.dev.torn
        /\ KeepsCounters(st, s, {"user_directives"})
    BY <1>0, AnswersKeep, AnswersTell, NodesCount
  <2> HIDE DEF s
  <2>3. /\ st' = s /\ next' = After(spec.preset, "reviewer", s) /\ gate' = "clear"
        /\ "reviewer" \in GraphNodes(spec.preset) /\ s \in States
    BY <1>0, <2>1 DEF Reinvoke, GraphNodes, s, TypeInv, TypeOK
  <2>4. Resumable(s)
    BY <1>11, <2>1, <2>2 DEF Resumable, KeepsCounters
  <2>5. s.revision_round \in Nat /\ s.max_revisions \in Nat
    BY <2>3 DEF States
  <2>6. next' # END => Going(s)
    BY <1>0, <2>2, <2>3, <2>4, <2>5, GoingRoutes DEF Going
  <2> QED BY <1>0, <1>11, <2>1, <2>2, <2>3, <2>4, <2>6
          DEF ClientInv, GoingInv, GateInv, CallsInv
<1>13. CASE ResumeAtPlanner
  <2>1. gate = "clear" /\ Resumed /\ Reinvoke("planner", planner_answer(st))
    BY <1>13 DEF ResumeAtPlanner, AtNodes, DocumentedClient
  <2> DEFINE s == planner_answer(st)
  <2>2. /\ s.verification = st.verification /\ s.delivery = st.delivery
        /\ s.stuck_decision = st.stuck_decision
        /\ s.review.decision = "none"
        /\ s.dev.tail = st.dev.tail /\ s.dev.torn = st.dev.torn
        /\ KeepsCounters(st, s, {"user_directives"})
    BY <1>0, AnswersKeep, AnswersTell, NodesCount
  <2> HIDE DEF s
  <2>3. st' = s /\ gate' = "clear"
    BY <2>1 DEF Reinvoke, s
  <2>4. Going(s)
    BY <1>11, <2>1, <2>2 DEF Going, Resumable, KeepsCounters
  <2> QED BY <1>0, <1>11, <2>1, <2>2, <2>3, <2>4
          DEF ClientInv, GoingInv, GateInv, CallsInv, Going
<1>14. CASE ResumeToolCall
  BY <1>0, <1>14 DEF ResumeToolCall, Resumed, ClientInv, GoingInv, GateInv, CallsInv
<1>15. CASE UNCHANGED vars
  BY <1>0, <1>15 DEF vars, ClientInv, GoingInv, GateInv, CallsInv
<1> QED
  BY <1>2, <1>3, <1>4, <1>5, <1>6, <1>7, <1>8, <1>9, <1>10, <1>12, <1>13, <1>14, <1>15
     DEF Next, Node, Resume

LEMMA InitClient == Init => ClientInv
<1> SUFFICES ASSUME Init PROVE ClientInv
  OBVIOUS
<1>1. PICK r \in RevisionBudgets, i \in IterationBudgets, o \in BOOLEAN :
        st = initial_state(r, i, o)
  BY DEF Init, TaskRequests
<1>2. st.dev.tail = "empty" /\ ~st.dev.torn /\ Going(st)
  BY <1>1 DEF initial_state, Going, Resumable, NoReview
<1> QED BY <1>2, InitType DEF Init, ClientInv, GoingInv, GateInv, CallsInv, Going

(***************************************************************************)
(* A documented client never tears the developer's transcript: an approval *)
(* that is pending is answered before anything else is written, so every   *)
(* tool call is answered before the next message (graph.py's tool loop and *)
(* service.resume).  A client that answers a pending approval at another   *)
(* node does tear it, which is what ApprovalIsAnswered is about.           *)
(***************************************************************************)
THEOREM TranscriptsStayWhole == DocumentedClient => (Spec => []ToolCallsAnswered)
<1> SUFFICES ASSUME DocumentedClient PROVE Spec => []ToolCallsAnswered
  OBVIOUS
<1>1. Init => ClientInv
  BY InitClient
<1>2. ClientInv /\ [Next]_vars => ClientInv'
  BY NextClient
<1>3. ClientInv => ToolCallsAnswered
  BY DEF ClientInv, CallsInv, ToolCallsAnswered
<1> QED BY <1>1, <1>2, <1>3, PTL DEF Spec

-----------------------------------------------------------------------------
(***************************************************************************)
(* Where a run ends.                                                       *)
(***************************************************************************)

\* The models answer with a text where they are asked for one.
NoBlankText == Answers.text \subseteq {"text"}

\* The client answers at the reviewer, or at what halted the task.
SensibleClient == Client \in {"documented", "http"}

\* A question of the planner's gate comes with its plan.
GatePlanInv == spec.preset = "planner_gate" /\ st.open_questions => st.plan = "text"

Concludes(p) == "delivery" \in PresetNodes(p)

\* A graph with a delivery node ends with a verdict or a question.
EndInv == next = END /\ Concludes(spec.preset) => StatusOf(st, FALSE) # "running"

\* An invocation that has returned came to the end or to an approval.
ReturnInv == outcome = "returned" => ~live /\ (next = END \/ gate # "clear")

SettledInv == TypeInv /\ GatePlanInv /\ EndInv /\ ReturnInv

\* Where a preset with a delivery node ends.
LEMMA EndRoutes ==
  ASSUME NEW p \in PresetNames, NEW n \in GraphNodes(p), NEW s \in States, Concludes(p),
         After(p, n, s) = END
  PROVE  \/ /\ n = "planner" /\ p = "planner_gate"
            /\ s.open_questions \/ s.review.decision = "need_user_decision" \/ s.plan # "text"
         \/ /\ n = "reviewer"
            /\ s.review.decision # "approved"
            /\ s.review.decision = "revision_required" => s.revision_round > s.max_revisions
         \/ /\ n = "verify"
            /\ s.verification.result = "failed" /\ s.verify_round >= s.max_iterations
         \/ /\ n = "supervisor" /\ s.stuck_decision \notin {"continue", "replan"}
         \/ n = "delivery"
<1>0. /\ {"planner", "developer", "reviewer", "delivery"} \subseteq PresetNodes(p)
      /\ \A x \in Roles : x # END
      /\ n \in {"planner", "developer", "tools", "verify", "supervisor", "reviewer", "delivery"}
  BY DEF Concludes, PresetNodes, Roles, END, GraphNodes
<1>1. CASE n = "planner"
  BY <1>0, <1>1 DEF After, Branch, planner_gate_router, Roles
<1>2. CASE n = "developer"
  BY <1>0, <1>2 DEF After, developer_route, DeveloperTarget, PresetNodes, Concludes, END
<1>3. CASE n = "tools"
  BY <1>3 DEF After, END
<1>4. CASE n = "reviewer"
  <2>1. Branch(p, review_router(s)) = END
    BY <1>4 DEF After
  <2>2. review_router(s) \notin {"delivery", "developer"}
    BY <1>0, <2>1 DEF Branch, Roles
  <2>3. s.revision_round \in Nat /\ s.max_revisions \in Nat
    BY DEF States
  <2> QED BY <1>4, <2>2, <2>3 DEF review_router
<1>5. CASE n = "verify"
  <2>1. Branch(p, goal_router(s)) = END
    BY <1>5 DEF After
  <2>2. PresetNodes(p) = Roles
    BY <1>5 DEF GraphNodes, PresetNodes, Roles
  <2>3. goal_router(s) \notin Roles
    BY <1>0, <2>1, <2>2 DEF Branch
  <2>4. s.verification.result \in {"none", "passed", "failed"}
    BY DEF States, Verifications
  <2> QED BY <1>5, <2>3, <2>4 DEF goal_router, Roles
<1>6. CASE n = "supervisor"
  BY <1>0, <1>6 DEF After, Branch, stuck_router, Roles, GraphNodes, PresetNodes
<1>7. CASE n = "delivery"
  BY <1>7
<1> QED BY <1>0, <1>1, <1>2, <1>3, <1>4, <1>5, <1>6, <1>7

LEMMA SettledStatus ==
  ASSUME NEW s, \/ s.delivery.text = "text"
                \/ s.review.decision = "need_user_decision"
                \/ Failed(s)
  PROVE  StatusOf(s, FALSE) # "running"
BY DEF StatusOf

\* A superstep whose state is settled where the graph ends keeps the invariant.
LEMMA SettledStep ==
  ASSUME SettledInv, TypeInv', NEW n, n # END, NEW s, Superstep(n, s),
         spec.preset = "planner_gate" /\ s.open_questions => s.plan = "text",
         Concludes(spec.preset) /\ After(spec.preset, n, s) = END
           => \/ s.delivery.text = "text"
              \/ s.review.decision = "need_user_decision"
              \/ Failed(s)
  PROVE  SettledInv'
<1>1. /\ live /\ live' /\ st' = s /\ spec' = spec /\ next' = After(spec.preset, n, s)
      /\ outcome' = outcome
  BY SuperstepFacts DEF SettledInv
<1>2. GatePlanInv'
  BY <1>1 DEF GatePlanInv
<1>3. EndInv'
  BY <1>1, SettledStatus DEF EndInv
<1>4. ReturnInv'
  BY <1>1 DEF SettledInv, ReturnInv
<1> QED BY <1>2, <1>3, <1>4 DEF SettledInv

LEMMA NextSettled == SensibleClient /\ NoBlankText /\ SettledInv /\ [Next]_vars => SettledInv'
<1> SUFFICES ASSUME SensibleClient, NoBlankText, SettledInv, [Next]_vars PROVE SettledInv'
  OBVIOUS
<1> USE AnswersType
<1>0. /\ TypeInv /\ TypeInv' /\ st \in States
      /\ spec.preset \in PresetNames
      /\ spec.preset = "planner_gate" /\ st.open_questions => st.plan = "text"
      /\ EndInv /\ ReturnInv
  BY NextType, RunAssumption DEF SettledInv, TypeInv, TypeOK, Specs, GatePlanInv
<1>a. \A n \in {"planner", "developer", "tools", "verify", "supervisor", "reviewer",
                "delivery"} : n # END
  BY DEF END
<1>1. ASSUME NEW n, n # END, NEW s, Superstep(n, s)
      PROVE  n \in GraphNodes(spec.preset) /\ s \in States
  BY <1>0, <1>1, SuperstepFacts DEF TypeInv, TypeOK
\* A node that is neither a planner nor a judge never ends a graph that concludes.
<1>2. ASSUME NEW n \in {"planner", "developer", "tools"}, NEW s, Superstep(n, s),
             n = "planner" => spec.preset # "planner_gate"
      PROVE  ~(Concludes(spec.preset) /\ After(spec.preset, n, s) = END)
  BY <1>0, <1>1, <1>a, <1>2, EndRoutes
<1>3. CASE Planner
  <2>1. PICK plan \in Answers.text, questions \in Answers.questions :
          Superstep("planner",
                    IF spec.preset = "planner_gate" THEN planner_gate(st, plan, questions)
                                                    ELSE planner(st, plan))
    BY <1>3 DEF Planner
  <2>2. CASE spec.preset = "planner_gate"
    <3> DEFINE s == planner_gate(st, plan, questions)
    <3>1. Superstep("planner", s)
      BY <2>1, <2>2
    <3>2. /\ s.open_questions = questions /\ s.plan = "text"
          /\ questions => s.review.decision = "need_user_decision"
      BY <1>0, GateKeeps DEF NoBlankText
    <3> HIDE DEF s
    <3>3. s \in States /\ "planner" \in GraphNodes(spec.preset)
      BY <1>1, <1>a, <3>1
    <3>4. Concludes(spec.preset) /\ After(spec.preset, "planner", s) = END
            => s.review.decision = "need_user_decision"
      BY <1>0, <3>2, <3>3, EndRoutes
    <3> QED BY <1>0, <1>a, <3>1, <3>2, <3>4, SettledStep
  <2>3. CASE spec.preset # "planner_gate"
    BY <1>0, <1>2, <1>a, <2>1, <2>3, SettledStep
  <2> QED BY <2>2, <2>3
<1>4. CASE Developer
  <2>1. PICK asks \in Answers.asks :
          Superstep("developer",
                    IF UsesTools(spec.preset) THEN developer_react(st, asks) ELSE developer(st))
    BY <1>4 DEF Developer
  <2> DEFINE s == IF UsesTools(spec.preset) THEN developer_react(st, asks) ELSE developer(st)
  <2>2. s.plan = st.plan /\ s.open_questions = st.open_questions
    BY <1>0, DeveloperKeeps
  <2> HIDE DEF s
  <2>3. Superstep("developer", s)
    BY <2>1 DEF s
  <2> QED BY <1>0, <1>2, <1>a, <2>2, <2>3, SettledStep
<1>5. CASE Tools
  <2>1. PICK verdict : Superstep("tools", tools(st, verdict))
    BY <1>5 DEF Tools
  <2>2. tools(st, verdict).plan = st.plan
        /\ tools(st, verdict).open_questions = st.open_questions
    BY <1>0, ToolsKeep
  <2> QED BY <1>0, <1>2, <1>a, <2>1, <2>2, SettledStep
<1>6. CASE Reviewer
  <2>1. PICK decision \in Answers.decision, escalate \in Answers.questions :
          Superstep("reviewer",
                    IF spec.preset = "two_call_review"
                    THEN reviewer_two_call(st, escalate, decision)
                    ELSE reviewer(st, decision))
    BY <1>6 DEF Reviewer
  <2> DEFINE s == IF spec.preset = "two_call_review"
                  THEN reviewer_two_call(st, escalate, decision)
                  ELSE reviewer(st, decision)
  <2>2. /\ s.review.decision \in Decisions \ {"none"}
        /\ spec.preset = "planner_gate" =>
             s.plan = st.plan /\ s.open_questions = st.open_questions
    <3>1. decision \in Decisions \ {"none"} /\ escalate \in BOOLEAN
      BY RunAssumption
    <3>2. CASE spec.preset = "two_call_review"
      BY <1>0, <3>1, <3>2, TwoCallKeeps DEF Decisions
    <3>3. CASE spec.preset # "two_call_review"
      BY <1>0, <3>1, <3>3, ReviewerKeeps
    <3> QED BY <3>2, <3>3
  <2> HIDE DEF s
  <2>3. Superstep("reviewer", s)
    BY <2>1 DEF s
  <2>4. s \in States /\ "reviewer" \in GraphNodes(spec.preset)
    BY <1>1, <1>a, <2>3
  <2>5. Concludes(spec.preset) /\ After(spec.preset, "reviewer", s) = END
          => s.review.decision = "need_user_decision" \/ Failed(s)
    BY <1>0, <2>2, <2>4, EndRoutes DEF Decisions, Failed
  <2> QED BY <1>0, <1>a, <2>2, <2>3, <2>5, SettledStep
<1>7. CASE Verify
  <2>1. PICK r \in {"passed", "failed"} : Superstep("verify", verifier(st, r))
    BY <1>7 DEF Verify
  <2>2. verifier(st, r).plan = st.plan /\ verifier(st, r).open_questions = st.open_questions
    BY <1>0, VerifierKeeps
  <2>3. Concludes(spec.preset) /\ After(spec.preset, "verify", verifier(st, r)) = END
          => Failed(verifier(st, r))
    BY <1>0, <1>1, <1>a, <2>1, EndRoutes DEF Failed
  <2> QED BY <1>0, <1>a, <2>1, <2>2, <2>3, SettledStep
<1>8. CASE Supervisor
  <2>1. PICK a \in Answers.action : Superstep("supervisor", supervisor(st, a))
    BY <1>8 DEF Supervisor
  <2> DEFINE s == supervisor(st, a)
  <2>2. /\ s.plan = st.plan /\ s.open_questions = st.open_questions
        /\ s.stuck_decision = a
        /\ a = "ask_user" => s.review.decision = "need_user_decision"
    BY <1>0, SupervisorKeeps
  <2> HIDE DEF s
  <2>3. Superstep("supervisor", s)
    BY <2>1 DEF s
  <2>4. Concludes(spec.preset) /\ After(spec.preset, "supervisor", s) = END
          => s.review.decision = "need_user_decision" \/ Failed(s)
    <3>1. s \in States /\ "supervisor" \in GraphNodes(spec.preset)
      BY <1>1, <1>a, <2>3
    <3>2. a \in StuckActions
      OBVIOUS
    <3> QED BY <1>0, <2>2, <3>1, <3>2, EndRoutes DEF StuckActions, Failed
  <2> QED BY <1>0, <1>a, <2>2, <2>3, <2>4, SettledStep
<1>9. CASE Delivery
  <2>1. PICK text \in Answers.text : Superstep("delivery", delivery(st, text))
    BY <1>9 DEF Delivery
  <2>2. /\ delivery(st, text).plan = st.plan
        /\ delivery(st, text).open_questions = st.open_questions
        /\ delivery(st, text).delivery.text = "text"
    BY <1>0, DeliveryKeeps DEF NoBlankText
  <2> QED BY <1>0, <1>a, <2>1, <2>2, SettledStep
<1>10. CASE ApprovalHalt \/ Return \/ RecursionError \/ Raise \/ ResumeToolCall \/ UNCHANGED vars
  <2>1. st' = st /\ next' = next /\ spec' = spec
    BY <1>10 DEF ApprovalHalt, Return, RecursionError, Raise, Ended, ResumeToolCall, Resumed, vars
  <2>2. ReturnInv'
    BY <1>0, <1>10
       DEF ApprovalHalt, Return, RecursionError, Raise, Ended, ResumeToolCall, Resumed, vars, ReturnInv
  <2> QED BY <1>0, <2>1, <2>2 DEF SettledInv, GatePlanInv, EndInv
<1>11. CASE ResumeAtReviewer
  <2> DEFINE s == reviewer_answer(st)
  <2>1. /\ st' = s /\ s \in States /\ "reviewer" \in GraphNodes(spec.preset) /\ spec' = spec
        /\ next' = After(spec.preset, "reviewer", s) /\ outcome' = "none"
    BY <1>0, <1>11 DEF ResumeAtReviewer, Resumed, Reinvoke, GraphNodes, TypeInv, TypeOK
  <2>2. /\ s.plan = st.plan /\ s.open_questions = st.open_questions
        /\ s.review.decision = "revision_required"
    BY <1>0, AnswersKeep
  <2> HIDE DEF s
  <2>3. Concludes(spec.preset) /\ next' = END => Failed(s)
    BY <1>0, <2>1, <2>2, EndRoutes DEF Failed
  <2> QED BY <1>0, <2>1, <2>2, <2>3, SettledStatus DEF SettledInv, GatePlanInv, EndInv, ReturnInv
<1>12. CASE ResumeAtPlanner
  <2> DEFINE s == planner_answer(st)
  <2>1. /\ st' = s /\ s \in States /\ "planner" \in GraphNodes(spec.preset) /\ spec' = spec
        /\ next' = After(spec.preset, "planner", s) /\ outcome' = "none"
    BY <1>0, <1>12 DEF ResumeAtPlanner, Resumed, Reinvoke, GraphNodes, TypeInv, TypeOK
  <2>2. spec.preset = "planner_gate" /\ st.open_questions
    BY <1>12 DEF ResumeAtPlanner, AtNodes, SensibleClient
  <2>3. s.plan = "text" /\ s.open_questions = FALSE /\ s.review.decision = "none"
    BY <1>0, <2>2, AnswersKeep
  <2> HIDE DEF s
  <2>4. ~(Concludes(spec.preset) /\ next' = END)
    BY <1>0, <2>1, <2>3, EndRoutes
  <2> QED BY <1>0, <2>1, <2>3, <2>4 DEF SettledInv, GatePlanInv, EndInv, ReturnInv
<1> QED
  BY <1>3, <1>4, <1>5, <1>6, <1>7, <1>8, <1>9, <1>10, <1>11, <1>12 DEF Next, Node, Resume

LEMMA InitSettled == Init => SettledInv
<1> SUFFICES ASSUME Init PROVE SettledInv
  OBVIOUS
<1>1. ~st.open_questions
  BY DEF Init, initial_state
<1>2. next # END
  BY DEF Init, PresetEntry, END
<1> QED BY <1>1, <1>2, InitType DEF Init, SettledInv, GatePlanInv, EndInv, ReturnInv

(***************************************************************************)
(* A run of a preset with a delivery node that returns is completed or     *)
(* failed or waits for its user: every way out of the graph is one that    *)
(* _materialize_status has a name for.  It needs models that answer with a *)
(* text, and a client that does not answer a planner that asked nothing:   *)
(* without either, a run can end under the status "running".               *)
(***************************************************************************)
THEOREM ReturnsAreSettled ==
  SensibleClient /\ NoBlankText => (Spec => []ReturnedRunIsSettled)
<1> SUFFICES ASSUME SensibleClient, NoBlankText PROVE Spec => []ReturnedRunIsSettled
  OBVIOUS
<1>1. Init => SettledInv
  BY InitSettled
<1>2. SettledInv /\ [Next]_vars => SettledInv'
  BY NextSettled
<1>3. SettledInv => ReturnedRunIsSettled
  BY DEF SettledInv, ReturnInv, EndInv, Concludes, ReturnedRunIsSettled, Status, StatusOf
<1> QED BY <1>1, <1>2, <1>3, PTL DEF Spec

-----------------------------------------------------------------------------
(***************************************************************************)
(* Refinement: every step of a run is a step of TaskLifecycle.             *)
(***************************************************************************)

LifecycleNext == Lifecycle!Conclude \/ Lifecycle!BreakOff \/ Lifecycle!Answer

\* A superstep goes on, concludes or breaks off; the tool node's ends the wait for
\* an approval.
LEMMA LifecycleStep ==
  ASSUME ClientInv, ClientInv', NEW n, n # END, NEW s, Superstep(n, s)
  PROVE  LifecycleNext \/ UNCHANGED Lifecycle!lifecycle
<1>1. /\ live /\ live' /\ next = n /\ next # END /\ gate' = "clear"
      /\ spec.preset \in PresetNames /\ next' = After(spec.preset, n, s)
      /\ gate \in {"clear", "halted", "answered"}
  BY SuperstepFacts DEF ClientInv, TypeInv, TypeOK
<1>2. gate \in {"clear", "answered"} /\ (gate = "answered" => n = "tools")
  BY <1>1 DEF ClientInv, GateInv
<1>3. gate = "clear" => Status = "running" /\ Working
  BY <1>1, GoingStatus DEF ClientInv, GoingInv, Status, Working
<1>4. gate = "answered" => Status = "awaiting_user" /\ ~Working
  BY DEF Status, StatusOf, Working
<1>5. next' # END => Status' = "running" /\ Working'
  BY <1>1, GoingStatus DEF ClientInv, GoingInv, Status, Working
<1>6. next' = END => ~Working'
  BY DEF Working
<1>7. Working \in BOOLEAN /\ Working' \in BOOLEAN
  BY DEF Working
<1>8. Status' \in {"running", "awaiting_user", "completed", "failed"}
  BY DEF Status, StatusOf
<1>9. CASE gate = "answered"
  <2>1. next' # END
    BY <1>1, <1>2, <1>9 DEF After, END
  <2>2. Lifecycle!Answer
    BY <1>4, <1>5, <1>9, <2>1, <1>7 DEF Lifecycle!Answer
  <2> QED BY <2>2 DEF LifecycleNext
<1>10. CASE gate = "clear" /\ next' # END
  BY <1>3, <1>5, <1>7, <1>10 DEF Lifecycle!lifecycle
<1>11. CASE gate = "clear" /\ next' = END
  BY <1>3, <1>6, <1>7, <1>8, <1>11
     DEF LifecycleNext, Lifecycle!Conclude, Lifecycle!BreakOff, Lifecycle!Verdicts
<1> QED BY <1>2, <1>9, <1>10, <1>11

\* An answer to a question puts the task back to work, or finds its budget spent.
LEMMA LifecycleAnswer ==
  ASSUME DocumentedClient, ClientInv, Resumed, gate = "clear", gate' = "clear",
         next' = END => StatusOf(st', FALSE) = "failed",
         next' # END => Going(st')
  PROVE  LifecycleNext
<1>1. Status = "awaiting_user" /\ ~Working /\ live'
  BY DEF Resumed, DocumentedClient, Working
<1>2. next' = END => Status' = "failed" /\ ~Working'
  BY DEF Status, Working
<1>3. next' # END => Status' = "running" /\ Working'
  BY <1>1, GoingStatus DEF Status, Working
<1>4. Working \in BOOLEAN /\ Working' \in BOOLEAN
  BY DEF Working
<1>5. Lifecycle!Answer
  BY <1>1, <1>2, <1>3, <1>4 DEF Lifecycle!Answer
<1> QED BY <1>5 DEF LifecycleNext

LEMMA NextLifecycle ==
  DocumentedClient /\ ClientInv /\ ClientInv' /\ SettledInv /\ [Next]_vars
    => [LifecycleNext]_(Lifecycle!lifecycle)
<1> SUFFICES ASSUME DocumentedClient, ClientInv, ClientInv', SettledInv, [Next]_vars
             PROVE  LifecycleNext \/ UNCHANGED Lifecycle!lifecycle
  OBVIOUS
<1>0. /\ st \in States /\ spec.preset \in PresetNames
      /\ next # END => Going(st)
      /\ st.review.decision = "need_user_decision" => Resumable(st)
  BY RunAssumption DEF ClientInv, GoingInv, TypeInv, TypeOK, Specs
<1>1. CASE Planner \/ Developer \/ Tools \/ Reviewer \/ Verify \/ Supervisor \/ Delivery
  <2>1. PICK n, s : /\ n \in {"planner", "developer", "tools", "reviewer", "verify",
                               "supervisor", "delivery"}
                    /\ Superstep(n, s)
    BY <1>1 DEF Planner, Developer, Tools, Reviewer, Verify, Supervisor, Delivery
  <2>2. n # END
    BY <2>1 DEF END
  <2> QED BY <2>1, <2>2, LifecycleStep
<1>2. CASE ApprovalHalt
  <2>1. live /\ next # END /\ gate = "clear" /\ ~live' /\ gate' = "halted"
    BY <1>2 DEF ApprovalHalt, END
  <2>2. Status = "running" /\ Working = TRUE
    BY <1>0, <2>1, GoingStatus DEF Status, Working
  <2>3. Status' = "awaiting_user" /\ Working' = FALSE
    BY <2>1 DEF Status, StatusOf, Working
  <2> QED BY <2>2, <2>3 DEF LifecycleNext, Lifecycle!Conclude
<1>3. CASE Return \/ RecursionError \/ Raise
  <2>1. live /\ ~live' /\ UNCHANGED <<st, next, gate>>
    BY <1>3 DEF Return, RecursionError, Raise, Ended
  <2>2. Status' = Status /\ Working' = FALSE
    BY <2>1 DEF Status, Working
  <2>3. CASE Working
    <3>1. next # END /\ gate # "answered" /\ gate # "halted"
      BY <2>1, <2>3 DEF Working, ClientInv, GateInv
    <3>2. gate = "clear"
      BY <3>1 DEF ClientInv, TypeInv, TypeOK
    <3>3. Status = "running" /\ Working = TRUE
      BY <1>0, <2>1, <3>1, <3>2, GoingStatus DEF Status, Working
    <3> QED BY <2>2, <3>3 DEF LifecycleNext, Lifecycle!BreakOff
  <2>4. CASE ~Working
    <3>1. Working = FALSE
      BY <2>4 DEF Working
    <3> QED BY <2>2, <3>1 DEF Lifecycle!lifecycle
  <2> QED BY <2>3, <2>4
<1>4. ASSUME Resumed, gate = "clear"
      PROVE  Resumable(st)
  <2>1. StatusOf(st, FALSE) = "awaiting_user"
    BY <1>4 DEF Resumed, Status, DocumentedClient
  <2> QED BY <1>0, <2>1 DEF StatusOf
<1>5. CASE ResumeAtReviewer
  <2>1. gate = "clear" /\ Resumed /\ Reinvoke("reviewer", reviewer_answer(st))
    BY <1>5 DEF ResumeAtReviewer, AtNodes, DocumentedClient
  <2> DEFINE s == reviewer_answer(st)
  <2>2. /\ s.verification = st.verification /\ s.delivery = st.delivery
        /\ s.stuck_decision = st.stuck_decision
        /\ s.review.decision = "revision_required"
        /\ KeepsCounters(st, s, {"user_directives"})
    BY <1>0, AnswersKeep, NodesCount
  <2> HIDE DEF s
  <2>3. /\ st' = s /\ next' = After(spec.preset, "reviewer", s) /\ gate' = "clear"
        /\ st' \in States
    BY <2>1 DEF Reinvoke, s, ClientInv, TypeInv, TypeOK
  <2>4. next' # END => Going(st')
    BY DEF ClientInv, GoingInv
  <2>5. ASSUME next' = END PROVE StatusOf(st', FALSE) = "failed"
    <3>1. Resumable(s)
      BY <1>4, <2>1, <2>2 DEF Resumable, KeepsCounters
    <3>2. "developer" \in PresetNodes(spec.preset) /\ "developer" # END
      BY DEF PresetNodes, Roles, END
    <3>3. review_router(s) # "developer"
      BY <2>3, <2>5, <3>2 DEF After, Branch
    <3>4. s.revision_round > s.max_revisions
      BY <2>2, <2>3, <3>3 DEF review_router, States
    <3> QED BY <2>2, <2>3, <3>1, <3>4 DEF StatusOf, Failed, Resumable
  <2> QED BY <2>1, <2>3, <2>4, <2>5, LifecycleAnswer
<1>6. CASE ResumeAtPlanner
  <2>1. /\ gate = "clear" /\ Resumed /\ Reinvoke("planner", planner_answer(st))
        /\ spec.preset = "planner_gate" /\ st.open_questions
    BY <1>6 DEF ResumeAtPlanner, AtNodes, DocumentedClient
  <2>2. /\ st' = planner_answer(st) /\ next' = After(spec.preset, "planner", st') /\ gate' = "clear"
        /\ "planner" \in GraphNodes(spec.preset) /\ st' \in States
    BY <2>1 DEF Reinvoke, GraphNodes, ClientInv, TypeInv, TypeOK
  <2>3. st.plan = "text"
    BY <2>1 DEF SettledInv, GatePlanInv
  <2>4. st'.plan = "text" /\ st'.open_questions = FALSE /\ st'.review.decision = "none"
    BY <1>0, <2>2, <2>3, AnswersKeep
  <2>5. Concludes(spec.preset)
    BY <2>1 DEF Concludes, PresetNodes
  <2>6. next' # END
    BY <1>0, <2>2, <2>4, <2>5, EndRoutes
  <2>7. Going(st')
    BY <2>6 DEF ClientInv, GoingInv
  <2> QED BY <2>1, <2>2, <2>6, <2>7, LifecycleAnswer
<1>7. CASE ResumeToolCall
  <2>1. gate # "clear" /\ gate' = "answered" /\ ~live
    BY <1>7 DEF ResumeToolCall, Resumed
  <2>2. Status = "awaiting_user" /\ Status' = "awaiting_user"
    BY <2>1 DEF Status, StatusOf
  <2>3. Working = FALSE /\ Working' = FALSE
    BY <2>1 DEF Working
  <2> QED BY <2>2, <2>3 DEF Lifecycle!lifecycle
<1>8. CASE UNCHANGED vars
  BY <1>8 DEF vars, Lifecycle!lifecycle, Status, Working
<1> QED BY <1>1, <1>2, <1>3, <1>5, <1>6, <1>7, <1>8 DEF Next, Node, Resume

(***************************************************************************)
(* To a client that polls status() and answers what it is asked, a run is  *)
(* a TaskLifecycle: a verdict is final, a run that has given one or asked  *)
(* a question stops working, and a parked task moves only by an answer.    *)
(* Whatever interleaves: approvals, re-plans, exceptions, lost processes.  *)
(***************************************************************************)
THEOREM RunIsALifecycle ==
  DocumentedClient /\ NoBlankText => (Spec => ImplementsLifecycle)
<1> SUFFICES ASSUME DocumentedClient, NoBlankText PROVE Spec => ImplementsLifecycle
  OBVIOUS
<1>0. SensibleClient
  BY DEF DocumentedClient, SensibleClient
<1>1. Init => ClientInv /\ SettledInv
  BY InitClient, InitSettled
<1>2. ClientInv /\ [Next]_vars => ClientInv'
  BY NextClient
<1>3. SettledInv /\ [Next]_vars => SettledInv'
  BY <1>0, NextSettled
<1>4. Init => Lifecycle!Init
  <2> SUFFICES ASSUME Init PROVE Status = "running" /\ Working = TRUE
    BY DEF Lifecycle!Init
  <2>1. gate = "clear" /\ live /\ next # END
    BY DEF Init, PresetEntry, END
  <2>2. Going(st)
    BY <1>1, <2>1 DEF ClientInv, GoingInv
  <2> QED BY <2>1, <2>2, GoingStatus DEF Status, Working
<1>5. ClientInv /\ ClientInv' /\ SettledInv /\ [Next]_vars
        => [LifecycleNext]_(Lifecycle!lifecycle)
  BY NextLifecycle
<1> QED BY <1>1, <1>2, <1>3, <1>4, <1>5, PTL
        DEF Spec, ImplementsLifecycle, Lifecycle!Spec, LifecycleNext
=============================================================================
