------------------------------ MODULE Routing ------------------------------
(***************************************************************************)
(* The graphs of agent_room/presets/*.yaml as agent_room/graph.py wires     *)
(* them, and the edge routers of agent_room/routers.py.                     *)
(*                                                                         *)
(* A router is a pure function of the task state.  It returns a signal;    *)
(* the branches of the preset send the signal to a node or to the end.     *)
(* Node names are role names, as in every shipped preset; "tools" is the   *)
(* developer_tools node that graph.py adds beside a tool-using developer.  *)
(***************************************************************************)
EXTENDS Integers

END == "__end__"

PresetNames ==
  {"full", "full_react", "goal", "planner_gate", "two_call_review", "dev_review", "solo"}

Roles == {"planner", "developer", "reviewer", "delivery", "verify", "supervisor"}

\* The nodes of a preset, without the tool node.
PresetNodes(p) ==
  CASE p = "solo" -> {"developer"}
    [] p = "dev_review" -> {"developer", "reviewer"}
    [] p = "goal" -> Roles
    [] OTHER -> {"planner", "developer", "reviewer", "delivery"}

PresetEntry(p) == IF "planner" \in PresetNodes(p) THEN "planner" ELSE "developer"

\* _is_react_node: the developer of these presets lists tools.
UsesTools(p) == p \in {"full_react", "goal"}

GraphNodes(p) == PresetNodes(p) \cup (IF UsesTools(p) THEN {"tools"} ELSE {})

-----------------------------------------------------------------------------
(***************************************************************************)
(* The routers.                                                            *)
(***************************************************************************)

\* The revision budget is not read at all.
review_router_unbounded(s) ==
  IF s.review.decision = "approved" THEN "delivery"
  ELSE IF s.review.decision = "revision_required" THEN "developer"
       ELSE "halt"

review_router(s) ==
  IF s.review.decision = "approved" THEN "delivery"
  ELSE IF s.review.decision = "revision_required" /\ s.revision_round <= s.max_revisions
       THEN "developer"
       ELSE "halt"

STUCK_EVERY == 3

goal_router(s) ==
  IF s.verification.result = "none" THEN "reviewer"
  ELSE IF s.verification.result = "passed" THEN "delivery"
  ELSE IF s.verify_round >= s.max_iterations THEN "halt"
  ELSE IF s.verify_round > 0 /\ s.verify_round % STUCK_EVERY = 0 THEN "supervisor"
  ELSE "developer"

stuck_router(s) ==
  CASE s.stuck_decision = "continue" -> "developer"
    [] s.stuck_decision = "replan" -> "planner"
    [] OTHER -> "halt"

planner_gate_router(s) ==
  IF s.open_questions \/ s.review.decision = "need_user_decision" \/ s.plan # "text"
  THEN "halt"
  ELSE "developer"

-----------------------------------------------------------------------------
(***************************************************************************)
(* The edges.  A branch's "halt", and "delivery" in a preset that has no   *)
(* delivery node, lead to the end; any other signal names its node.        *)
(***************************************************************************)

\* The signal itself, as if every signal were a node.
Branch_unmapped(p, signal) == signal

Branch(p, signal) == IF signal \in PresetNodes(p) THEN signal ELSE END

DeveloperTarget(p) ==
  CASE p = "solo" -> END
    [] p = "goal" -> "verify"
    [] OTHER -> "reviewer"

\* tools_condition on dev_messages: hop to the tool node while the newest
\* message asks for tools, else take the preset's edge.
developer_route(p, s) ==
  IF s.dev.tail = "calls" THEN "tools" ELSE DeveloperTarget(p)

\* The node that runs after node n wrote its update, s being the state with
\* that update applied; also where an update written as_node = n leads.
After(p, n, s) ==
  CASE n = "planner" ->
         IF p = "planner_gate" THEN Branch(p, planner_gate_router(s)) ELSE "developer"
    [] n = "developer" -> developer_route(p, s)
    [] n = "tools" -> "developer"
    [] n = "verify" -> Branch(p, goal_router(s))
    [] n = "supervisor" -> Branch(p, stuck_router(s))
    [] n = "reviewer" -> Branch(p, review_router(s))
    [] OTHER -> END
=============================================================================
