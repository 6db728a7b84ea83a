----------------------------- MODULE Evaluation -----------------------------
(***************************************************************************)
(* The evaluation harness (agent_room/eval, evals/run.py): one run per     *)
(* variant and task, in a sandbox of its own, judged by the task's oracle. *)
(* A tool call is a thread of the executor: cancelling the run that made   *)
(* it does not end it.                                                     *)
(***************************************************************************)
EXTENDS Integers, Sequences, FiniteSets

CONSTANTS
  NVariants,   \* variants of the suite
  Suite,       \* its tasks: coding or behavioural, with or without a follow-up
  MaxWorkers   \* threads of the executor

TaskSpecs == [coding : BOOLEAN, follow_up : BOOLEAN, should_escalate : BOOLEAN]

\* Filters that leave no variant or no task (evals/run.py:147-150) are left out: no pair
\* is run then, and an empty summary is written.
ASSUME EvaluationAssumption ==
  /\ NVariants \in Nat \ {0}
  /\ Suite \in Seq(TaskSpecs) /\ Len(Suite) > 0
  /\ MaxWorkers \in Nat \ {0}

Cells == (1..NVariants) \X (1..Len(Suite))
NoCell == <<0, 0>>
Tools == {"write_text", "shell"}
Qualities == {"none", "seeded", "overfit", "fixed"}
Phases == {"bind", "setup", "build", "run", "resume", "verify", "test", "teardown", "unwind",
           "report", "done", "raised"}

VARIABLES
  pc,         \* where run_matrix and run_pair are
  at,         \* the variant and the task of the current pair
  sandbox,    \* a task's _sandbox, named by the pair that made it
  disk,       \* sandbox directories that exist
  hidden,     \* those that hold the hidden tests
  code,       \* how good the code in a sandbox is, or last was
  threads,    \* tool calls under way
  exposed,    \* sandboxes where a tool call met the hidden tests
  local,      \* run_pair: escalated, completed_after_followup, error, verdict
  records,    \* RunRecords so far
  summary     \* what evals/run.py wrote

vars == <<pc, at, sandbox, disk, hidden, code, threads, exposed, local, records, summary>>

\* "parked" is read by properties alone: the run halted for its user.
Fresh == [escalated |-> FALSE, parked |-> FALSE, followup |-> "none", error |-> FALSE,
          passed |-> FALSE]

Locals == [escalated : BOOLEAN, parked : BOOLEAN, followup : {"none", "completed", "other"},
           error : BOOLEAN, passed : BOOLEAN]

task == Suite[at[2]]
here == sandbox[at[2]]
Workspace == <<sandbox, disk, hidden, code>>

Init ==
  /\ pc = "bind" /\ at = <<1, 1>>
  /\ sandbox = [t \in 1..Len(Suite) |-> NoCell]
  /\ disk = {} /\ hidden = {} /\ code = [c \in Cells |-> "none"]
  /\ threads = {} /\ exposed = {}
  /\ local = Fresh /\ records = << >> /\ summary = << >>

-----------------------------------------------------------------------------
(***************************************************************************)
(* run_matrix and run_pair, from the bindings of a variant to its graph.   *)
(***************************************************************************)

Bind ==
  /\ pc = "bind"
  /\ pc' \in {"setup", "raised"}
  /\ UNCHANGED <<at, Workspace, threads, exposed, local, records, summary>>

\* The hidden tests are seeded with the visible ones.
Setup_all_tests ==
  /\ pc = "setup" /\ task.coding
  /\ pc' = "build"
  /\ disk' = disk \cup {at} /\ hidden' = hidden \cup {at}
  /\ code' = [code EXCEPT ![at] = "seeded"]
  /\ sandbox' = [sandbox EXCEPT ![at[2]] = at]
  /\ UNCHANGED <<at, threads, exposed, local, records, summary>>

\* mkdtemp, the seed files, and only then the attribute teardown reads.
Setup ==
  /\ pc = "setup"
  /\ IF task.coding
     THEN \/ /\ pc' = "build"
             /\ disk' = disk \cup {at}
             /\ code' = [code EXCEPT ![at] = "seeded"]
             /\ sandbox' = [sandbox EXCEPT ![at[2]] = at]
          \/ /\ pc' = "raised"
             /\ disk' \in {disk, disk \cup {at}}
             /\ UNCHANGED <<code, sandbox>>
     ELSE pc' = "build" /\ UNCHANGED <<disk, code, sandbox>>
  /\ UNCHANGED <<at, hidden, threads, exposed, local, records, summary>>

Build ==
  /\ pc = "build"
  /\ pc' \in {"run", "unwind"}
  /\ UNCHANGED <<at, Workspace, threads, exposed, local, records, summary>>

-----------------------------------------------------------------------------
(***************************************************************************)
(* The run, its resume, and the tool calls of its developer.               *)
(***************************************************************************)

ToolStarts(tool) ==
  /\ pc \in {"run", "resume"}
  /\ task.coding /\ Cardinality(threads) < MaxWorkers
  /\ threads' = threads \cup {<<here, tool>>}
  /\ UNCHANGED <<pc, at, Workspace, exposed, local, records, summary>>

\* A write may create the directories above its file; a command runs what is there.
ToolEnds(c, tool) ==
  /\ <<c, tool>> \in threads
  /\ threads' = threads \ {<<c, tool>>}
  /\ \/ UNCHANGED <<disk, code>>
     \/ /\ tool = "write_text"
        /\ disk' = disk \cup {c}
        /\ \E quality \in {"overfit", "fixed"} : code' = [code EXCEPT ![c] = quality]
  /\ exposed' = IF c \in hidden THEN exposed \cup {c} ELSE exposed
  /\ UNCHANGED <<pc, at, sandbox, hidden, local, records, summary>>

\* A graph that returns has awaited its tool calls.
AllCallsAwaited == \A tool \in Tools : <<here, tool>> \notin threads

RunReturns ==
  /\ pc = "run"
  /\ AllCallsAwaited
  /\ \E escalated \in BOOLEAN :
       /\ local' = [local EXCEPT !.escalated = escalated, !.parked = escalated]
       /\ pc' = IF escalated /\ task.follow_up THEN "resume" ELSE "verify"
  /\ UNCHANGED <<at, Workspace, threads, exposed, records, summary>>

\* Whether the run escalated is asked of the resume's result too.
ResumeReturns_recomputed ==
  /\ pc = "resume"
  /\ AllCallsAwaited
  /\ \E escalated \in BOOLEAN, followup \in {"completed", "other"} :
       local' = [local EXCEPT !.escalated = escalated, !.followup = followup]
  /\ pc' = "verify"
  /\ UNCHANGED <<at, Workspace, threads, exposed, records, summary>>

ResumeReturns ==
  /\ pc = "resume"
  /\ AllCallsAwaited
  /\ \E followup \in {"completed", "other"} : local' = [local EXCEPT !.followup = followup]
  /\ pc' = "verify"
  /\ UNCHANGED <<at, Workspace, threads, exposed, records, summary>>

\* wait_for ran out, or the service raised: the snapshot tells what it came to.
RunFails ==
  /\ pc \in {"run", "resume"}
  /\ \/ /\ \E escalated \in BOOLEAN :
             local' = [local EXCEPT !.escalated = escalated, !.error = TRUE,
                                    !.parked = IF pc = "run" THEN escalated ELSE @]
        /\ pc' = "verify"
     \/ pc' = "unwind" /\ UNCHANGED local
  /\ UNCHANGED <<at, Workspace, threads, exposed, records, summary>>

-----------------------------------------------------------------------------
(***************************************************************************)
(* The oracles, the end of a pair, the report.                             *)
(***************************************************************************)

\* The code is tried on the tests it was seeded with and on the hidden ones.
SuitePasses(c) == code[c] = "fixed" \/ (code[c] = "overfit" /\ c \notin hidden)

\* The suite is run without the hidden tests.
Verify_visible ==
  /\ pc = "verify" /\ task.coding
  /\ pc' = "test"
  /\ UNCHANGED <<at, Workspace, threads, exposed, local, records, summary>>

\* A behavioural task scores whether the run parked iff it should.
BehaviourPasses == local.escalated = task.should_escalate

Verify ==
  /\ pc = "verify"
  /\ \/ /\ task.coding
        /\ pc' = "test" /\ hidden' = hidden \cup {here}
        /\ UNCHANGED local
     \/ /\ ~task.coding
        /\ pc' = "teardown"
        /\ local' = [local EXCEPT !.passed = BehaviourPasses]
        /\ UNCHANGED hidden
     \/ pc' = "unwind" /\ UNCHANGED <<hidden, local>>
  /\ UNCHANGED <<at, sandbox, disk, code, threads, exposed, records, summary>>

\* The suite runs to its end or is killed; then the graph is closed.
TestEnds ==
  /\ pc = "test"
  /\ \E intime \in BOOLEAN : local' = [local EXCEPT !.passed = intime /\ SuitePasses(here)]
  /\ pc' \in {"teardown", "unwind"}
  /\ UNCHANGED <<at, Workspace, threads, exposed, records, summary>>

\* The attribute is cleared before it is read.
Removed_cleared_first ==
  /\ sandbox' = [sandbox EXCEPT ![at[2]] = NoCell]
  /\ UNCHANGED <<disk, hidden, code>>

\* rmtree(ignore_errors=True): a call still writing can make it leave files behind.
Removed ==
  /\ sandbox' = [sandbox EXCEPT ![at[2]] = NoCell]
  /\ \/ disk' = disk \ {here} /\ hidden' = hidden \ {here}
     \/ ~AllCallsAwaited /\ UNCHANGED <<disk, hidden>>
  /\ UNCHANGED code

Last == <<NVariants + 1, 1>>

\* One task too many.
After_off_by_one(cell) ==
  IF cell[2] <= Len(Suite) THEN <<cell[1], cell[2] + 1>> ELSE <<cell[1] + 1, 1>>

After(cell) == IF cell[2] < Len(Suite) THEN <<cell[1], cell[2] + 1>> ELSE <<cell[1] + 1, 1>>

\* A variant's bindings serve all its tasks.
Teardown ==
  /\ pc = "teardown"
  /\ Removed
  /\ records' = Append(records, [cell |-> at, of |-> local])
  /\ at' = After(at) /\ local' = Fresh
  /\ pc' = IF at' = Last THEN "report" ELSE IF at'[2] = 1 THEN "bind" ELSE "setup"
  /\ UNCHANGED <<threads, exposed, summary>>

Unwind ==
  /\ pc = "unwind"
  /\ Removed
  /\ pc' = "raised"
  /\ UNCHANGED <<at, threads, exposed, local, records, summary>>

Report ==
  /\ pc = "report"
  /\ summary' = records
  /\ pc' = "done"
  /\ UNCHANGED <<at, Workspace, threads, exposed, local, records>>

Next ==
  \/ Bind \/ Setup \/ Build \/ RunReturns \/ ResumeReturns \/ RunFails
  \/ Verify \/ TestEnds \/ Teardown \/ Unwind \/ Report
  \/ \E tool \in Tools : ToolStarts(tool) \/ \E c \in Cells : ToolEnds(c, tool)

Spec == Init /\ [][Next]_vars

-----------------------------------------------------------------------------
(***************************************************************************)
(* Properties.                                                             *)
(***************************************************************************)

Entries == [cell : Cells, of : Locals]

\* The types of the variables.
TypeOK ==
  /\ pc \in Phases
  /\ at \in Cells \cup {Last} /\ (at = Last => pc \in {"report", "done"})
  /\ sandbox \in [1..Len(Suite) -> Cells \cup {NoCell}]
  /\ disk \subseteq Cells /\ hidden \subseteq Cells /\ exposed \subseteq Cells
  /\ code \in [Cells -> Qualities]
  /\ threads \subseteq Cells \X Tools
  /\ local \in Locals
  /\ records \in Seq(Entries) /\ summary \in Seq(Entries)

\* A pair that ended without an error leaves no sandbox on disk, however the calls
\* of other pairs that timed out go on (runner.py:168, coding.py:77).
SandboxesAreRemoved == \A r \in 1..Len(records) :
  records[r].cell \in disk => records[r].of.error

\* A coding record that passed without an error was earned by the pair's own code:
\* its sandbox holds code that passes what the developer could not see
\* (coding.py:105).
PassedIsEarned == \A r \in 1..Len(records) :
  LET cell == records[r].cell  of == records[r].of IN
  Suite[cell[2]].coding /\ of.passed /\ ~of.error => code[cell] = "fixed"

\* A record without an error says "escalated" exactly when the run halted for its
\* user, whatever the follow-up came to; only such a run has a follow-up
\* (runner.py:141-148).
EscalationsAreTrue == \A r \in 1..Len(records) :
  LET of == records[r].of IN
  /\ ~of.error => (of.escalated = of.parked)
  /\ of.followup # "none" =>
       of.parked /\ ~of.error

\* No tool call of a pair that ended without an error met the hidden tests
\* (coding.py:47).
HiddenTestsUnseen == \A r \in 1..Len(records) :
  records[r].cell \in exposed => records[r].of.error

InOrder(s) ==
  /\ s[1].cell = <<1, 1>>
  /\ \A i \in 1..(Len(s) - 1) : s[i + 1].cell = After(s[i].cell)

\* What is written has one record per pair, variant by variant and task by task
\* (runner.py:209-221, evals/run.py:164).
SummaryIsWhole ==
  /\ pc = "done" => Len(summary) > 0
  /\ Len(summary) > 0 => InOrder(summary) /\ After(summary[Len(summary)].cell) = Last

=============================================================================
