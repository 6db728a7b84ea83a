-------------------------- MODULE EvaluationProofs --------------------------
(***************************************************************************)
(* Proofs about Evaluation, for every suite, number of variants and size   *)
(* of the executor.                                                        *)
(***************************************************************************)
EXTENDS Evaluation, TLAPS

\* A pair has its fixture between setup and teardown.
Equipped == pc \in {"build", "run", "resume", "verify", "test", "teardown", "unwind"}

\* A task's _sandbox is the current pair's, and only while it is under way.
SandboxInv == \A t \in 1..Len(Suite) :
  sandbox[t] = IF Equipped /\ t = at[2] /\ task.coding THEN at ELSE NoCell

TypeInv == TypeOK /\ SandboxInv

LEMMA CellParts ==
  ASSUME NEW c \in Cells
  PROVE  c[1] \in 1..NVariants /\ c[2] \in 1..Len(Suite) /\ c = <<c[1], c[2]>>
BY DEF Cells

LEMMA SuiteTyped == NVariants \in Nat \ {0} /\ Len(Suite) \in Nat \ {0} /\ Suite \in Seq(TaskSpecs)
BY EvaluationAssumption

\* Every phase but the last two is about a pair of the matrix.
LEMMA AtWork ==
  ASSUME TypeOK, pc \notin {"report", "done"}
  PROVE  at \in Cells /\ at[2] \in 1..Len(Suite) /\ task \in TaskSpecs
<1>1. at \in Cells BY DEF TypeOK
<1>2. at[2] \in 1..Len(Suite) BY <1>1, CellParts
<1> QED BY <1>1, <1>2, SuiteTyped DEF task

LEMMA HereIs ==
  ASSUME TypeInv, Equipped
  PROVE  here = IF task.coding THEN at ELSE NoCell
<1>1. at[2] \in 1..Len(Suite) BY AtWork DEF TypeInv, Equipped
<1> QED BY <1>1 DEF TypeInv, SandboxInv, here

LEMMA AfterTyped ==
  ASSUME NEW c \in Cells
  PROVE  After(c) \in Cells \cup {Last}
<1>1. c[1] \in 1..NVariants /\ c[2] \in 1..Len(Suite) BY CellParts
<1>2. CASE c[2] < Len(Suite) BY <1>1, <1>2, SuiteTyped DEF After, Cells
<1>3. CASE c[2] = Len(Suite) /\ c[1] < NVariants BY <1>1, <1>3, SuiteTyped DEF After, Cells
<1>4. CASE c[2] = Len(Suite) /\ c[1] = NVariants BY <1>1, <1>4, SuiteTyped DEF After, Last
<1> QED BY <1>1, <1>2, <1>3, <1>4, SuiteTyped

LEMMA RemovedTyped ==
  ASSUME TypeInv, Equipped, Removed
  PROVE  /\ disk' \subseteq disk /\ hidden' \subseteq hidden /\ code' = code
         /\ sandbox' = [t \in 1..Len(Suite) |-> NoCell]
<1>1. at[2] \in 1..Len(Suite) BY AtWork DEF TypeInv, Equipped
<1>2. sandbox \in [1..Len(Suite) -> Cells \cup {NoCell}] BY DEF TypeInv, TypeOK
<1>3. sandbox' = [sandbox EXCEPT ![at[2]] = NoCell] BY DEF Removed
<1>4. \A t \in 1..Len(Suite) : sandbox'[t] = NoCell
  BY <1>1, <1>2, <1>3 DEF TypeInv, SandboxInv
<1>5. sandbox' = [t \in 1..Len(Suite) |-> sandbox'[t]] BY <1>2, <1>3
<1>6. sandbox' = [t \in 1..Len(Suite) |-> NoCell] BY <1>4, <1>5
<1>7. disk' \subseteq disk /\ hidden' \subseteq hidden /\ code' = code BY DEF Removed
<1> QED BY <1>6, <1>7

\* A task's sandbox is its pair's, and the types hold.
LEMMA TypeHolds == Spec => []TypeInv
<1>1. Init => TypeInv
  <2> SUFFICES ASSUME Init PROVE TypeInv OBVIOUS
  <2>1. at \in Cells BY SuiteTyped DEF Init, Cells
  <2>2. Fresh \in Locals BY DEF Fresh, Locals
  <2>3. at # Last BY SuiteTyped DEF Init, Last
  <2>4. TypeOK BY <2>1, <2>2, <2>3 DEF Init, TypeOK, Phases, Qualities
  <2>5. SandboxInv BY DEF Init, SandboxInv, Equipped
  <2> QED BY <2>4, <2>5 DEF TypeInv
<1>2. TypeInv /\ [Next]_vars => TypeInv'
  <2> SUFFICES ASSUME TypeInv, [Next]_vars PROVE TypeInv' OBVIOUS
  <2> USE DEF Workspace
  <2>1. CASE Bind
    <3>1. TypeOK' BY <2>1 DEF Bind, TypeInv, TypeOK, Phases
    <3>2. SandboxInv' BY <2>1 DEF Bind, TypeInv, SandboxInv, Equipped, task
    <3> QED BY <3>1, <3>2 DEF TypeInv
  <2>2. CASE Setup
    <3>1. at \in Cells /\ at[2] \in 1..Len(Suite) /\ task \in TaskSpecs
      BY <2>2, AtWork DEF Setup, TypeInv
    <3>2. sandbox \in [1..Len(Suite) -> Cells \cup {NoCell}] BY DEF TypeInv, TypeOK
    <3>3. TypeOK'
      BY <2>2, <3>1 DEF Setup, TypeInv, TypeOK, Phases, Qualities
    <3>4. SandboxInv'
      BY <2>2, <3>1, <3>2 DEF Setup, TypeInv, SandboxInv, Equipped, task
    <3> QED BY <3>3, <3>4 DEF TypeInv
  <2>3. CASE Build
    <3>1. TypeOK' BY <2>3 DEF Build, TypeInv, TypeOK, Phases
    <3>2. SandboxInv' BY <2>3 DEF Build, TypeInv, SandboxInv, Equipped, task
    <3> QED BY <3>1, <3>2 DEF TypeInv
  <2>4. CASE RunReturns
    <3>1. TypeOK' BY <2>4 DEF RunReturns, TypeInv, TypeOK, Phases, Locals
    <3>2. SandboxInv' BY <2>4 DEF RunReturns, TypeInv, SandboxInv, Equipped, task
    <3> QED BY <3>1, <3>2 DEF TypeInv
  <2>5. CASE ResumeReturns
    <3>1. TypeOK' BY <2>5 DEF ResumeReturns, TypeInv, TypeOK, Phases, Locals
    <3>2. SandboxInv' BY <2>5 DEF ResumeReturns, TypeInv, SandboxInv, Equipped, task
    <3> QED BY <3>1, <3>2 DEF TypeInv
  <2>6. CASE RunFails
    <3>1. TypeOK'
      <4>1. local' \in Locals BY <2>6 DEF RunFails, TypeInv, TypeOK, Locals
      <4> QED BY <2>6, <4>1 DEF RunFails, TypeInv, TypeOK, Phases
    <3>2. SandboxInv' BY <2>6 DEF RunFails, TypeInv, SandboxInv, Equipped, task
    <3> QED BY <3>1, <3>2 DEF TypeInv
  <2>7. CASE Verify
    <3>1. at \in Cells /\ task \in TaskSpecs BY <2>7, AtWork DEF Verify, TypeInv
    <3>2. here = IF task.coding THEN at ELSE NoCell BY <2>7, HereIs DEF Verify, Equipped
    <3>3. hidden' \subseteq Cells BY <2>7, <3>1, <3>2 DEF Verify, TypeInv, TypeOK
    <3>4. local' \in Locals
      <4>1. BehaviourPasses \in BOOLEAN BY DEF BehaviourPasses
      <4> QED BY <2>7, <4>1 DEF Verify, TypeInv, TypeOK, Locals
    <3>5. TypeOK' BY <2>7, <3>3, <3>4 DEF Verify, TypeInv, TypeOK, Phases
    <3>6. SandboxInv' BY <2>7 DEF Verify, TypeInv, SandboxInv, Equipped, task
    <3> QED BY <3>5, <3>6 DEF TypeInv
  <2>8. CASE TestEnds
    <3>1. local' \in Locals BY <2>8 DEF TestEnds, TypeInv, TypeOK, Locals, SuitePasses
    <3>2. TypeOK' BY <2>8, <3>1 DEF TestEnds, TypeInv, TypeOK, Phases
    <3>3. SandboxInv' BY <2>8 DEF TestEnds, TypeInv, SandboxInv, Equipped, task
    <3> QED BY <3>2, <3>3 DEF TypeInv
  <2>9. CASE Teardown
    <3>1. at \in Cells BY <2>9, AtWork DEF Teardown, TypeInv
    <3>2. /\ disk' \subseteq disk /\ hidden' \subseteq hidden /\ code' = code
          /\ sandbox' = [t \in 1..Len(Suite) |-> NoCell]
      BY <2>9, RemovedTyped DEF Teardown, Equipped
    <3>3. at' \in Cells \cup {Last} BY <2>9, <3>1, AfterTyped DEF Teardown
    <3>4. Fresh \in Locals BY DEF Fresh, Locals
    <3>5. records' \in Seq(Entries) BY <2>9, <3>1 DEF Teardown, TypeInv, TypeOK, Entries
    <3>6. TypeOK'
      BY <2>9, <3>2, <3>3, <3>4, <3>5 DEF Teardown, TypeInv, TypeOK, Phases
    <3>7. SandboxInv' BY <2>9, <3>2 DEF Teardown, SandboxInv, Equipped
    <3> QED BY <3>6, <3>7 DEF TypeInv
  <2>10. CASE Unwind
    <3>1. /\ disk' \subseteq disk /\ hidden' \subseteq hidden /\ code' = code
          /\ sandbox' = [t \in 1..Len(Suite) |-> NoCell]
      BY <2>10, RemovedTyped DEF Unwind, Equipped
    <3>2. TypeOK' BY <2>10, <3>1 DEF Unwind, TypeInv, TypeOK, Phases
    <3>3. SandboxInv' BY <2>10, <3>1 DEF Unwind, SandboxInv, Equipped
    <3> QED BY <3>2, <3>3 DEF TypeInv
  <2>11. CASE Report
    <3>1. TypeOK' BY <2>11 DEF Report, TypeInv, TypeOK, Phases
    <3>2. SandboxInv' BY <2>11 DEF Report, TypeInv, SandboxInv, Equipped, task
    <3> QED BY <3>1, <3>2 DEF TypeInv
  <2>12. ASSUME NEW tool \in Tools, ToolStarts(tool) PROVE TypeInv'
    <3>1. at \in Cells BY <2>12, AtWork DEF ToolStarts, TypeInv
    <3>2. here = at BY <2>12, HereIs DEF ToolStarts, Equipped
    <3>3. TypeOK' BY <2>12, <3>1, <3>2 DEF ToolStarts, TypeInv, TypeOK
    <3>4. SandboxInv' BY <2>12 DEF ToolStarts, TypeInv, SandboxInv, Equipped, task
    <3> QED BY <3>3, <3>4 DEF TypeInv
  <2>13. ASSUME NEW tool \in Tools, NEW c \in Cells, ToolEnds(c, tool) PROVE TypeInv'
    <3>1. TypeOK' BY <2>13 DEF ToolEnds, TypeInv, TypeOK, Qualities
    <3>2. SandboxInv' BY <2>13 DEF ToolEnds, TypeInv, SandboxInv, Equipped, task
    <3> QED BY <3>1, <3>2 DEF TypeInv
  <2>14. CASE UNCHANGED vars BY <2>14 DEF vars, TypeInv, TypeOK, SandboxInv, Equipped, task
  <2> QED
    BY <2>1, <2>2, <2>3, <2>4, <2>5, <2>6, <2>7, <2>8, <2>9, <2>10, <2>11, <2>12, <2>13, <2>14
    DEF Next
<1> QED BY <1>1, <1>2, PTL DEF Spec

\* Every variable keeps its type.
THEOREM TypeCorrect == Spec => []TypeOK
<1>1. TypeInv => TypeOK BY DEF TypeInv
<1> QED BY <1>1, TypeHolds, PTL

-----------------------------------------------------------------------------
(***************************************************************************)
(* Order: the pairs recorded are those before the current one.             *)
(***************************************************************************)

Before(c, d) == c[1] < d[1] \/ (c[1] = d[1] /\ c[2] < d[2])

OrderInv ==
  /\ pc \in {"report", "done"} <=> at = Last
  /\ \A r \in 1..Len(records) : Before(records[r].cell, at)
  /\ Len(records) = 0 => at = <<1, 1>>
  /\ Len(records) > 0 => InOrder(records) /\ After(records[Len(records)].cell) = at
  /\ IF pc = "done" THEN summary = records ELSE summary = << >>

LEMMA AfterIsLater ==
  ASSUME NEW c \in Cells
  PROVE  /\ Before(c, After(c)) /\ ~Before(c, c)
         /\ \A d \in Cells : Before(d, c) => Before(d, After(c))
         /\ \A d \in Cells : d = c \/ Before(d, c) => d # After(c)
<1>1. c[1] \in 1..NVariants /\ c[2] \in 1..Len(Suite) BY CellParts
<1>2. \A d \in Cells : d[1] \in 1..NVariants /\ d[2] \in 1..Len(Suite) BY CellParts
<1>3. NVariants \in Nat /\ Len(Suite) \in Nat BY SuiteTyped
<1>4. /\ c[2] < Len(Suite) => After(c)[1] = c[1] /\ After(c)[2] = c[2] + 1
      /\ ~(c[2] < Len(Suite)) => After(c)[1] = c[1] + 1 /\ After(c)[2] = 1
  BY DEF After
<1>5. Before(c, After(c)) /\ ~Before(c, c) BY <1>1, <1>3, <1>4 DEF Before
<1>6. ASSUME NEW d \in Cells, Before(d, c) PROVE Before(d, After(c))
  <2>1. d[1] \in Int /\ d[2] \in 1..Len(Suite) BY <1>2
  <2> QED BY <1>1, <1>3, <1>4, <1>6, <2>1 DEF Before
<1>7. ASSUME NEW d \in Cells, d = c \/ Before(d, c) PROVE d # After(c)
  <2>1. Before(d, After(c)) BY <1>5, <1>6, <1>7
  <2>2. d[1] \in Int /\ d[2] \in Int BY <1>2
  <2> QED BY <2>1, <2>2 DEF Before
<1> QED BY <1>5, <1>6, <1>7

LEMMA AppendEntry ==
  ASSUME NEW s \in Seq(Entries), NEW e \in Entries
  PROVE  /\ Append(s, e) \in Seq(Entries) /\ Len(Append(s, e)) = Len(s) + 1
         /\ Append(s, e)[Len(s) + 1] = e
         /\ \A r \in 1..Len(s) : Append(s, e)[r] = s[r] /\ s[r] \in Entries
OBVIOUS

LEMMA OrderHolds == Spec => []OrderInv
<1>1. Init => OrderInv
  <2> SUFFICES ASSUME Init PROVE OrderInv OBVIOUS
  <2>1. at # Last BY SuiteTyped DEF Init, Last
  <2> QED BY <2>1 DEF Init, OrderInv
<1>2. TypeInv /\ TypeInv' /\ OrderInv /\ [Next]_vars => OrderInv'
  <2> SUFFICES ASSUME TypeInv, TypeInv', OrderInv, [Next]_vars PROVE OrderInv' OBVIOUS
  <2>1. CASE Teardown
    <3>1. at \in Cells BY <2>1, AtWork DEF Teardown, TypeInv
    <3> DEFINE e == [cell |-> at, of |-> local]
               n == Len(records)
    <3>2. e \in Entries /\ records \in Seq(Entries)
      BY <3>1 DEF TypeInv, TypeOK, Entries
    <3>3. records' = Append(records, e) /\ at' = After(at) BY <2>1 DEF Teardown
    <3>4. e.cell = at OBVIOUS
    <3> HIDE DEF e
    <3>5. /\ n \in Nat /\ Len(records') = n + 1 /\ records'[n + 1] = e
          /\ \A r \in 1..n : records'[r] = records[r] /\ records[r].cell \in Cells
      <4>1. \A r \in 1..n : records[r] \in Entries BY <3>2
      <4> QED BY <3>2, <3>3, <4>1, AppendEntry DEF Entries
    <3>6. \A r \in 1..Len(records') : Before(records'[r].cell, at')
      BY <3>1, <3>3, <3>4, <3>5, AfterIsLater DEF OrderInv
    <3>7. InOrder(records')
      <4>1. CASE n = 0 BY <3>4, <3>5, <4>1 DEF InOrder, OrderInv
      <4>2. CASE n > 0
        <5>1. InOrder(records) /\ After(records[n].cell) = at BY <4>2 DEF OrderInv
        <5>2. records'[1].cell = <<1, 1>> BY <3>5, <4>2, <5>1 DEF InOrder
        <5>3. ASSUME NEW i \in 1..n PROVE records'[i + 1].cell = After(records'[i].cell)
          <6>1. CASE i = n BY <3>4, <3>5, <5>1, <6>1
          <6>2. CASE i < n BY <3>5, <5>1, <6>2 DEF InOrder
          <6> QED BY <3>5, <6>1, <6>2
        <5> QED BY <3>5, <5>2, <5>3 DEF InOrder
      <4> QED BY <3>5, <4>1, <4>2
    <3>8. pc' \in {"report", "done"} <=> at' = Last BY <2>1 DEF Teardown
    <3>9. summary' = << >> /\ pc' # "done" BY <2>1 DEF Teardown, OrderInv
    <3> QED BY <3>3, <3>4, <3>5, <3>6, <3>7, <3>8, <3>9 DEF OrderInv
  <2>2. CASE Report BY <2>2 DEF Report, OrderInv
  <2>3. CASE Bind BY <2>3 DEF Bind, OrderInv
  <2>4. CASE Setup BY <2>4 DEF Setup, OrderInv
  <2>5. CASE Build BY <2>5 DEF Build, OrderInv
  <2>6. CASE RunReturns BY <2>6 DEF RunReturns, OrderInv
  <2>7. CASE ResumeReturns BY <2>7 DEF ResumeReturns, OrderInv
  <2>8. CASE RunFails BY <2>8 DEF RunFails, OrderInv
  <2>9. CASE Verify BY <2>9 DEF Verify, OrderInv
  <2>10. CASE TestEnds BY <2>10 DEF TestEnds, OrderInv
  <2>11. CASE Unwind BY <2>11 DEF Unwind, OrderInv
  <2>12. ASSUME NEW tool \in Tools, ToolStarts(tool) PROVE OrderInv'
    BY <2>12 DEF ToolStarts, OrderInv
  <2>13. ASSUME NEW tool \in Tools, NEW c \in Cells, ToolEnds(c, tool) PROVE OrderInv'
    BY <2>13 DEF ToolEnds, OrderInv
  <2>14. CASE UNCHANGED vars BY <2>14 DEF vars, OrderInv
  <2> QED
    BY <2>1, <2>2, <2>3, <2>4, <2>5, <2>6, <2>7, <2>8, <2>9, <2>10, <2>11, <2>12, <2>13, <2>14
    DEF Next
<1> QED BY <1>1, <1>2, TypeHolds, PTL DEF Spec

\* The report has one record per pair, in the order of the loops, or is not written.
THEOREM ReportIsWhole == Spec => []SummaryIsWhole
<1>1. TypeInv /\ OrderInv => SummaryIsWhole
  <2> SUFFICES ASSUME TypeInv, OrderInv PROVE SummaryIsWhole OBVIOUS
  <2>1. records \in Seq(Entries) BY DEF TypeInv, TypeOK
  <2>2. Len(records) \in Nat BY <2>1
  <2>3. Last # <<1, 1>> BY SuiteTyped DEF Last
  <2> QED BY <2>2, <2>3 DEF OrderInv, SummaryIsWhole
<1> QED BY <1>1, TypeHolds, OrderHolds, PTL

-----------------------------------------------------------------------------
(***************************************************************************)
(* Locals: what run_pair knows at each of its lines.                       *)
(***************************************************************************)

LocalInv ==
  /\ pc \in {"bind", "setup", "build", "run"} => local = Fresh
  /\ pc = "resume" =>
       local.parked /\ local.escalated /\ ~local.error /\ local.followup = "none"
  /\ pc \in {"verify", "test", "teardown"} =>
       /\ ~local.error => (local.escalated = local.parked)
       /\ local.followup # "none" => local.parked /\ ~local.error

LEMMA LocalHolds == Spec => [](LocalInv /\ EscalationsAreTrue)
<1>1. Init => LocalInv /\ EscalationsAreTrue BY DEF Init, LocalInv, EscalationsAreTrue
<1>2. TypeInv /\ TypeInv' /\ LocalInv /\ EscalationsAreTrue /\ [Next]_vars
        => (LocalInv /\ EscalationsAreTrue)'
  <2> SUFFICES ASSUME TypeInv, TypeInv', LocalInv, EscalationsAreTrue, [Next]_vars
               PROVE  LocalInv' /\ EscalationsAreTrue'
    OBVIOUS
  <2>0. local \in Locals /\ local' \in Locals BY DEF TypeInv, TypeOK
  <2>1. ASSUME UNCHANGED records PROVE EscalationsAreTrue' BY <2>1 DEF EscalationsAreTrue
  <2>2. CASE Bind BY <2>1, <2>2 DEF Bind, LocalInv
  <2>3. CASE Setup
    <3>1. UNCHANGED <<local, records>> /\ pc = "setup" /\ pc' \in {"build", "raised"}
      BY <2>3 DEF Setup
    <3> QED BY <2>1, <3>1 DEF LocalInv
  <2>4. CASE Build BY <2>1, <2>4 DEF Build, LocalInv
  <2>5. CASE RunReturns
    <3>1. PICK e \in BOOLEAN :
            local' = [local EXCEPT !.escalated = e, !.parked = e]
            /\ pc' = IF e /\ task.follow_up THEN "resume" ELSE "verify"
      BY <2>5 DEF RunReturns
    <3>2. local = Fresh /\ UNCHANGED records BY <2>5 DEF RunReturns, LocalInv
    <3>3. local' = [Fresh EXCEPT !.escalated = e, !.parked = e] BY <3>1, <3>2
    <3>4. local'.escalated = e /\ local'.parked = e /\ ~local'.error /\ local'.followup = "none"
      BY <3>3 DEF Fresh
    <3>5. LocalInv' BY <3>1, <3>4 DEF LocalInv
    <3> QED BY <2>1, <3>2, <3>5
  <2>6. CASE ResumeReturns
    <3>1. /\ local'.escalated = local.escalated /\ local'.parked = local.parked
          /\ local'.error = local.error /\ pc = "resume" /\ pc' = "verify" /\ UNCHANGED records
      BY <2>0, <2>6 DEF ResumeReturns, Locals
    <3>2. LocalInv' BY <3>1 DEF LocalInv
    <3> QED BY <2>1, <3>1, <3>2
  <2>7. CASE RunFails
    <3>1. local.followup = "none"
      <4>1. Fresh.followup = "none" BY DEF Fresh
      <4> QED BY <2>7, <4>1 DEF RunFails, LocalInv
    <3>2. CASE pc' = "verify"
      <4>1. local'.error /\ local'.followup = "none"
        BY <2>0, <2>7, <3>1, <3>2 DEF RunFails, Locals
      <4> QED BY <2>1, <2>7, <3>2, <4>1 DEF RunFails, LocalInv
    <3>3. CASE pc' = "unwind" BY <2>1, <2>7, <3>3 DEF RunFails, LocalInv
    <3> QED BY <2>7, <3>2, <3>3 DEF RunFails
  <2>8. CASE Verify
    <3>1. /\ local'.escalated = local.escalated /\ local'.parked = local.parked
          /\ local'.error = local.error /\ local'.followup = local.followup
          /\ pc = "verify" /\ pc' \in {"test", "teardown", "unwind"} /\ UNCHANGED records
      BY <2>0, <2>8 DEF Verify, Locals
    <3>2. LocalInv' BY <3>1 DEF LocalInv
    <3> QED BY <2>1, <3>1, <3>2
  <2>9. CASE TestEnds
    <3>1. /\ local'.escalated = local.escalated /\ local'.parked = local.parked
          /\ local'.error = local.error /\ local'.followup = local.followup
          /\ pc = "test" /\ pc' \in {"teardown", "unwind"} /\ UNCHANGED records
      BY <2>0, <2>9 DEF TestEnds, Locals
    <3>2. LocalInv' BY <3>1 DEF LocalInv
    <3> QED BY <2>1, <3>1, <3>2
  <2>10. CASE Teardown
    <3>1. at \in Cells BY <2>10, AtWork DEF Teardown, TypeInv
    <3> DEFINE e == [cell |-> at, of |-> local]
    <3>2. e \in Entries /\ records \in Seq(Entries) BY <3>1 DEF TypeInv, TypeOK, Entries
    <3>3. records' = Append(records, e) BY <2>10 DEF Teardown
    <3>4. e.of = local OBVIOUS
    <3> HIDE DEF e
    <3>5. ASSUME NEW k \in 1..Len(records')
          PROVE  (k \in 1..Len(records) /\ records'[k] = records[k]) \/ records'[k].of = local
      BY <3>2, <3>3, <3>4, AppendEntry
    <3>6. EscalationsAreTrue'
      BY <2>10, <3>5 DEF EscalationsAreTrue, LocalInv, Teardown
    <3>7. LocalInv' BY <2>10 DEF Teardown, LocalInv
    <3> QED BY <3>6, <3>7
  <2>11. CASE Unwind BY <2>1, <2>11 DEF Unwind, LocalInv
  <2>12. CASE Report BY <2>1, <2>12 DEF Report, LocalInv
  <2>13. ASSUME NEW tool \in Tools, ToolStarts(tool) PROVE LocalInv' /\ EscalationsAreTrue'
    BY <2>1, <2>13 DEF ToolStarts, LocalInv
  <2>14. ASSUME NEW tool \in Tools, NEW c \in Cells, ToolEnds(c, tool)
         PROVE  LocalInv' /\ EscalationsAreTrue'
    BY <2>1, <2>14 DEF ToolEnds, LocalInv
  <2>15. CASE UNCHANGED vars BY <2>1, <2>15 DEF vars, LocalInv
  <2> QED
    BY <2>2, <2>3, <2>4, <2>5, <2>6, <2>7, <2>8, <2>9, <2>10, <2>11, <2>12, <2>13, <2>14, <2>15
    DEF Next
<1> QED BY <1>1, <1>2, TypeHolds, PTL DEF Spec

\* Whatever a follow-up comes to, an errorless record tells whether the run parked.
THEOREM RecordsTellOfParking == Spec => []EscalationsAreTrue
BY LocalHolds, PTL

-----------------------------------------------------------------------------
(***************************************************************************)
(* Custody: whose sandbox, calls and hidden tests are still about.         *)
(***************************************************************************)

\* The current pair can have calls that nobody waits for.
Doomed == local.error \/ pc \in {"unwind", "raised"}

\* A coding pair of the past, recorded with an error if at all, or the current one.
Known(c) ==
  /\ Suite[c[2]].coding
  /\ c = at \/ Before(c, at)
  /\ \A r \in 1..Len(records) : records[r].cell = c => records[r].of.error

CustodyInv ==
  /\ \A c \in disk : Known(c) /\ (c = at => pc \notin {"bind", "setup"})
  /\ \A c \in hidden : Known(c) /\ (c = at => pc \in {"test", "teardown", "unwind", "raised"})
  /\ \A c \in exposed : Known(c) /\ (c = at => Doomed)
  /\ \A c \in Cells, tool \in Tools : <<c, tool>> \in threads =>
       Known(c) /\ (c = at => Doomed \/ pc \in {"run", "resume"})

\* Nobody knows of a pair before its turn.
LEMMA CurrentIsKnown ==
  ASSUME TypeInv, OrderInv, at \in Cells, task.coding
  PROVE  Known(at)
<1>1. \A r \in 1..Len(records) : records[r].cell # at BY AfterIsLater DEF OrderInv
<1> QED BY <1>1 DEF Known, task

LEMMA KnownKept ==
  ASSUME UNCHANGED <<at, records>>, NEW c, Known(c)
  PROVE  Known(c)'
BY DEF Known

\* A pair's turn passes: what is left of it is left by its error.
LEMMA KnownPast ==
  ASSUME TypeInv, OrderInv, at \in Cells, at' = After(at),
         records' = Append(records, [cell |-> at, of |-> local]),
         NEW c \in Cells, Known(c), c = at => local.error
  PROVE  Known(c)' /\ c # at'
<1> DEFINE e == [cell |-> at, of |-> local]
<1>1. e \in Entries /\ records \in Seq(Entries) BY DEF TypeInv, TypeOK, Entries
<1>2. records' = Append(records, e) /\ e.cell = at /\ e.of = local OBVIOUS
<1> HIDE DEF e
<1>3. ASSUME NEW k \in 1..Len(records')
      PROVE  \/ k \in 1..Len(records) /\ records'[k] = records[k]
             \/ records'[k].cell = at /\ records'[k].of = local
  BY <1>1, <1>2, AppendEntry
<1>4. \A k \in 1..Len(records') : records'[k].cell = c => records'[k].of.error
  BY <1>3 DEF Known
<1>5. Before(c, at') /\ c # at' BY AfterIsLater DEF Known
<1> QED BY <1>4, <1>5 DEF Known

\* Teardown leaves a sandbox only to a call that nobody waits for.
LEMMA RemovedLeaves ==
  ASSUME TypeInv, CustodyInv, pc \in {"teardown", "unwind"}, Removed, at \in Cells,
         at \in disk' \cup hidden'
  PROVE  Doomed
<1>1. task.coding
  <2>1. at \in disk \cup hidden BY DEF Removed
  <2> QED BY <2>1 DEF CustodyInv, Known, task
<1>2. here = at BY <1>1, HereIs DEF Equipped
<1>3. ~AllCallsAwaited BY <1>2 DEF Removed
<1>4. PICK tool \in Tools : <<at, tool>> \in threads BY <1>2, <1>3 DEF AllCallsAwaited
<1> QED BY <1>4 DEF CustodyInv

LEMMA CustodyHolds == Spec => []CustodyInv
<1>1. Init => CustodyInv BY DEF Init, CustodyInv
<1>2. TypeInv /\ OrderInv /\ LocalInv /\ CustodyInv /\ [Next]_vars => CustodyInv'
  <2> SUFFICES ASSUME TypeInv, OrderInv, LocalInv, CustodyInv, [Next]_vars
               PROVE  CustodyInv'
    OBVIOUS
  <2> USE DEF Workspace
  <2>0. /\ disk \subseteq Cells /\ hidden \subseteq Cells /\ exposed \subseteq Cells
        /\ local \in Locals
    BY DEF TypeInv, TypeOK
  <2>1. ~Fresh.error BY DEF Fresh
  \* Steps that only move on.
  <2>2. ASSUME UNCHANGED <<at, Workspace, threads, exposed, records>>,
               Doomed => Doomed',
               pc' \notin {"bind", "setup"},
               pc \in {"run", "resume"} => Doomed' \/ pc' \in {"run", "resume"}
                 \/ \A tool \in Tools : <<at, tool>> \notin threads,
               pc \in {"test", "teardown", "unwind", "raised"} =>
                 pc' \in {"test", "teardown", "unwind", "raised"}
        PROVE  CustodyInv'
    <3>1. ASSUME NEW c, Known(c) PROVE Known(c)' BY <2>2, <3>1, KnownKept
    <3> QED BY <2>2, <3>1 DEF CustodyInv
  <2>3. CASE Bind
    <3>1. local = Fresh /\ pc = "bind" BY <2>3 DEF Bind, LocalInv
    <3>2. ~Doomed BY <2>1, <3>1 DEF Doomed
    <3>3. ASSUME NEW c, Known(c) PROVE Known(c)' BY <2>3, <3>3, KnownKept DEF Bind
    <3>4. \A c \in disk : c # at BY <3>1 DEF CustodyInv
    <3>5. \A c \in hidden \cup exposed : c # at BY <3>1, <3>2 DEF CustodyInv
    <3>6. \A c \in Cells, tool \in Tools : <<c, tool>> \in threads => c # at
      BY <3>1, <3>2 DEF CustodyInv
    <3> QED BY <2>3, <3>3, <3>4, <3>5, <3>6 DEF Bind, CustodyInv
  <2>4. CASE Setup
    <3>1. local = Fresh /\ pc = "setup" /\ at \in Cells
      BY <2>4, AtWork DEF Setup, LocalInv, TypeInv
    <3>2. ~Doomed BY <2>1, <3>1 DEF Doomed
    <3>3. ASSUME NEW c, Known(c) PROVE Known(c)' BY <2>4, <3>3, KnownKept DEF Setup
    <3>4. \A c \in hidden \cup exposed : c # at BY <3>1, <3>2 DEF CustodyInv
    <3>5. \A c \in Cells, tool \in Tools : <<c, tool>> \in threads => c # at
      BY <3>1, <3>2 DEF CustodyInv
    <3>6. pc' \in {"build", "raised"} /\ disk' \subseteq disk \cup {at}
          /\ (at \in disk' => task.coding)
      BY <2>4, <3>1 DEF Setup, CustodyInv
    <3>7. \A c \in disk' : Known(c)' BY <3>1, <3>3, <3>6, CurrentIsKnown DEF CustodyInv
    <3> QED BY <2>4, <3>3, <3>4, <3>5, <3>6, <3>7 DEF Setup, CustodyInv
  <2>5. CASE Build
    <3>1. local = Fresh BY <2>5 DEF Build, LocalInv
    <3> QED BY <2>1, <2>2, <2>5, <3>1 DEF Build, Doomed
  <2>6. CASE RunReturns
    <3>1. local = Fresh BY <2>6 DEF RunReturns, LocalInv
    <3>2. \A tool \in Tools : at \in Cells /\ <<at, tool>> \notin threads
      <4>1. at \in Cells BY <2>6, AtWork DEF RunReturns, TypeInv
      <4>2. here = IF task.coding THEN at ELSE NoCell BY <2>6, HereIs DEF RunReturns, Equipped
      <4>3. CASE task.coding BY <2>6, <4>1, <4>2, <4>3 DEF RunReturns, AllCallsAwaited
      <4>4. CASE ~task.coding BY <4>1, <4>4 DEF CustodyInv, Known, task
      <4> QED BY <4>3, <4>4
    <3>3. pc = "run" /\ pc' \in {"resume", "verify"} BY <2>6 DEF RunReturns
    <3> QED BY <2>1, <2>2, <2>6, <3>1, <3>2, <3>3 DEF RunReturns, Doomed
  <2>7. CASE ResumeReturns
    <3>1. \A tool \in Tools : at \in Cells /\ <<at, tool>> \notin threads
      <4>1. at \in Cells BY <2>7, AtWork DEF ResumeReturns, TypeInv
      <4>2. here = IF task.coding THEN at ELSE NoCell BY <2>7, HereIs DEF ResumeReturns, Equipped
      <4>3. CASE task.coding BY <2>7, <4>1, <4>2, <4>3 DEF ResumeReturns, AllCallsAwaited
      <4>4. CASE ~task.coding BY <4>1, <4>4 DEF CustodyInv, Known, task
      <4> QED BY <4>3, <4>4
    <3>2. pc = "resume" /\ pc' = "verify" /\ ~local.error BY <2>7 DEF ResumeReturns, LocalInv
    <3> QED BY <2>2, <2>7, <3>1, <3>2 DEF ResumeReturns, Doomed
  <2>8. CASE RunFails
    <3>1. Doomed' BY <2>0, <2>8 DEF RunFails, Doomed, Locals
    <3> QED BY <2>2, <2>8, <3>1 DEF RunFails
  <2>9. CASE Verify
    <3>1. at \in Cells BY <2>9, AtWork DEF Verify, TypeInv
    <3>2. here = IF task.coding THEN at ELSE NoCell BY <2>9, HereIs DEF Verify, Equipped
    <3>3. ASSUME NEW c, Known(c) PROVE Known(c)' BY <2>9, <3>3, KnownKept DEF Verify
    <3>4. local'.error = local.error BY <2>0, <2>9 DEF Verify, Locals
    <3>5. pc = "verify" /\ pc' \in {"test", "teardown", "unwind"} BY <2>9 DEF Verify
    <3>6. Doomed => Doomed' BY <3>4, <3>5 DEF Doomed
    <3>7. \A c \in hidden' : Known(c)' /\ (c = at => task.coding)
      BY <2>9, <3>1, <3>2, <3>3, CurrentIsKnown DEF Verify, CustodyInv, Known, task
    <3> QED BY <2>9, <3>3, <3>5, <3>6, <3>7 DEF Verify, CustodyInv
  <2>10. CASE TestEnds
    <3>1. local'.error = local.error BY <2>0, <2>10 DEF TestEnds, Locals
    <3> QED BY <2>2, <2>10, <3>1 DEF TestEnds, Doomed
  <2>11. CASE Teardown
    <3>1. at \in Cells BY <2>11, AtWork DEF Teardown, TypeInv
    <3>2. /\ at' = After(at) /\ records' = Append(records, [cell |-> at, of |-> local])
          /\ pc = "teardown" /\ UNCHANGED <<threads, exposed>> /\ Removed
      BY <2>11 DEF Teardown
    <3>3. disk' \subseteq disk /\ hidden' \subseteq hidden
      BY <3>2, RemovedTyped DEF Equipped
    <3>4. Doomed <=> local.error BY <3>2 DEF Doomed
    <3>5. ASSUME NEW c \in Cells, Known(c), c = at => Doomed
          PROVE  Known(c)' /\ c # at'
      BY <3>1, <3>2, <3>4, <3>5, KnownPast
    <3>6. \A c \in disk' \cup hidden' : Known(c) /\ (c = at => Doomed)
      BY <3>1, <3>2, <3>3, RemovedLeaves DEF CustodyInv
    <3>7. \A c \in disk' \cup hidden' : Known(c)' /\ c # at' BY <2>0, <3>3, <3>5, <3>6
    <3>8. \A c \in exposed : Known(c)' /\ c # at' BY <2>0, <3>5 DEF CustodyInv
    <3>9. \A c \in Cells, tool \in Tools : <<c, tool>> \in threads => Known(c)' /\ c # at'
      BY <3>2, <3>5 DEF CustodyInv
    <3> QED BY <3>2, <3>7, <3>8, <3>9 DEF CustodyInv
  <2>12. CASE Unwind
    <3>1. /\ pc = "unwind" /\ pc' = "raised" /\ Removed
          /\ UNCHANGED <<at, records, threads, exposed>>
      BY <2>12 DEF Unwind
    <3>2. disk' \subseteq disk /\ hidden' \subseteq hidden BY <3>1, RemovedTyped DEF Equipped
    <3>3. ASSUME NEW c, Known(c) PROVE Known(c)' BY <3>1, <3>3, KnownKept
    <3>4. Doomed' BY <3>1 DEF Doomed
    <3> QED BY <3>1, <3>2, <3>3, <3>4 DEF CustodyInv
  <2>13. CASE Report
    <3>1. at = Last BY <2>13 DEF Report, OrderInv
    <3>2. at \notin Cells BY <3>1, SuiteTyped DEF Last, Cells
    <3>3. ASSUME NEW c, Known(c) PROVE Known(c)' BY <2>13, <3>3, KnownKept DEF Report
    <3> QED BY <2>0, <2>13, <3>2, <3>3 DEF Report, CustodyInv
  <2>14. ASSUME NEW tool \in Tools, ToolStarts(tool) PROVE CustodyInv'
    <3>1. at \in Cells BY <2>14, AtWork DEF ToolStarts, TypeInv
    <3>2. here = at BY <2>14, HereIs DEF ToolStarts, Equipped
    <3>3. Known(at) BY <2>14, <3>1, CurrentIsKnown DEF ToolStarts
    <3>4. ASSUME NEW c, Known(c) PROVE Known(c)' BY <2>14, <3>4, KnownKept DEF ToolStarts
    <3>5. pc \in {"run", "resume"} /\ (Doomed' <=> Doomed) BY <2>14 DEF ToolStarts, Doomed
    <3>6. threads' = threads \cup {<<at, tool>>} BY <2>14, <3>2 DEF ToolStarts
    <3> QED BY <2>14, <3>3, <3>4, <3>5, <3>6 DEF ToolStarts, CustodyInv
  <2>15. ASSUME NEW tool \in Tools, NEW c \in Cells, ToolEnds(c, tool) PROVE CustodyInv'
    <3>1. UNCHANGED <<pc, at, hidden, local, records>> /\ threads' \subseteq threads
      BY <2>15 DEF ToolEnds
    <3>2. Known(c) /\ (c = at => Doomed \/ pc \in {"run", "resume"})
      BY <2>15 DEF ToolEnds, CustodyInv
    <3>3. ASSUME NEW d, Known(d) PROVE Known(d)' BY <3>1, <3>3, KnownKept
    <3>4. Doomed' <=> Doomed BY <3>1 DEF Doomed
    <3>5. c = at => pc \notin {"bind", "setup"}
      BY <2>1, <3>2 DEF LocalInv, Doomed
    <3>6. disk' \subseteq disk \cup {c} BY <2>15 DEF ToolEnds
    <3>7. \A d \in disk' : Known(d)' /\ (d = at => pc \notin {"bind", "setup"})
      BY <3>2, <3>3, <3>5, <3>6 DEF CustodyInv
    <3>8. c \in hidden /\ c = at => Doomed
      <4>1. ASSUME pc \in {"run", "resume"} PROVE ~(c \in hidden /\ c = at)
        BY <4>1 DEF CustodyInv
      <4> QED BY <3>2, <4>1
    <3>9. \A d \in exposed' : Known(d)' /\ (d = at => Doomed)
      BY <2>15, <3>2, <3>3, <3>8 DEF ToolEnds, CustodyInv
    <3> QED BY <3>1, <3>3, <3>4, <3>7, <3>9 DEF CustodyInv
  <2>16. CASE UNCHANGED vars
    <3>1. ASSUME NEW c, Known(c) PROVE Known(c)' BY <2>16, <3>1, KnownKept DEF vars
    <3> QED BY <2>16, <3>1 DEF vars, CustodyInv, Doomed
  <2> QED
    BY <2>3, <2>4, <2>5, <2>6, <2>7, <2>8, <2>9, <2>10, <2>11, <2>12, <2>13, <2>14, <2>15, <2>16
    DEF Next
<1> QED BY <1>1, <1>2, TypeHolds, OrderHolds, LocalHolds, PTL DEF Spec

\* A pair recorded without an error leaves no sandbox behind.
THEOREM NoSandboxIsLeft == Spec => []SandboxesAreRemoved
<1>1. CustodyInv => SandboxesAreRemoved BY DEF CustodyInv, Known, SandboxesAreRemoved
<1> QED BY <1>1, CustodyHolds, PTL

\* No tool call of a pair recorded without an error met its hidden tests.
THEOREM HiddenTestsStayHidden == Spec => []HiddenTestsUnseen
<1>1. CustodyInv => HiddenTestsUnseen BY DEF CustodyInv, Known, HiddenTestsUnseen
<1> QED BY <1>1, CustodyHolds, PTL

-----------------------------------------------------------------------------
(***************************************************************************)
(* Verdicts.                                                               *)
(***************************************************************************)

VerdictInv ==
  /\ PassedIsEarned
  /\ pc = "test" => task.coding /\ at \in hidden
  /\ pc = "teardown" /\ task.coding /\ local.passed /\ ~local.error => code[at] = "fixed"

\* The sandbox of a pair recorded without an error is nobody's any more.
THEOREM PassedWasEarned == Spec => []PassedIsEarned
<1>1. Init => VerdictInv BY DEF Init, VerdictInv, PassedIsEarned
<1>2. TypeInv /\ OrderInv /\ CustodyInv /\ VerdictInv /\ [Next]_vars => VerdictInv'
  <2> SUFFICES ASSUME TypeInv, OrderInv, CustodyInv, VerdictInv, [Next]_vars
               PROVE  VerdictInv'
    OBVIOUS
  <2> USE DEF Workspace
  <2>0. local \in Locals /\ code \in [Cells -> Qualities] BY DEF TypeInv, TypeOK
  <2>1. ASSUME UNCHANGED <<at, hidden, code, records>>,
               pc' # "test" \/ pc = "test", pc' # "teardown"
        PROVE  VerdictInv'
    BY <2>1 DEF VerdictInv, PassedIsEarned, task
  <2>2. CASE Bind BY <2>1, <2>2 DEF Bind
  <2>3. CASE Setup
    <3>1. at \in Cells /\ pc' \in {"build", "raised"} /\ UNCHANGED records
      BY <2>3, AtWork DEF Setup, TypeInv
    <3>2. \A r \in 1..Len(records) : records[r].cell \in Cells /\ records[r].cell # at
      <4>1. \A r \in 1..Len(records) : records[r] \in Entries BY DEF TypeInv, TypeOK
      <4> QED BY <3>1, <4>1, AfterIsLater DEF OrderInv, Entries
    <3>3. \A c \in Cells : c # at => code'[c] = code[c] BY <2>0, <2>3 DEF Setup
    <3>4. PassedIsEarned' BY <3>1, <3>2, <3>3 DEF VerdictInv, PassedIsEarned
    <3> QED BY <3>1, <3>4 DEF VerdictInv
  <2>4. CASE Build BY <2>1, <2>4 DEF Build
  <2>5. CASE RunReturns BY <2>1, <2>5 DEF RunReturns
  <2>6. CASE ResumeReturns BY <2>1, <2>6 DEF ResumeReturns
  <2>7. CASE RunFails BY <2>1, <2>7 DEF RunFails
  <2>8. CASE Verify
    <3>1. here = IF task.coding THEN at ELSE NoCell BY <2>8, HereIs DEF Verify, Equipped
    <3>2. PassedIsEarned' BY <2>8 DEF Verify, VerdictInv, PassedIsEarned
    <3>3. pc' = "test" => task.coding /\ at \in hidden' BY <2>8, <3>1 DEF Verify
    <3>4. pc' = "teardown" => ~task.coding BY <2>8 DEF Verify
    <3>5. UNCHANGED at BY <2>8 DEF Verify
    <3> QED BY <3>2, <3>3, <3>4, <3>5 DEF VerdictInv, task
  <2>9. CASE TestEnds
    <3>1. task.coding /\ at \in hidden /\ pc = "test" BY <2>9 DEF TestEnds, VerdictInv
    <3>2. here = at BY <2>9, <3>1, HereIs DEF Equipped
    <3>3. local'.passed => code[at] = "fixed"
      BY <2>0, <2>9, <3>1, <3>2 DEF TestEnds, SuitePasses, Locals
    <3>4. PassedIsEarned' BY <2>9 DEF TestEnds, VerdictInv, PassedIsEarned
    <3>5. pc' # "test" /\ UNCHANGED <<at, code>> BY <2>9 DEF TestEnds
    <3> QED BY <3>3, <3>4, <3>5 DEF VerdictInv
  <2>10. CASE Teardown
    <3>1. at \in Cells BY <2>10, AtWork DEF Teardown, TypeInv
    <3> DEFINE e == [cell |-> at, of |-> local]
    <3>2. e \in Entries /\ records \in Seq(Entries) BY <3>1 DEF TypeInv, TypeOK, Entries
    <3>3. records' = Append(records, e) /\ UNCHANGED code /\ pc = "teardown"
      BY <2>10 DEF Teardown, Removed
    <3>4. e.cell = at /\ e.of = local OBVIOUS
    <3> HIDE DEF e
    <3>5. ASSUME NEW k \in 1..Len(records')
          PROVE  \/ k \in 1..Len(records) /\ records'[k] = records[k]
                 \/ records'[k].cell = at /\ records'[k].of = local
      BY <3>2, <3>3, <3>4, AppendEntry
    <3>6. PassedIsEarned' BY <3>3, <3>5 DEF VerdictInv, PassedIsEarned, task
    <3>7. pc' \notin {"test", "teardown"} BY <2>10 DEF Teardown
    <3> QED BY <3>6, <3>7 DEF VerdictInv
  <2>11. CASE Unwind
    <3>1. UNCHANGED <<code, records>> /\ pc' = "raised" BY <2>11 DEF Unwind, Removed
    <3> QED BY <3>1 DEF VerdictInv, PassedIsEarned
  <2>12. CASE Report BY <2>1, <2>12 DEF Report
  <2>13. ASSUME NEW tool \in Tools, ToolStarts(tool) PROVE VerdictInv'
    BY <2>1, <2>13 DEF ToolStarts
  <2>14. ASSUME NEW tool \in Tools, NEW c \in Cells, ToolEnds(c, tool) PROVE VerdictInv'
    <3>1. UNCHANGED <<pc, at, hidden, local, records>> BY <2>14 DEF ToolEnds
    <3>2. Known(c) /\ (c = at => Doomed \/ pc \in {"run", "resume"})
      BY <2>14 DEF ToolEnds, CustodyInv
    <3>3. \A d \in Cells : d # c => code'[d] = code[d] BY <2>0, <2>14 DEF ToolEnds
    <3>4. \A r \in 1..Len(records) : records[r].cell \in Cells
      <4>1. \A r \in 1..Len(records) : records[r] \in Entries BY DEF TypeInv, TypeOK
      <4> QED BY <4>1 DEF Entries
    <3>5. PassedIsEarned' BY <3>1, <3>2, <3>3, <3>4 DEF VerdictInv, PassedIsEarned, Known
    <3>6. pc = "teardown" /\ ~local.error => c # at BY <3>2 DEF Doomed
    <3>7. pc = "teardown" => at \in Cells BY AtWork DEF TypeInv
    <3>8. pc = "teardown" /\ ~local.error => code'[at] = code[at] BY <3>3, <3>6, <3>7
    <3> QED BY <3>1, <3>5, <3>8 DEF VerdictInv, task
  <2>15. CASE UNCHANGED vars BY <2>15 DEF vars, VerdictInv, PassedIsEarned, task
  <2> QED
    BY <2>2, <2>3, <2>4, <2>5, <2>6, <2>7, <2>8, <2>9, <2>10, <2>11, <2>12, <2>13, <2>14, <2>15
    DEF Next
<1>3. VerdictInv => PassedIsEarned BY DEF VerdictInv
<1> QED BY <1>1, <1>2, <1>3, TypeHolds, OrderHolds, CustodyHolds, PTL DEF Spec

=============================================================================
