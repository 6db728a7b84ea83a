-------------------------- MODULE WebClientProofs --------------------------
(***************************************************************************)
(* Proofs about WebClient, for any tasks, any events of a run, any limit   *)
(* of reconnects, any number of clicks and of lost connections.            *)
(***************************************************************************)
EXTENDS WebClient, SequenceTheorems, TLAPS

(***************************************************************************)
(* The inductive invariant of types: TypeOK, and what makes each step of   *)
(* it defined.                                                             *)
(***************************************************************************)

\* The server has the task.
Exists(t) == srv[t].status # None

\* A live run has sent some of its script, a finished one has sent its outcome too.
SrvInv == \A t \in Tasks :
  /\ srv[t].live => Exists(t) /\ ~srv[t].done /\ srv[t].frames \in 1..Len(Script) + 1
  /\ srv[t].done => Exists(t) /\ srv[t].frames \in 2..Len(Script) + 2
  /\ ~srv[t].done => srv[t].frames <= Len(Script) + 1

\* What the phase of a flow says of its task, its stream and what it has read.  The
\* last three are about frames: each taken once, the subscription standing at the
\* next one, and a stream that returns by itself having had the last.
FlowInv(f) ==
  /\ f.kind = "stream" => f.phase # "answered"
  /\ f.kind = "stream" /\ f.phase = "asked" => ~f.known /\ f.task = NoTask
  /\ f.kind # "stream" => f.phase \in {"asked", "answered", "ended"} /\ f.task # NoTask
  /\ f.phase \in {"reading", "sleeping", "opening", "opened"} => f.task # NoTask
  /\ f.phase = "sleeping" => f.attempt < MAX_RECONNECTS
  /\ f.phase = "answered" => f.answer \in Snapshots
  /\ f.terminal => f.known /\ f.phase \in {"reading", "ended"}
  /\ f.applied = f.lastId + 1
  /\ f.kind = "stream" /\ f.phase \in {"asked", "reading"} => f.pos = f.lastId + 1
  /\ f.kind = "stream" /\ f.phase = "ended" /\ f.known /\ ~f.thrown /\ ~f.aborted => f.terminal

FlowsInv == \A i \in 1..Len(flow) : FlowInv(flow[i])

\* Whatever is on view, under way or in the cache is about a task of the server.
ExistInv ==
  /\ \A i \in 1..Len(flow) : flow[i].task # NoTask => Exists(flow[i].task)
  /\ store.taskId # NoTask => Exists(store.taskId)
  /\ \A t \in Tasks : cache[t] # NoData => Exists(t)
  /\ poll.phase = "asked" => store.taskId # NoTask

TypeInv == TypeOK /\ SrvInv /\ FlowsInv /\ ExistInv

(***************************************************************************)
(* What the helpers return.                                                *)
(***************************************************************************)

\* The last review of a run is a decision.
LEMMA ReviewTyped == ASSUME NEW s PROVE ReviewOf(s) \in Decisions
  BY DEF ReviewOf, Decisions

\* A snapshot of a task that the server has.
LEMMA SnapshotTyped ==
  ASSUME TypeInv, NEW t \in Tasks, Exists(t)
  PROVE  Snapshot(t) \in Snapshots
<1> USE DEF TypeInv, TypeOK, Servers
<1>1. srv[t].status \in Statuses BY DEF Exists
<1>2. srv[t].review \in Decisions \cup {None} OBVIOUS
<1> QED BY <1>1, <1>2 DEF Snapshot, Snapshots

\* The store after a reset.
LEMMA ResetTyped ==
  ASSUME NEW c \in {"connecting", "recovering"}
  PROVE  reset(c) \in Stores /\ reset(c).taskId = NoTask /\ reset(c).connection = c
  BY DEF reset, initialState, Stores, Statuses, Roles, Decisions, None

\* The store after a snapshot, an unreadable one, an interruption.
LEMMA FoldTyped ==
  ASSUME NEW s \in Stores, NEW t \in Tasks, NEW data \in Snapshots
  PROVE  /\ applySnapshot(s, t, data) \in Stores /\ applySnapshot(s, t, data).taskId = t
         /\ applyUnread(s, t) \in Stores /\ applyUnread(s, t).taskId = t
         /\ markInterrupted(s) \in Stores /\ markInterrupted(s).taskId = s.taskId
<1> USE DEF Stores
<1>1. applySnapshot(s, t, data) \in Stores /\ applySnapshot(s, t, data).taskId = t
  BY DEF applySnapshot, Snapshots
<1>2. applyUnread(s, t) \in Stores /\ applyUnread(s, t).taskId = t
  BY DEF applyUnread
<1>3. markInterrupted(s) \in Stores /\ markInterrupted(s).taskId = s.taskId
  BY DEF markInterrupted
<1> QED BY <1>1, <1>2, <1>3

\* What a stream may carry after its first frame.
Received ==
  Events \cup [type : {"task_error"}]
         \cup [type : {"task_finished"}, status : Statuses \cup {None}]

\* The store after an event.
LEMMA EventTyped ==
  ASSUME NEW s \in Stores, NEW t \in Tasks, NEW e \in Received
  PROVE  applyEvent(s, t, e) \in Stores /\ applyEvent(s, t, e).taskId = t
<1> USE DEF Stores
<1>1. CASE e \in [type : {"node_start"}, role : Roles]
  <2> DEFINE review == IF e.role = "developer" /\ s.reviewDecision = "revision_required"
                       THEN None ELSE s.reviewDecision
  <2>1. review \in Decisions \cup {None} /\ e.role \in Roles /\ e.type = "node_start"
    BY <1>1
  <2>2. applyEvent(s, t, e)
          = [s EXCEPT !.taskId = t, !.hasStarted = TRUE, !.serverStatus = "running",
                      !.activeRole = e.role, !.connection = "live", !.reviewDecision = review]
    BY <2>1 DEF applyEvent
  <2>3. "running" \in Statuses BY DEF Statuses
  <2> HIDE DEF review
  <2>4. applyEvent(s, t, e).taskId = t BY <2>2
  <2>5. applyEvent(s, t, e) \in Stores BY <2>1, <2>2, <2>3
  <2> QED BY <2>4, <2>5
<1>2. CASE e \in [type : {"node_end"}, role : Roles, decision : Decisions \cup {None}]
  <2> DEFINE active == IF s.activeRole = e.role THEN None ELSE s.activeRole
             review == IF e.role = "reviewer" /\ e.decision # None THEN e.decision ELSE s.reviewDecision
  <2>1. active \in Roles \cup {None} /\ review \in Decisions \cup {None} /\ e.role \in Roles
    BY <1>2
  <2>2. applyEvent(s, t, e)
          = [s EXCEPT !.taskId = t, !.lastRole = e.role, !.activeRole = active, !.reviewDecision = review]
    BY <1>2 DEF applyEvent
  <2> HIDE DEF active, review
  <2>3. applyEvent(s, t, e).taskId = t BY <2>2
  <2>4. applyEvent(s, t, e) \in Stores BY <2>1, <2>2
  <2> QED BY <2>3, <2>4
<1>3. CASE e \in [type : {"other"}]
  BY <1>3 DEF applyEvent
<1>4. CASE e \in [type : {"task_error"}]
  BY <1>4 DEF applyEvent, Statuses
<1>5. CASE e \in [type : {"task_finished"}, status : Statuses \cup {None}]
  BY <1>5 DEF applyEvent
<1> QED BY <1>1, <1>2, <1>3, <1>4, <1>5 DEF Received, Events

\* The frames of a task: the start, its script, its outcome.
LEMMA FrameTyped ==
  ASSUME TypeInv, NEW t \in Tasks, NEW n \in Nat, n < srv[t].frames
  PROVE  /\ n = 0 => Frame(t, n).type = "task_started"
         /\ n # 0 => Frame(t, n) \in Received /\ Frame(t, n).type # "task_started"
         /\ Frame(t, n).type \in {"task_finished", "task_error"} =>
              srv[t].done /\ n = srv[t].frames - 1
         /\ Frame(t, n).type = "task_finished" => Frame(t, n).status = srv[t].status
         /\ Frame(t, n).type = "node_end" => \E k \in 1..Len(Script) : Frame(t, n) = Script[k]
<1> USE DEF Frame
<1>1. srv[t] \in Servers BY DEF TypeInv, TypeOK
<1>2. CASE n = 0 BY <1>2
<1>3. CASE n # 0 /\ n = srv[t].frames - 1 /\ srv[t].done
  <2>1. srv[t].status \in Statuses \cup {None} BY <1>1 DEF Servers
  <2> QED BY <1>3, <2>1 DEF Received
<1>4. CASE n # 0 /\ ~(n = srv[t].frames - 1 /\ srv[t].done)
  <2>1. srv[t].frames \in Nat BY <1>1 DEF Servers
  <2>2. Len(Script) \in Nat BY ClientAssumption
  <2>3. n \in 1..Len(Script)
    <3>1. CASE srv[t].done
      <4>1. srv[t].frames <= Len(Script) + 2 BY <3>1, <2>2 DEF TypeInv, SrvInv
      <4> QED BY <1>4, <3>1, <4>1, <2>1, <2>2
    <3>2. CASE ~srv[t].done
      <4>1. srv[t].frames <= Len(Script) + 1 BY <3>2 DEF TypeInv, SrvInv
      <4> QED BY <1>4, <4>1, <2>1, <2>2
    <3> QED BY <3>1, <3>2
  <2>4. Script[n] \in Events BY <2>3, ClientAssumption
  <2>5. Script[n].type \in {"node_start", "node_end", "other"} BY <2>4 DEF Events
  <2>6. Frame(t, n) = Script[n] BY <1>4
  <2> HIDE DEF Frame
  <2> QED BY <1>4, <2>3, <2>4, <2>5, <2>6 DEF Received
<1> QED BY <1>2, <1>3, <1>4

\* A new flow, and one that is over.
LEMMA NewFlowTyped ==
  ASSUME NEW k \in {"stream", "select", "resume"}, NEW t \in Tasks \cup {NoTask},
         k = "stream" <=> t = NoTask
  PROVE  NewFlow(k, t) \in Flows /\ FlowInv(NewFlow(k, t))
<1> USE DEF NewFlow
<1>1. NewFlow(k, t) \in Flows
  BY ClientAssumption DEF Flows
<1>2. FlowInv(NewFlow(k, t))
  <2> DEFINE f == NewFlow(k, t)
  <2>1. /\ f.kind = k /\ f.phase = "asked" /\ f.task = t /\ f.terminal = FALSE
        /\ f.lastId = -1 /\ f.pos = 0 /\ f.applied = 0
    OBVIOUS
  <2>2. k = "stream" => ~f.known OBVIOUS
  <2> HIDE DEF f
  <2>3. f.applied = f.lastId + 1 /\ f.pos = f.lastId + 1 BY <2>1
  <2> HIDE DEF NewFlow
  <2>4. FlowInv(f) BY <2>1, <2>2, <2>3 DEF FlowInv
  <2> QED BY <2>4 DEF f
<1> QED BY <1>1, <1>2

LEMMA EndedTyped ==
  ASSUME NEW f \in Flows, f.applied = f.lastId + 1, f.terminal => f.known,
         f.kind # "stream" => f.task # NoTask
  PROVE  /\ Ended(f) \in Flows
         /\ [Ended(f) EXCEPT !.thrown = TRUE] \in Flows
         /\ FlowInv([Ended(f) EXCEPT !.thrown = TRUE])
         /\ f.terminal \/ ~f.known \/ f.aborted \/ f.kind # "stream" => FlowInv(Ended(f))
<1> USE DEF Ended
<1>0. 0 \in 0..MAX_RECONNECTS /\ 0 \in Nat BY ClientAssumption
<1>1. Ended(f) \in Flows BY <1>0 DEF Flows
<1>2. [Ended(f) EXCEPT !.thrown = TRUE] \in Flows BY <1>0, <1>1 DEF Flows
<1>3. FlowInv([Ended(f) EXCEPT !.thrown = TRUE]) BY DEF FlowInv, Flows
<1>4. f.terminal \/ ~f.known \/ f.aborted \/ f.kind # "stream" => FlowInv(Ended(f)) BY DEF FlowInv, Flows
<1> QED BY <1>1, <1>2, <1>3, <1>4

(***************************************************************************)
(* The types are kept.                                                     *)
(***************************************************************************)

\* What the requests and the query may find on the server after a step.
ServerKept ==
  /\ srv' \in [Tasks -> Servers] /\ SrvInv'
  /\ \A t \in Tasks : Exists(t) => Exists(t)'

\* A server that is left alone has what it had.
LEMMA ServerUnchanged ==
  ASSUME TypeInv, UNCHANGED srv
  PROVE  ServerKept
  BY DEF TypeInv, TypeOK, SrvInv, ServerKept, Exists

\* One flow moves, and something of its task is shown.
LEMMA FlowMoves ==
  ASSUME TypeInv, ServerKept,
         NEW i \in 1..Len(flow), NEW f \in Flows, FlowInv(f), Step(i, f),
         f.task # NoTask => srv'[f.task].status # None,
         NEW s \in Stores, s.taskId # NoTask => srv'[s.taskId].status # None, Show(s),
         UNCHANGED <<controller, cache, seen, overlapped>>, drops' \in 0..MaxDrops
  PROVE  TypeInv'
<1> USE DEF TypeInv
<1>1. flow \in Seq(Flows) /\ i \in DOMAIN flow BY DEF TypeOK
<1>2. flow' = [flow EXCEPT ![i] = f] BY DEF Step
<1>3. flow' \in Seq(Flows) /\ Len(flow') = Len(flow)
      /\ \A j \in 1..Len(flow) : flow'[j] = IF j = i THEN f ELSE flow[j]
  BY <1>1, <1>2
<1>4. store' = s /\ ((poll' = poll /\ s.taskId = store.taskId)
                     \/ poll' = [phase |-> "idle", answer |-> NoData])
  BY DEF Show
<1>5. TypeOK'
  <2>1. poll' \in [phase : {"idle", "asked"}, answer : Snapshots \cup {NoData}]
    BY <1>4 DEF TypeOK
  <2>2. Len(flow') <= MaxClicks /\ controller' \in 0..Len(flow') BY <1>3 DEF TypeOK
  <2> QED BY <1>3, <1>4, <2>1, <2>2 DEF TypeOK, ServerKept
<1>6. SrvInv' BY DEF ServerKept
<1>7. FlowsInv'
  <2> SUFFICES ASSUME NEW j \in 1..Len(flow') PROVE FlowInv(flow'[j])
    BY DEF FlowsInv
  <2> QED BY <1>3 DEF FlowsInv
<1>8. ExistInv'
  <2>1. \A j \in 1..Len(flow) : flow[j].task # NoTask => flow[j].task \in Tasks /\ srv'[flow[j].task].status # None
    <3> SUFFICES ASSUME NEW j \in 1..Len(flow), flow[j].task # NoTask
                 PROVE  flow[j].task \in Tasks /\ srv'[flow[j].task].status # None
      OBVIOUS
    <3>1. flow[j] \in Flows BY <1>1
    <3>2. flow[j].task \in Tasks BY <3>1 DEF Flows
    <3> QED BY <3>2 DEF ExistInv, ServerKept, Exists
  <2>2. \A j \in 1..Len(flow') : flow'[j].task # NoTask => srv'[flow'[j].task].status # None
    BY <1>3, <2>1 DEF Exists
  <2>3. \A t \in Tasks : cache'[t] # NoData => Exists(t)' BY DEF ExistInv, ServerKept
  <2>4. poll'.phase = "asked" => store'.taskId # NoTask BY <1>4 DEF ExistInv
  <2>5. store'.taskId # NoTask => srv'[store'.taskId].status # None BY <1>4 DEF Exists
  <2> QED BY <2>2, <2>3, <2>4, <2>5 DEF ExistInv, Exists
<1> QED BY <1>5, <1>6, <1>7, <1>8

\* Showing what is shown already changes nothing.
LEMMA QuietShows ==
  ASSUME Quietly PROVE Show(store)
  BY DEF Quietly, Show

\* A lost connection is counted.
LEMMA DropsTyped ==
  ASSUME TypeInv, Lose \/ UNCHANGED drops
  PROVE  drops' \in 0..MaxDrops
  BY ClientAssumption DEF TypeInv, TypeOK, Lose

\* startTask after streamTask returned or threw, and the head of the loop.
LEMMA SettledTyped ==
  ASSUME TypeInv, NEW i \in 1..Len(flow), NEW f \in Flows,
         f.kind = "stream", f.applied = f.lastId + 1, f.terminal => f.known, f.task = flow[i].task,
         \/ Returned(i, f) /\ (f.terminal \/ ~f.known \/ f.aborted)
         \/ Thrown(i, f)
         \/ Loop(i, f) /\ f.task # NoTask,
         UNCHANGED <<srv, controller, cache, seen, overlapped>>, drops' \in 0..MaxDrops
  PROVE  TypeInv'
<1>0. ServerKept BY ServerUnchanged
<1>1. f.task # NoTask => srv'[f.task].status # None BY DEF TypeInv, ExistInv, Exists
<1>2. store \in Stores /\ (store.taskId # NoTask => srv'[store.taskId].status # None)
  BY DEF TypeInv, TypeOK, ExistInv, Exists
<1>3. \A c \in {"recovering", "offline"} :
        /\ [store EXCEPT !.connection = c] \in Stores
        /\ [store EXCEPT !.connection = c].taskId = store.taskId
  BY <1>2 DEF Stores
<1>4. /\ Ended(f) \in Flows /\ Ended(f).task = f.task
      /\ [Ended(f) EXCEPT !.thrown = TRUE] \in Flows /\ [Ended(f) EXCEPT !.thrown = TRUE].task = f.task
      /\ FlowInv([Ended(f) EXCEPT !.thrown = TRUE])
      /\ f.terminal \/ ~f.known \/ f.aborted => FlowInv(Ended(f))
  <2>1. Ended(f).task = f.task /\ [Ended(f) EXCEPT !.thrown = TRUE].task = f.task BY DEF Ended, Flows
  <2> QED BY <2>1, EndedTyped
<1>5. CASE Returned(i, f) /\ (f.terminal \/ ~f.known \/ f.aborted)
  <2>1. Show(store) \/ \E c \in {"recovering", "offline"} : Show([store EXCEPT !.connection = c])
    BY <1>5, QuietShows DEF Returned
  <2>2. Step(i, Ended(f)) BY <1>5 DEF Returned
  <2> QED BY <1>0, <1>1, <1>2, <1>3, <1>4, <1>5, <2>1, <2>2, FlowMoves
<1>6. CASE Thrown(i, f)
  <2>1. Show(store) \/ \E c \in {"recovering", "offline"} : Show([store EXCEPT !.connection = c])
    BY <1>6, QuietShows DEF Thrown
  <2>2. Step(i, [Ended(f) EXCEPT !.thrown = TRUE]) BY <1>6 DEF Thrown
  <2> QED BY <1>0, <1>1, <1>2, <1>3, <1>4, <2>1, <2>2, FlowMoves
<1>7. CASE Loop(i, f) /\ f.task # NoTask
  <2>1. CASE f.terminal \/ ~f.known \/ f.aborted
    BY <1>5, <1>7, <2>1 DEF Loop
  <2>2. CASE ~(f.terminal \/ ~f.known \/ f.aborted) /\ f.attempt >= MAX_RECONNECTS
    BY <1>6, <1>7, <2>2 DEF Loop
  <2>3. CASE ~(f.terminal \/ ~f.known \/ f.aborted) /\ ~(f.attempt >= MAX_RECONNECTS)
    <3> DEFINE g == [f EXCEPT !.phase = "sleeping"]
    <3>1. Step(i, g) /\ Show(store) BY <1>7, <2>3, QuietShows DEF Loop
    <3>2. g \in Flows /\ g.task = f.task BY DEF Flows
    <3>3. f.attempt < MAX_RECONNECTS BY <2>3, ClientAssumption DEF Flows
    <3>4. FlowInv(g) BY <1>7, <2>3, <3>3 DEF FlowInv, Flows
    <3> QED BY <1>0, <1>1, <1>2, <3>1, <3>2, <3>4, FlowMoves
  <2> QED BY <2>1, <2>2, <2>3
<1> QED BY <1>5, <1>6, <1>7

\* A click aborts the flow in controllerRef and may start a flow of its own.
LEMMA AbortedTyped ==
  ASSUME TypeInv
  PROVE  /\ Aborted \in Seq(Flows) /\ Len(Aborted) = Len(flow)
         /\ \A j \in 1..Len(flow) :
              /\ Aborted[j] \in Flows /\ FlowInv(Aborted[j])
              /\ Aborted[j] = [flow[j] EXCEPT !.aborted = flow[j].aborted \/ j = controller]
<1>1. flow \in Seq(Flows) BY DEF TypeInv, TypeOK
<1>2. \A j \in 1..Len(flow) :
        LET g == [flow[j] EXCEPT !.aborted = flow[j].aborted \/ j = controller]
        IN  g \in Flows /\ FlowInv(g)
  <2> SUFFICES ASSUME NEW j \in 1..Len(flow), NEW b \in BOOLEAN, b = (flow[j].aborted \/ j = controller)
               PROVE  [flow[j] EXCEPT !.aborted = b] \in Flows /\ FlowInv([flow[j] EXCEPT !.aborted = b])
    <3>1. \A j \in 1..Len(flow) : (flow[j].aborted \/ j = controller) \in BOOLEAN OBVIOUS
    <3> QED BY <3>1
  <2>1. flow[j] \in Flows BY <1>1
  <2>2. FlowInv(flow[j]) BY DEF TypeInv, FlowsInv
  <2>3. [flow[j] EXCEPT !.aborted = b] \in Flows BY <2>1 DEF Flows
  <2>4. flow[j].aborted => b OBVIOUS
  <2>5. FlowInv([flow[j] EXCEPT !.aborted = b]) BY <2>1, <2>2, <2>4 DEF FlowInv, Flows
  <2> QED BY <2>3, <2>5
<1>3. Len(flow) \in Nat BY <1>1
<1>4. \A j \in 1..Len(flow) : Aborted[j] = [flow[j] EXCEPT !.aborted = flow[j].aborted \/ j = controller]
  BY DEF Aborted
<1>5. Aborted \in Seq(Flows) /\ Len(Aborted) = Len(flow)
  <2>1. Aborted \in [1..Len(flow) -> Flows] BY <1>2 DEF Aborted
  <2> QED BY <1>3, <2>1
<1> QED BY <1>2, <1>4, <1>5

\* The flows as a step leaves them, and what else of the page changed.
LEMMA PageMoves ==
  ASSUME TypeInv, ServerKept,
         flow' \in Seq(Flows), Len(flow') <= MaxClicks, controller' \in 0..Len(flow'),
         \A j \in 1..Len(flow') :
            FlowInv(flow'[j]) /\ (flow'[j].task # NoTask => srv'[flow'[j].task].status # None),
         NEW s \in Stores, s.taskId # NoTask => srv'[s.taskId].status # None, Show(s),
         cache' = cache, seen' \in [task : Tasks \cup {NoTask}, data : Snapshots \cup {NoData}],
         drops' \in 0..MaxDrops, overlapped' \in BOOLEAN
  PROVE  TypeInv'
<1> USE DEF TypeInv
<1>1. store' = s /\ ((poll' = poll /\ s.taskId = store.taskId)
                     \/ poll' = [phase |-> "idle", answer |-> NoData])
  BY DEF Show
<1>2. TypeOK'
  <2>1. poll' \in [phase : {"idle", "asked"}, answer : Snapshots \cup {NoData}]
    BY <1>1 DEF TypeOK
  <2> QED BY <1>1, <2>1 DEF TypeOK, ServerKept
<1>3. SrvInv' BY DEF ServerKept
<1>4. FlowsInv'
  <2> SUFFICES ASSUME NEW j \in 1..Len(flow') PROVE FlowInv(flow'[j])
    BY DEF FlowsInv
  <2> QED OBVIOUS
<1>5. ExistInv'
  <2>1. \A t \in Tasks : cache'[t] # NoData => Exists(t)' BY DEF ExistInv, ServerKept
  <2>2. poll'.phase = "asked" => store'.taskId # NoTask BY <1>1 DEF ExistInv
  <2>3. store'.taskId # NoTask => srv'[store'.taskId].status # None BY <1>1
  <2> QED BY <2>1, <2>2, <2>3 DEF ExistInv, Exists
<1> QED BY <1>2, <1>3, <1>4, <1>5

\* A click that aborts, starts a flow and shows a store.
LEMMA ClickMoves ==
  ASSUME TypeInv, NEW hasty, Click(hasty), UNCHANGED <<srv, cache, seen, drops>>,
         NEW g \in Flows, FlowInv(g), g.task # NoTask => srv[g.task].status # None,
         flow' = Append(Aborted, g), controller' \in {controller, Len(flow) + 1},
         NEW s \in Stores, s.taskId # NoTask => srv[s.taskId].status # None, Show(s)
  PROVE  TypeInv'
<1>1. ServerKept BY ServerUnchanged
<1>2. Aborted \in Seq(Flows) /\ Len(Aborted) = Len(flow) BY AbortedTyped
<1>3. Len(flow) \in Nat /\ MaxClicks \in Nat BY <1>2, ClientAssumption
<1>4. flow' \in Seq(Flows) /\ Len(flow') = Len(flow) + 1 BY <1>2
<1>5. \A j \in 1..Len(flow') :
        FlowInv(flow'[j]) /\ (flow'[j].task # NoTask => srv'[flow'[j].task].status # None)
  <2> SUFFICES ASSUME NEW j \in 1..Len(flow')
               PROVE  FlowInv(flow'[j]) /\ (flow'[j].task # NoTask => srv'[flow'[j].task].status # None)
    OBVIOUS
  <2>1. CASE j = Len(flow) + 1
    <3>1. flow'[j] = g BY <1>2, <1>3, <2>1
    <3> QED BY <3>1
  <2>2. CASE j # Len(flow) + 1
    <3>1. j \in 1..Len(flow) BY <1>3, <1>4, <2>2
    <3>2. flow'[j] = Aborted[j] BY <1>2, <1>3, <3>1
    <3>3. flow[j] \in Flows BY <3>1 DEF TypeInv, TypeOK
    <3>4. FlowInv(Aborted[j]) /\ Aborted[j].task = flow[j].task
      <4>1. FlowInv(Aborted[j]) BY <3>1, AbortedTyped
      <4>2. Aborted[j] = [flow[j] EXCEPT !.aborted = flow[j].aborted \/ j = controller]
        BY <3>1, AbortedTyped
      <4> QED BY <3>3, <4>1, <4>2 DEF Flows
    <3>5. flow[j].task # NoTask => srv[flow[j].task].status # None
      BY <3>1 DEF TypeInv, ExistInv, Exists
    <3> QED BY <3>2, <3>4, <3>5
  <2> QED BY <2>1, <2>2
<1>6. Len(flow') <= MaxClicks BY <1>3, <1>4 DEF Click
<1>7. controller' \in 0..Len(flow')
  <2>1. controller \in 0..Len(flow) BY DEF TypeInv, TypeOK
  <2> QED BY <1>3, <1>4, <2>1
<1>8. /\ seen' \in [task : Tasks \cup {NoTask}, data : Snapshots \cup {NoData}]
      /\ drops' \in 0..MaxDrops /\ overlapped' \in BOOLEAN
  BY DEF TypeInv, TypeOK, Click
<1> QED BY <1>1, <1>4, <1>5, <1>6, <1>7, <1>8, PageMoves

LEMMA startTaskTyped ==
  ASSUME TypeInv, startTask PROVE TypeInv'
<1>1. NewFlow("stream", NoTask) \in Flows /\ FlowInv(NewFlow("stream", NoTask)) BY NewFlowTyped
<1>2. NewFlow("stream", NoTask).task = NoTask BY DEF NewFlow
<1>3. reset("connecting") \in Stores /\ reset("connecting").taskId = NoTask BY ResetTyped
<1> QED BY <1>1, <1>2, <1>3, ClickMoves DEF startTask

LEMMA selectSessionTyped ==
  ASSUME TypeInv, NEW t \in Tasks, selectSession(t) PROVE TypeInv'
<1>0. t # NoTask BY ClientAssumption
<1>1. NewFlow("select", t) \in Flows /\ FlowInv(NewFlow("select", t)) BY <1>0, NewFlowTyped
<1>2. NewFlow("select", t).task = t BY DEF NewFlow
<1>3. reset("recovering") \in Stores /\ reset("recovering").taskId = NoTask BY ResetTyped
<1> QED BY <1>1, <1>2, <1>3, ClickMoves DEF selectSession

LEMMA handleResumeTyped ==
  ASSUME TypeInv, handleResume PROVE TypeInv'
<1>0. store \in Stores /\ store.taskId # NoTask BY DEF TypeInv, TypeOK, handleResume, canResume
<1>1. store.taskId \in Tasks BY <1>0 DEF Stores
<1>2. NewFlow("resume", store.taskId) \in Flows /\ FlowInv(NewFlow("resume", store.taskId))
  BY <1>0, <1>1, NewFlowTyped
<1>3. NewFlow("resume", store.taskId).task = store.taskId BY DEF NewFlow
<1>4. srv[store.taskId].status # None BY <1>0 DEF TypeInv, ExistInv, Exists
<1>5. LET s == [store EXCEPT !.resuming = TRUE, !.connection = "connecting"]
      IN  s \in Stores /\ s.taskId = store.taskId
  BY <1>0 DEF Stores
<1> QED BY <1>2, <1>3, <1>4, <1>5, ClickMoves DEF handleResume

\* A flow of the page, and the server's view of its task.
LEMMA FlowTyped ==
  ASSUME TypeInv, NEW i \in 1..Len(flow)
  PROVE  /\ flow[i] \in Flows /\ FlowInv(flow[i])
         /\ flow[i].task # NoTask => flow[i].task \in Tasks /\ srv[flow[i].task].status # None
         /\ flow[i].task # NoTask => srv[flow[i].task] \in Servers
<1>1. flow[i] \in Flows BY DEF TypeInv, TypeOK
<1>2. FlowInv(flow[i]) BY DEF TypeInv, FlowsInv
<1>3. flow[i].task # NoTask => flow[i].task \in Tasks BY <1>1 DEF Flows
<1>4. flow[i].task # NoTask => srv[flow[i].task].status # None BY DEF TypeInv, ExistInv, Exists
<1> QED BY <1>1, <1>2, <1>3, <1>4 DEF TypeInv, TypeOK

LEMMA PostArrivesTyped ==
  ASSUME TypeInv, NEW i \in 1..Len(flow), PostArrives(i) PROVE TypeInv'
<1> DEFINE t == CHOOSE u \in Tasks : srv[u] = Unborn
           f == [flow[i] EXCEPT !.phase = "reading", !.task = t]
           r == [srv[t] EXCEPT !.status = "running", !.frames = 1, !.live = TRUE, !.kept = TRUE]
<1>1. t \in Tasks /\ srv[t] = Unborn BY DEF PostArrives
<1>2. srv' = [srv EXCEPT ![t] = r] /\ Step(i, f) BY DEF PostArrives
<1>3. flow[i] \in Flows /\ FlowInv(flow[i]) BY FlowTyped
<1>4. t # NoTask BY <1>1, ClientAssumption
<1> HIDE DEF t
<1>5. r = [status |-> "running", review |-> None, frames |-> 1, done |-> FALSE, live |-> TRUE,
           kept |-> TRUE, error |-> FALSE]
  <2>1. r = [Unborn EXCEPT !.status = "running", !.frames = 1, !.live = TRUE, !.kept = TRUE]
    BY <1>1
  <2> HIDE DEF r
  <2> QED BY <2>1 DEF Unborn
<1> HIDE DEF r
<1>6. srv \in [Tasks -> Servers] /\ SrvInv BY DEF TypeInv, TypeOK
<1>7. srv'[t] = r /\ \A u \in Tasks : u # t => srv'[u] = srv[u] BY <1>1, <1>2, <1>6
<1>8. ServerKept
  <2>1. r \in Servers BY <1>5 DEF Servers, Statuses
  <2>2. srv' \in [Tasks -> Servers] BY <1>2, <1>6, <2>1
  <2>3. SrvInv'
    <3>1. Len(Script) \in Nat BY ClientAssumption
    <3>2. 1 \in 1..Len(Script) + 1 /\ 1 <= Len(Script) + 1 BY <3>1
    <3> QED BY <1>5, <1>6, <1>7, <3>2 DEF SrvInv, Exists, None
  <2>4. \A u \in Tasks : Exists(u) => Exists(u)' BY <1>5, <1>7 DEF Exists, None
  <2> QED BY <2>2, <2>3, <2>4 DEF ServerKept
<1>9. f \in Flows BY <1>1, <1>3 DEF Flows
<1>10. FlowInv(f) BY <1>3, <1>4 DEF FlowInv, PostArrives, Flows
<1>11. f.task = t BY <1>3 DEF Flows
<1>12. srv'[t].status # None BY <1>5, <1>7 DEF None
<1>13. store \in Stores /\ (store.taskId # NoTask => srv'[store.taskId].status # None) /\ Show(store)
  <2>1. store \in Stores BY DEF TypeInv, TypeOK
  <2>2. store.taskId # NoTask => store.taskId \in Tasks /\ Exists(store.taskId)
    BY <2>1 DEF TypeInv, ExistInv, Stores
  <2>3. store.taskId # NoTask => srv'[store.taskId].status # None
    BY <1>7, <1>12, <2>2 DEF Exists
  <2>4. Show(store) BY DEF PostArrives, Show
  <2> QED BY <2>1, <2>3, <2>4
<1>14. drops' \in 0..MaxDrops /\ UNCHANGED <<controller, cache, seen, overlapped>>
  BY DEF PostArrives, TypeInv, TypeOK
<1> HIDE DEF f
<1> QED BY <1>2, <1>8, <1>9, <1>10, <1>11, <1>12, <1>13, <1>14, FlowMoves

LEMMA PostFailsTyped ==
  ASSUME TypeInv, NEW i \in 1..Len(flow), PostFails(i) PROVE TypeInv'
<1>1. flow[i] \in Flows /\ FlowInv(flow[i]) BY FlowTyped
<1>2. drops' \in 0..MaxDrops BY DropsTyped DEF PostFails
<1>3. flow[i].kind = "stream" /\ flow[i].applied = flow[i].lastId + 1 /\ (flow[i].terminal => flow[i].known)
  BY <1>1 DEF FlowInv, PostFails
<1> QED BY <1>1, <1>2, <1>3, SettledTyped DEF PostFails

\* What a frame leaves of the flow that took it.
LEMMA TakenTyped ==
  ASSUME TypeInv, NEW i \in 1..Len(flow), flow[i].kind = "stream", flow[i].phase = "reading",
         ~flow[i].terminal \/ flow[i].known, NEW k \in BOOLEAN, NEW b \in BOOLEAN,
         b => k
  PROVE  LET f == [flow[i] EXCEPT !.lastId = flow[i].pos, !.pos = @ + 1, !.applied = @ + 1,
                                  !.known = k, !.terminal = b]
         IN  f \in Flows /\ FlowInv(f) /\ f.task = flow[i].task
<1> DEFINE f == [flow[i] EXCEPT !.lastId = flow[i].pos, !.pos = @ + 1, !.applied = @ + 1,
                                !.known = k, !.terminal = b]
<1>1. flow[i] \in Flows /\ FlowInv(flow[i]) BY FlowTyped
<1>2. flow[i].pos \in Nat /\ flow[i].applied = flow[i].lastId + 1 /\ flow[i].pos = flow[i].lastId + 1
      /\ flow[i].lastId \in Nat \cup {-1} /\ flow[i].applied \in Nat
  BY <1>1 DEF FlowInv, Flows
<1>3. f \in Flows /\ f.task = flow[i].task
  <2> DEFINE p == flow[i].pos + 1
             a == flow[i].applied + 1
  <2>1. p \in Nat /\ a \in Nat /\ flow[i].pos \in Nat \cup {-1} BY <1>2
  <2>2. f = [flow[i] EXCEPT !.lastId = flow[i].pos, !.pos = p, !.applied = a, !.known = k, !.terminal = b]
    BY <1>1 DEF Flows
  <2> HIDE DEF p, a, f
  <2>3. f \in Flows BY <1>1, <2>1, <2>2 DEF Flows
  <2>4. f.task = flow[i].task BY <1>1, <2>2 DEF Flows
  <2> QED BY <2>3, <2>4
<1>4. f.applied = f.lastId + 1 /\ f.pos = f.lastId + 1
  <2>1. f.applied = flow[i].applied + 1 /\ f.lastId = flow[i].pos /\ f.pos = flow[i].pos + 1
    BY <1>1 DEF Flows
  <2> HIDE DEF f
  <2> QED BY <1>2, <2>1
<1>5. FlowInv(f)
  <2>1. f.kind = "stream" /\ f.phase = "reading" /\ f.task # NoTask /\ f.known = k /\ f.terminal = b
    BY <1>1 DEF Flows, FlowInv
  <2> HIDE DEF f
  <2> QED BY <1>4, <2>1 DEF FlowInv
<1> QED BY <1>3, <1>5

\* A frame that a stream takes: the start, or an event.
LEMMA ReadFrameEffect ==
  ASSUME TypeInv, NEW i \in 1..Len(flow), ReadFrame(i)
  PROVE  \E k \in BOOLEAN, b \in BOOLEAN :
           LET e == Frame(flow[i].task, flow[i].pos)
               f == [flow[i] EXCEPT !.lastId = flow[i].pos, !.pos = @ + 1, !.applied = @ + 1,
                                    !.known = k, !.terminal = b]
           IN /\ b => k
              /\ Step(i, f)
              /\ flow[i].task \in Tasks
              /\ \/ Quietly /\ k = flow[i].known /\ b = flow[i].terminal
                 \/ /\ e \in Received /\ k
                    /\ b = (e.type \in {"task_finished", "task_error"})
                    /\ Show(applyEvent(store, flow[i].task, e))
<1> DEFINE e == Frame(flow[i].task, flow[i].pos)
<1>1. flow[i] \in Flows /\ FlowInv(flow[i]) BY FlowTyped
<1>2. flow[i].task \in Tasks /\ flow[i].pos \in Nat /\ flow[i].pos < srv[flow[i].task].frames
  <2>1. flow[i].task # NoTask BY <1>1 DEF FlowInv, ReadFrame
  <2> QED BY <1>1, <2>1, FlowTyped DEF ReadFrame, Flows
<1>3. e.type # "task_started" => e \in Received
  BY <1>2, FrameTyped
<1>4. CASE e.type = "task_started"
  <2> DEFINE f == [flow[i] EXCEPT !.lastId = flow[i].pos, !.pos = @ + 1, !.applied = @ + 1,
                                  !.known = flow[i].known, !.terminal = flow[i].terminal]
  <2>1. Step(i, [flow[i] EXCEPT !.lastId = flow[i].pos, !.pos = @ + 1, !.applied = @ + 1]) /\ Quietly
    BY <1>4 DEF ReadFrame
  <2>2. [flow[i] EXCEPT !.lastId = flow[i].pos, !.pos = @ + 1, !.applied = @ + 1] = f
    BY <1>1 DEF Flows
  <2>3. flow[i].known \in BOOLEAN /\ flow[i].terminal \in BOOLEAN /\ (flow[i].terminal => flow[i].known)
    BY <1>1 DEF Flows, FlowInv
  <2> QED BY <1>2, <2>1, <2>2, <2>3
<1>5. CASE e.type # "task_started"
  <2> DEFINE b == e.type \in {"task_finished", "task_error"}
             f == [flow[i] EXCEPT !.lastId = flow[i].pos, !.pos = @ + 1, !.applied = @ + 1,
                                  !.known = TRUE, !.terminal = b]
  <2>1. /\ Step(i, [[flow[i] EXCEPT !.lastId = flow[i].pos, !.pos = @ + 1, !.applied = @ + 1]
                      EXCEPT !.known = TRUE, !.terminal = b])
        /\ Show(applyEvent(store, flow[i].task, e))
    BY <1>5 DEF ReadFrame
  <2>2. [[flow[i] EXCEPT !.lastId = flow[i].pos, !.pos = @ + 1, !.applied = @ + 1]
           EXCEPT !.known = TRUE, !.terminal = b] = f
    OBVIOUS
  <2>3. b \in BOOLEAN OBVIOUS
  <2>4. e \in Received BY <1>3, <1>5
  <2> HIDE DEF b, e
  <2>5. Step(i, f) BY <2>1, <2>2
  <2>6. b = (e.type \in {"task_finished", "task_error"}) BY DEF b
  <2> QED BY <1>2, <2>1, <2>3, <2>4, <2>5, <2>6 DEF e
<1> QED BY <1>4, <1>5

LEMMA ReadFrameTyped ==
  ASSUME TypeInv, NEW i \in 1..Len(flow), ReadFrame(i) PROVE TypeInv'
<1>1. PICK k \in BOOLEAN, b \in BOOLEAN :
        LET e == Frame(flow[i].task, flow[i].pos)
            f == [flow[i] EXCEPT !.lastId = flow[i].pos, !.pos = @ + 1, !.applied = @ + 1,
                                 !.known = k, !.terminal = b]
        IN /\ b => k
           /\ Step(i, f)
           /\ flow[i].task \in Tasks
           /\ \/ Quietly /\ k = flow[i].known /\ b = flow[i].terminal
              \/ /\ e \in Received /\ k
                 /\ b = (e.type \in {"task_finished", "task_error"})
                 /\ Show(applyEvent(store, flow[i].task, e))
  BY ReadFrameEffect
<1> DEFINE e == Frame(flow[i].task, flow[i].pos)
           f == [flow[i] EXCEPT !.lastId = flow[i].pos, !.pos = @ + 1, !.applied = @ + 1,
                                !.known = k, !.terminal = b]
<1>2. flow[i] \in Flows /\ FlowInv(flow[i]) BY FlowTyped
<1>3. f \in Flows /\ FlowInv(f) /\ f.task = flow[i].task
  <2>1. flow[i].kind = "stream" /\ flow[i].phase = "reading" /\ (~flow[i].terminal \/ flow[i].known)
    BY <1>2 DEF ReadFrame, FlowInv
  <2> QED BY <1>1, <2>1, TakenTyped
<1>4. ServerKept BY ServerUnchanged DEF ReadFrame
<1>5. store \in Stores /\ (store.taskId # NoTask => srv[store.taskId].status # None)
  BY DEF TypeInv, TypeOK, ExistInv, Exists
<1>6. srv[flow[i].task].status # None /\ srv' = srv /\ Step(i, f) /\ flow[i].task \in Tasks
  <2>1. flow[i].task # NoTask BY <1>1, ClientAssumption
  <2> QED BY <1>1, <2>1, FlowTyped DEF ReadFrame
<1>7. \E s \in Stores : (s.taskId # NoTask => srv[s.taskId].status # None) /\ Show(s)
  <2>1. CASE Quietly BY <2>1, <1>5, QuietShows
  <2>2. CASE e \in Received /\ Show(applyEvent(store, flow[i].task, e))
    <3>1. applyEvent(store, flow[i].task, e) \in Stores
          /\ applyEvent(store, flow[i].task, e).taskId = flow[i].task
      BY <1>5, <1>6, <2>2, EventTyped
    <3> QED BY <1>6, <2>2, <3>1
  <2> QED BY <1>1, <2>1, <2>2
<1>8. drops' \in 0..MaxDrops /\ UNCHANGED <<controller, cache, seen, overlapped>>
  BY DEF ReadFrame, TypeInv, TypeOK
<1> HIDE DEF f
<1> QED BY <1>3, <1>4, <1>6, <1>7, <1>8, FlowMoves

LEMMA StreamClosesTyped ==
  ASSUME TypeInv, NEW i \in 1..Len(flow), StreamCloses(i) PROVE TypeInv'
<1> DEFINE f == [flow[i] EXCEPT !.retrying = TRUE, !.attempt = 0]
<1>1. flow[i] \in Flows /\ FlowInv(flow[i]) BY FlowTyped
<1>2. f \in Flows /\ f.task = flow[i].task /\ f.kind = flow[i].kind /\ f.applied = flow[i].applied
      /\ f.lastId = flow[i].lastId /\ f.terminal = flow[i].terminal /\ f.known = flow[i].known
  <2>1. 0 \in 0..MAX_RECONNECTS BY ClientAssumption
  <2> QED BY <1>1, <2>1 DEF Flows
<1>3. flow[i].kind = "stream" /\ flow[i].task # NoTask /\ Loop(i, f) BY <1>1 DEF FlowInv, StreamCloses
<1>4. UNCHANGED <<srv, controller, cache, seen, overlapped>> /\ drops' \in 0..MaxDrops
  BY DropsTyped DEF StreamCloses
<1> HIDE DEF f
<1>5. f.kind = "stream" /\ f.applied = f.lastId + 1 /\ (f.terminal => f.known) /\ f.task # NoTask
  BY <1>1, <1>2, <1>3 DEF FlowInv
<1> QED BY <1>2, <1>3, <1>4, <1>5, SettledTyped

LEMMA StreamBreaksTyped ==
  ASSUME TypeInv, NEW i \in 1..Len(flow), StreamBreaks(i) PROVE TypeInv'
<1> DEFINE f == [flow[i] EXCEPT !.retrying = TRUE]
<1>1. flow[i] \in Flows /\ FlowInv(flow[i]) BY FlowTyped
<1>2. f \in Flows /\ f.task = flow[i].task /\ f.kind = flow[i].kind /\ f.applied = flow[i].applied
      /\ f.lastId = flow[i].lastId /\ f.terminal = flow[i].terminal /\ f.known = flow[i].known
  BY <1>1 DEF Flows
<1>3. flow[i].kind = "stream" /\ flow[i].task # NoTask /\ (Loop(i, f) \/ Thrown(i, flow[i]))
  BY <1>1 DEF FlowInv, StreamBreaks
<1>4. UNCHANGED <<srv, controller, cache, seen, overlapped>> /\ drops' \in 0..MaxDrops
  <2>1. Lose \/ UNCHANGED drops BY DEF StreamBreaks
  <2> QED BY <2>1, DropsTyped DEF StreamBreaks
<1> HIDE DEF f
<1>5. f.kind = "stream" /\ f.applied = f.lastId + 1 /\ (f.terminal => f.known) /\ f.task # NoTask
  BY <1>1, <1>2, <1>3 DEF FlowInv
<1>6. flow[i].applied = flow[i].lastId + 1 /\ (flow[i].terminal => flow[i].known) BY <1>1 DEF FlowInv
<1> QED BY <1>1, <1>2, <1>3, <1>4, <1>5, <1>6, SettledTyped

LEMMA StreamAbortedTyped ==
  ASSUME TypeInv, NEW i \in 1..Len(flow), StreamAborted(i) PROVE TypeInv'
<1>1. flow[i] \in Flows /\ FlowInv(flow[i]) BY FlowTyped
<1>2. UNCHANGED <<srv, controller, cache, seen, overlapped>> /\ drops' \in 0..MaxDrops
  BY DropsTyped DEF StreamAborted
<1>3. flow[i].applied = flow[i].lastId + 1 /\ (flow[i].terminal => flow[i].known) /\ flow[i].aborted
      /\ flow[i].kind = "stream" /\ (Returned(i, flow[i]) \/ Thrown(i, flow[i]))
  BY <1>1 DEF FlowInv, StreamAborted
<1> QED BY <1>1, <1>2, <1>3, SettledTyped

\* A flow goes to another phase of its stream, and the page shows nothing of it.
LEMMA StepTyped ==
  ASSUME TypeInv, NEW i \in 1..Len(flow), NEW f \in Flows, FlowInv(f), f.task = flow[i].task,
         Step(i, f), Quietly, UNCHANGED <<srv, controller, cache, seen, drops, overlapped>>
  PROVE  TypeInv'
<1>1. ServerKept BY ServerUnchanged
<1>2. store \in Stores /\ (store.taskId # NoTask => srv'[store.taskId].status # None)
  BY DEF TypeInv, TypeOK, ExistInv, Exists
<1>3. f.task # NoTask => srv'[f.task].status # None BY FlowTyped
<1>4. drops' \in 0..MaxDrops BY DropsTyped
<1> QED BY <1>1, <1>2, <1>3, <1>4, QuietShows, FlowMoves

LEMMA WakeTyped ==
  ASSUME TypeInv, NEW i \in 1..Len(flow), Wake(i) PROVE TypeInv'
<1> DEFINE a == flow[i].attempt + 1
           f == [flow[i] EXCEPT !.phase = "opening", !.attempt = a]
<1>1. flow[i] \in Flows /\ FlowInv(flow[i]) BY FlowTyped
<1>2. a \in 0..MAX_RECONNECTS
  <2>1. flow[i].attempt \in 0..MAX_RECONNECTS /\ flow[i].attempt < MAX_RECONNECTS
    BY <1>1 DEF Flows, FlowInv, Wake
  <2> QED BY <2>1, ClientAssumption
<1>3. Step(i, f) /\ Quietly /\ UNCHANGED <<srv, controller, cache, seen, drops, overlapped>>
  BY DEF Wake, Quietly
<1> HIDE DEF a
<1>4. f \in Flows /\ f.task = flow[i].task BY <1>1, <1>2 DEF Flows
<1>5. FlowInv(f) BY <1>1 DEF FlowInv, Flows, Wake
<1> QED BY <1>3, <1>4, <1>5, StepTyped

LEMMA ReconnectTyped ==
  ASSUME TypeInv, NEW i \in 1..Len(flow), Reconnect(i) PROVE TypeInv'
<1>1. flow[i] \in Flows /\ FlowInv(flow[i]) BY FlowTyped
<1>2. UNCHANGED <<srv, controller, cache, seen, overlapped>> /\ drops' \in 0..MaxDrops
  <2>1. Lose \/ UNCHANGED drops BY DEF Reconnect
  <2> QED BY <2>1, DropsTyped DEF Reconnect
<1>3. /\ flow[i].kind = "stream" /\ flow[i].phase \in {"opening", "opened"}
      /\ flow[i].applied = flow[i].lastId + 1 /\ (flow[i].terminal => flow[i].known)
      /\ flow[i].task # NoTask
  BY <1>1 DEF FlowInv, Reconnect
<1>4. CASE Thrown(i, flow[i]) \/ Loop(i, flow[i])
  BY <1>1, <1>2, <1>3, <1>4, SettledTyped
<1>5. CASE flow[i].phase = "opening" /\ Step(i, [flow[i] EXCEPT !.phase = "opened"])
           /\ Quietly /\ UNCHANGED drops
  <2> DEFINE f == [flow[i] EXCEPT !.phase = "opened"]
  <2>1. f \in Flows /\ f.task = flow[i].task BY <1>1 DEF Flows
  <2>2. FlowInv(f) BY <1>1, <1>5 DEF FlowInv, Flows
  <2> QED BY <1>2, <1>5, <2>1, <2>2, StepTyped
<1>6. CASE flow[i].phase = "opened" /\ Quietly /\ UNCHANGED drops
           /\ Step(i, [flow[i] EXCEPT !.phase = "reading", !.pos = flow[i].lastId + 1])
  <2> DEFINE n == flow[i].lastId + 1
             f == [flow[i] EXCEPT !.phase = "reading", !.pos = n]
  <2>1. n \in Nat
    <3>1. flow[i].lastId \in Nat \cup {-1} BY <1>1 DEF Flows
    <3> QED BY <3>1
  <2>2. n = flow[i].lastId + 1 OBVIOUS
  <2>3. Step(i, f) BY <1>6
  <2> HIDE DEF n
  <2>4. f \in Flows /\ f.task = flow[i].task BY <1>1, <2>1 DEF Flows
  <2>5. FlowInv(f) BY <1>1, <1>6, <2>2 DEF FlowInv, Flows
  <2> QED BY <1>2, <1>6, <2>3, <2>4, <2>5, StepTyped
<1> QED BY <1>4, <1>5, <1>6 DEF Reconnect

\* A request about a task is answered.  The server's answer to a resume is its word
\* on the task.
LEMMA AnswersTyped ==
  ASSUME TypeInv, NEW i \in 1..Len(flow), Answers(i) PROVE TypeInv'
<1> DEFINE t == flow[i].task
<1>1. flow[i] \in Flows /\ FlowInv(flow[i]) BY FlowTyped
<1>2. flow[i].kind \in {"select", "resume"} /\ flow[i].phase = "asked" /\ t # NoTask
  BY <1>1 DEF FlowInv, Answers
<1>3. t \in Tasks /\ Exists(t) /\ srv[t] \in Servers BY <1>2, FlowTyped DEF Exists
<1>4. Snapshot(t) \in Snapshots BY <1>3, SnapshotTyped
<1>5. \A a \in Snapshots :
        LET f == [flow[i] EXCEPT !.phase = "answered", !.answer = a]
        IN  f \in Flows /\ FlowInv(f) /\ f.task = t
  <2> SUFFICES ASSUME NEW a \in Snapshots
               PROVE  LET f == [flow[i] EXCEPT !.phase = "answered", !.answer = a]
                      IN  f \in Flows /\ FlowInv(f) /\ f.task = t
    OBVIOUS
  <2> DEFINE f == [flow[i] EXCEPT !.phase = "answered", !.answer = a]
  <2>1. f \in Flows BY <1>1 DEF Flows
  <2>2. FlowInv(f) BY <1>1, <1>2 DEF FlowInv, Flows
  <2>3. f.task = t BY <1>1 DEF Flows
  <2> QED BY <2>1, <2>2, <2>3
<1>6. store \in Stores /\ (store.taskId # NoTask => store.taskId \in Tasks /\ Exists(store.taskId))
  BY DEF TypeInv, TypeOK, ExistInv, Stores
<1>7. UNCHANGED <<controller, cache, seen, overlapped>> /\ drops' \in 0..MaxDrops /\ Show(store)
  BY DropsTyped DEF Answers, Show
<1>8. ASSUME NEW a \in Snapshots, ServerKept,
             Step(i, [flow[i] EXCEPT !.phase = "answered", !.answer = a])
      PROVE  TypeInv'
  <2>1. srv'[t].status # None BY <1>3, <1>8 DEF ServerKept, Exists
  <2>2. store.taskId # NoTask => srv'[store.taskId].status # None BY <1>6, <1>8 DEF ServerKept, Exists
  <2> QED BY <1>5, <1>6, <1>7, <1>8, <2>1, <2>2, FlowMoves
<1>9. CASE flow[i].kind = "select"
  <2>1. Step(i, [flow[i] EXCEPT !.phase = "answered", !.answer = Snapshot(t)]) /\ UNCHANGED srv
    BY <1>9 DEF Answers
  <2> QED BY <1>4, <1>8, <2>1, ServerUnchanged
<1>10. CASE flow[i].kind # "select"
  <2>1. PICK s \in Outcomes :
          /\ srv' = [srv EXCEPT ![t].status = s, ![t].review = ReviewOf(s)]
          /\ Step(i, [flow[i] EXCEPT !.phase = "answered",
                        !.answer = [Snapshot(t) EXCEPT !.status = s, !.review = ReviewOf(s)]])
    BY <1>10 DEF Answers
  <2>2. s \in Statuses /\ s # None BY ClientAssumption DEF Statuses, None
  <2>3. ReviewOf(s) \in Decisions BY ReviewTyped
  <2>4. [Snapshot(t) EXCEPT !.status = s, !.review = ReviewOf(s)] \in Snapshots
    BY <1>4, <2>2, <2>3 DEF Snapshots
  <2> DEFINE r == [srv[t] EXCEPT !.status = s, !.review = ReviewOf(s)]
  <2>5. srv \in [Tasks -> Servers] /\ SrvInv BY DEF TypeInv, TypeOK
  <2>6. srv' = [srv EXCEPT ![t] = r] BY <1>3, <2>1, <2>5
  <2>7. r \in Servers /\ r.status = s /\ r.live = srv[t].live /\ r.done = srv[t].done /\ r.frames = srv[t].frames
    BY <1>3, <2>2, <2>3 DEF Servers
  <2> HIDE DEF r, t
  <2>8. srv'[t] = r /\ \A u \in Tasks : u # t => srv'[u] = srv[u] BY <1>3, <2>5, <2>6
  <2>9. ServerKept
    <3>1. srv' \in [Tasks -> Servers] BY <2>5, <2>6, <2>7
    <3>2. SrvInv' BY <2>2, <2>5, <2>7, <2>8 DEF SrvInv, Exists
    <3>3. \A u \in Tasks : Exists(u) => Exists(u)' BY <2>2, <2>7, <2>8 DEF Exists
    <3> QED BY <3>1, <3>2, <3>3 DEF ServerKept
  <2>10. Step(i, [flow[i] EXCEPT !.phase = "answered",
                    !.answer = [Snapshot(t) EXCEPT !.status = s, !.review = ReviewOf(s)]])
    BY <2>1
  <2> QED BY <1>8, <2>4, <2>9, <2>10
<1> QED BY <1>9, <1>10

\* A request is over, and what it brought is shown.
LEMMA RequestEndsTyped ==
  ASSUME TypeInv, NEW i \in 1..Len(flow), flow[i].kind # "stream", Step(i, Ended(flow[i])),
         NEW s \in Stores, s.taskId \in {store.taskId, flow[i].task}, Show(s),
         UNCHANGED <<srv, controller, cache, seen, overlapped>>, Lose \/ UNCHANGED drops
  PROVE  TypeInv'
<1>1. flow[i] \in Flows /\ FlowInv(flow[i]) BY FlowTyped
<1>2. flow[i].task # NoTask /\ flow[i].applied = flow[i].lastId + 1 /\ (flow[i].terminal => flow[i].known)
  BY <1>1 DEF FlowInv
<1>3. Ended(flow[i]) \in Flows /\ FlowInv(Ended(flow[i])) BY <1>1, <1>2, EndedTyped
<1>4. Ended(flow[i]).task = flow[i].task BY <1>1 DEF Ended, Flows
<1>5. srv[flow[i].task].status # None BY <1>2, FlowTyped
<1>6. store.taskId # NoTask => srv[store.taskId].status # None BY DEF TypeInv, ExistInv, Exists
<1>7. ServerKept BY ServerUnchanged
<1>8. drops' \in 0..MaxDrops BY DropsTyped
<1> QED BY <1>3, <1>4, <1>5, <1>6, <1>7, <1>8, FlowMoves

LEMMA SelectEndsTyped ==
  ASSUME TypeInv, NEW i \in 1..Len(flow), SelectEnds(i) PROVE TypeInv'
<1> DEFINE f == flow[i]
           shown == applySnapshot(store, f.task, f.answer)
<1>1. f \in Flows /\ FlowInv(f) /\ store \in Stores BY FlowTyped DEF TypeInv, TypeOK
<1>2. f.kind = "select" /\ f.task # NoTask BY <1>1 DEF FlowInv, SelectEnds
<1>3. f.task \in Tasks BY <1>1, <1>2 DEF Flows
<1>4. /\ Step(i, Ended(f)) /\ UNCHANGED <<srv, controller, cache, seen, overlapped>>
      /\ Lose \/ UNCHANGED drops
  BY DEF SelectEnds
<1>5. CASE f.phase = "answered" /\ Show(IF f.answer.status = "running" THEN markInterrupted(shown) ELSE shown)
  <2>1. f.answer \in Snapshots BY <1>1, <1>5 DEF FlowInv
  <2>2. shown \in Stores /\ shown.taskId = f.task BY <1>1, <1>3, <2>1, FoldTyped
  <2>3. markInterrupted(shown) \in Stores /\ markInterrupted(shown).taskId = f.task
    BY <1>3, <2>1, <2>2, FoldTyped
  <2> HIDE DEF shown
  <2>4. CASE f.answer.status = "running" BY <1>2, <1>4, <1>5, <2>3, <2>4, RequestEndsTyped
  <2>5. CASE f.answer.status # "running" BY <1>2, <1>4, <1>5, <2>2, <2>5, RequestEndsTyped
  <2> QED BY <2>4, <2>5
<1>6. CASE Show([applyUnread(store, f.task) EXCEPT !.connection = "offline"])
  <2> DEFINE s == [applyUnread(store, f.task) EXCEPT !.connection = "offline"]
  <2>1. s \in Stores /\ s.taskId = f.task BY <1>1, <1>3 DEF applyUnread, Stores
  <2> QED BY <1>2, <1>4, <1>6, <2>1, RequestEndsTyped
<1> QED BY <1>5, <1>6 DEF SelectEnds

LEMMA ResumeEndsTyped ==
  ASSUME TypeInv, NEW i \in 1..Len(flow), ResumeEnds(i) PROVE TypeInv'
<1> DEFINE f == flow[i]
<1>1. f \in Flows /\ FlowInv(f) /\ store \in Stores BY FlowTyped DEF TypeInv, TypeOK
<1>2. f.kind = "resume" /\ f.task # NoTask BY <1>1 DEF FlowInv, ResumeEnds
<1>3. f.task \in Tasks BY <1>1, <1>2 DEF Flows
<1>4. /\ Step(i, Ended(f)) /\ UNCHANGED <<srv, controller, cache, seen, overlapped>>
      /\ Lose \/ UNCHANGED drops
  BY DEF ResumeEnds
<1>5. CASE f.phase = "answered" /\ Show([applySnapshot(store, f.task, f.answer) EXCEPT !.resuming = FALSE])
  <2>1. f.answer \in Snapshots BY <1>1, <1>5 DEF FlowInv
  <2> DEFINE a == applySnapshot(store, f.task, f.answer)
  <2>2. a \in Stores /\ a.taskId = f.task BY <1>1, <1>3, <2>1, FoldTyped
  <2> HIDE DEF a
  <2>3. [a EXCEPT !.resuming = FALSE] \in Stores /\ [a EXCEPT !.resuming = FALSE].taskId = f.task
    BY <2>2 DEF Stores
  <2>4. Show([a EXCEPT !.resuming = FALSE]) BY <1>5 DEF a
  <2> QED BY <1>2, <1>4, <2>3, <2>4, RequestEndsTyped
<1>6. CASE Show([store EXCEPT !.resuming = FALSE])
  <2>1. [store EXCEPT !.resuming = FALSE] \in Stores
        /\ [store EXCEPT !.resuming = FALSE].taskId = store.taskId
    BY <1>1 DEF Stores
  <2> QED BY <1>2, <1>4, <1>6, <2>1, RequestEndsTyped
<1>7. CASE Show([store EXCEPT !.resuming = FALSE, !.connection = "offline"])
  <2>1. [store EXCEPT !.resuming = FALSE, !.connection = "offline"] \in Stores
        /\ [store EXCEPT !.resuming = FALSE, !.connection = "offline"].taskId = store.taskId
    BY <1>1 DEF Stores
  <2> QED BY <1>2, <1>4, <1>7, <2>1, RequestEndsTyped
<1> QED BY <1>5, <1>6, <1>7 DEF ResumeEnds

\* A live run stops, with an outcome or an error.
LEMMA RunStops ==
  ASSUME TypeInv, NEW t \in Tasks, srv[t].live, NEW r \in Servers,
         srv' = [srv EXCEPT ![t] = r],
         r.status # None, r.frames = srv[t].frames + 1, r.done, ~r.live
  PROVE  ServerKept
<1>1. srv \in [Tasks -> Servers] /\ SrvInv BY DEF TypeInv, TypeOK
<1>2. srv'[t] = r /\ \A u \in Tasks : u # t => srv'[u] = srv[u] BY <1>1
<1>3. srv[t].frames \in 1..Len(Script) + 1 /\ Len(Script) \in Nat BY <1>1, ClientAssumption DEF SrvInv
<1>4. r.frames \in 2..Len(Script) + 2
  <2> DEFINE n == srv[t].frames
  <2> HIDE DEF n
  <2>1. n \in 1..Len(Script) + 1 /\ r.frames = n + 1 BY <1>3 DEF n
  <2> QED BY <1>3, <2>1
<1>5. srv' \in [Tasks -> Servers] BY <1>1
<1>6. SrvInv' BY <1>1, <1>2, <1>4 DEF SrvInv, Exists
<1>7. \A u \in Tasks : Exists(u) => Exists(u)' BY <1>2 DEF Exists
<1> QED BY <1>5, <1>6, <1>7 DEF ServerKept

\* How a run ends: with an outcome, or with an error.
LEMMA FinishedTyped ==
  ASSUME NEW s \in Servers, NEW o \in Outcomes
  PROVE  /\ Finished(s, o) \in Servers /\ Finished(s, o).status = o
         /\ Finished(s, o).frames = s.frames + 1 /\ Finished(s, o).done /\ ~Finished(s, o).live
         /\ Finished(s, o).review = ReviewOf(o)
<1> DEFINE n == s.frames + 1
           r == [s EXCEPT !.status = o, !.review = ReviewOf(o), !.frames = n,
                          !.done = TRUE, !.live = FALSE]
<1>1. n \in Nat /\ n = s.frames + 1 BY DEF Servers
<1>2. Finished(s, o) = r BY DEF Finished
<1>3. o \in Statuses /\ ReviewOf(o) \in Decisions BY ClientAssumption, ReviewTyped
<1> HIDE DEF n
<1>4. r \in Servers /\ r.status = o /\ r.frames = n /\ r.done /\ ~r.live /\ r.review = ReviewOf(o)
  BY <1>1, <1>3 DEF Servers
<1> QED BY <1>1, <1>2, <1>4

LEMMA FailedTyped ==
  ASSUME NEW s \in Servers
  PROVE  /\ Failed(s) \in Servers /\ Failed(s).status = s.status /\ Failed(s).review = s.review
         /\ Failed(s).frames = s.frames + 1 /\ Failed(s).done /\ ~Failed(s).live
<1> DEFINE n == s.frames + 1
           r == [s EXCEPT !.error = TRUE, !.frames = n, !.done = TRUE, !.live = FALSE]
<1>1. n \in Nat /\ n = s.frames + 1 BY DEF Servers
<1>2. Failed(s) = r BY DEF Failed
<1> HIDE DEF n
<1>3. r \in Servers /\ r.status = s.status /\ r.frames = n /\ r.done /\ ~r.live /\ r.review = s.review
  BY <1>1 DEF Servers
<1> QED BY <1>1, <1>2, <1>3

LEMMA CancelledTyped ==
  ASSUME TypeInv, NEW t \in Tasks, srv[t].live, srv' = [srv EXCEPT ![t] = Failed(srv[t])]
  PROVE  ServerKept
<1>1. srv[t] \in Servers /\ srv[t].status # None BY DEF TypeInv, TypeOK, SrvInv, Exists
<1> QED BY <1>1, FailedTyped, RunStops

LEMMA handleStopTyped ==
  ASSUME TypeInv, handleStop PROVE TypeInv'
<1>1. store \in Stores /\ store.taskId \in Tasks
  BY DEF TypeInv, TypeOK, handleStop, canStop, Stores
<1>2. ServerKept
  <2>1. CASE UNCHANGED srv BY <2>1, ServerUnchanged
  <2>2. CASE ~(UNCHANGED srv) BY <1>1, <2>2, CancelledTyped DEF handleStop
  <2> QED BY <2>1, <2>2
<1>3. flow' \in Seq(Flows) /\ Len(flow') = Len(flow) /\ flow' = Aborted BY AbortedTyped DEF handleStop
<1>4. Len(flow') <= MaxClicks /\ controller' \in 0..Len(flow') BY <1>3 DEF TypeInv, TypeOK, handleStop
<1>5. \A j \in 1..Len(flow') :
        FlowInv(flow'[j]) /\ (flow'[j].task # NoTask => srv'[flow'[j].task].status # None)
  <2> SUFFICES ASSUME NEW j \in 1..Len(flow)
               PROVE  FlowInv(Aborted[j]) /\ (Aborted[j].task # NoTask => srv'[Aborted[j].task].status # None)
    BY <1>3
  <2>1. FlowInv(Aborted[j]) /\ Aborted[j] = [flow[j] EXCEPT !.aborted = flow[j].aborted \/ j = controller]
    BY AbortedTyped
  <2>2. flow[j] \in Flows BY DEF TypeInv, TypeOK
  <2>3. Aborted[j].task = flow[j].task BY <2>1, <2>2 DEF Flows
  <2>4. flow[j].task # NoTask => flow[j].task \in Tasks /\ Exists(flow[j].task)
    BY FlowTyped DEF Exists
  <2>5. flow[j].task # NoTask => srv'[flow[j].task].status # None BY <1>2, <2>4 DEF ServerKept, Exists
  <2> QED BY <2>1, <2>3, <2>5
<1>6. markInterrupted(store) \in Stores /\ markInterrupted(store).taskId = store.taskId
  BY <1>1 DEF markInterrupted, Stores
<1>7. srv'[store.taskId].status # None
  <2>1. store.taskId # NoTask BY <1>1, ClientAssumption
  <2> QED BY <1>1, <1>2, <2>1 DEF TypeInv, ExistInv, ServerKept, Exists
<1>8. /\ cache' = cache /\ seen' \in [task : Tasks \cup {NoTask}, data : Snapshots \cup {NoData}]
      /\ drops' \in 0..MaxDrops /\ overlapped' \in BOOLEAN /\ Show(markInterrupted(store))
  BY DEF TypeInv, TypeOK, handleStop
<1> QED BY <1>2, <1>3, <1>4, <1>5, <1>6, <1>7, <1>8, PageMoves

LEMMA PollAsksTyped ==
  ASSUME TypeInv, PollAsks PROVE TypeInv'
<1> USE DEF TypeInv
<1>1. store \in Stores /\ store.taskId # NoTask /\ Exists(store.taskId)
  BY DEF TypeOK, PollAsks, ExistInv
<1>2. Snapshot(store.taskId) \in Snapshots BY <1>1, SnapshotTyped DEF Stores
<1>3. TypeOK' BY <1>2 DEF TypeOK, PollAsks, QueryOnly
<1>4. SrvInv' BY DEF SrvInv, Exists, PollAsks, QueryOnly
<1>5. FlowsInv' BY DEF FlowsInv, PollAsks, QueryOnly
<1>6. ExistInv' BY <1>1 DEF ExistInv, Exists, PollAsks, QueryOnly
<1> QED BY <1>3, <1>4, <1>5, <1>6

LEMMA PollAnswersTyped ==
  ASSUME TypeInv, PollAnswers PROVE TypeInv'
<1> USE DEF TypeInv
<1>1. store \in Stores /\ store.taskId # NoTask /\ Exists(store.taskId)
  BY DEF TypeOK, PollAnswers, ExistInv
<1>2. store.taskId \in Tasks BY <1>1 DEF Stores
<1>3. poll.answer \in Snapshots \cup {NoData} BY DEF TypeOK
<1>4. cache' = cache \/ cache' = [cache EXCEPT ![store.taskId] = poll.answer] BY DEF PollAnswers
<1>5. drops' \in 0..MaxDrops
  <2>1. Lose \/ UNCHANGED drops BY DEF PollAnswers
  <2> QED BY <2>1, DropsTyped
<1>6. UNCHANGED <<srv, flow, store, controller, seen, overlapped>>
      /\ poll' = [phase |-> "idle", answer |-> NoData]
  BY DEF PollAnswers, QueryOnly
<1>7. cache' \in [Tasks -> Snapshots \cup {NoData}] BY <1>2, <1>3, <1>4 DEF TypeOK
<1>8. TypeOK' BY <1>5, <1>6, <1>7 DEF TypeOK
<1>9. SrvInv' BY <1>6 DEF SrvInv, Exists
<1>10. FlowsInv' BY <1>6 DEF FlowsInv
<1>11. ExistInv'
  <2>1. cache \in [Tasks -> Snapshots \cup {NoData}] BY DEF TypeOK
  <2>2. \A t \in Tasks : cache'[t] # NoData => Exists(t)
    BY <1>1, <1>2, <1>4, <2>1 DEF ExistInv
  <2> QED BY <1>6, <2>2 DEF ExistInv, Exists
<1> QED BY <1>8, <1>9, <1>10, <1>11

\* What the query finds for the task in view.
LEMMA QueryTyped ==
  ASSUME TypeInv
  PROVE  /\ QueryData \in [task : Tasks \cup {NoTask}, data : Snapshots \cup {NoData}]
         /\ QueryData.task # NoTask =>
              /\ QueryData.task = store.taskId /\ store.taskId \in Tasks
              /\ QueryData.data = cache[store.taskId] /\ QueryData.data \in Snapshots
         /\ QueryData.task = NoTask =>
              store.taskId = NoTask \/ cache[store.taskId] = NoData
<1>1. store \in Stores /\ cache \in [Tasks -> Snapshots \cup {NoData}] BY DEF TypeInv, TypeOK
<1>2. store.taskId \in Tasks \cup {NoTask} BY <1>1 DEF Stores
<1>3. CASE store.taskId = NoTask \/ cache[store.taskId] = NoData
  BY <1>3 DEF QueryData
<1>4. CASE store.taskId # NoTask /\ cache[store.taskId] # NoData
  BY <1>1, <1>2, <1>4 DEF QueryData
<1> QED BY <1>3, <1>4

LEMMA ApplyQueryDataTyped ==
  ASSUME TypeInv, ApplyQueryData PROVE TypeInv'
<1>1. ServerKept BY ServerUnchanged DEF ApplyQueryData, QueryOnly
<1>2. store \in Stores /\ (store.taskId # NoTask => srv'[store.taskId].status # None)
  BY DEF TypeInv, TypeOK, ExistInv, Exists, ApplyQueryData, QueryOnly
<1>3. \E s \in Stores : s.taskId = store.taskId /\ Show(s)
  <2>1. CASE QueryData.task = NoTask BY <1>2, <2>1, QuietShows DEF ApplyQueryData
  <2>2. CASE QueryData.task # NoTask
    <3> DEFINE s == applySnapshot(store, QueryData.task, QueryData.data)
    <3>1. s \in Stores /\ s.taskId = store.taskId BY <1>2, <2>2, QueryTyped, FoldTyped
    <3>2. Show(s) BY <2>2 DEF ApplyQueryData
    <3> QED BY <3>1, <3>2
  <2> QED BY <2>1, <2>2
<1>4. \A j \in 1..Len(flow) :
        FlowInv(flow[j]) /\ (flow[j].task # NoTask => srv'[flow[j].task].status # None)
  BY FlowTyped DEF ApplyQueryData, QueryOnly
<1>5. UNCHANGED <<flow, controller, cache, drops, overlapped>> /\ seen' = QueryData
  BY DEF ApplyQueryData, QueryOnly
<1>6. flow' \in Seq(Flows) /\ Len(flow') <= MaxClicks /\ controller' \in 0..Len(flow')
      /\ drops' \in 0..MaxDrops /\ overlapped' \in BOOLEAN
  BY <1>5 DEF TypeInv, TypeOK
<1> QED BY <1>1, <1>2, <1>3, <1>4, <1>5, <1>6, QueryTyped, PageMoves

LEMMA SafetyNetTyped ==
  ASSUME TypeInv, SafetyNet PROVE TypeInv'
<1>1. ServerKept BY ServerUnchanged DEF SafetyNet, QueryOnly
<1>2. store \in Stores /\ (store.taskId # NoTask => srv'[store.taskId].status # None)
  BY DEF TypeInv, TypeOK, ExistInv, Exists, SafetyNet, QueryOnly
<1>3. markInterrupted(store) \in Stores /\ markInterrupted(store).taskId = store.taskId
  BY <1>2 DEF markInterrupted, Stores
<1>4. \A j \in 1..Len(flow) :
        FlowInv(flow[j]) /\ (flow[j].task # NoTask => srv'[flow[j].task].status # None)
  BY FlowTyped DEF SafetyNet, QueryOnly
<1>5. UNCHANGED <<flow, controller, cache, seen, drops, overlapped>> /\ Show(markInterrupted(store))
  BY DEF SafetyNet, QueryOnly
<1>6. flow' \in Seq(Flows) /\ Len(flow') <= MaxClicks /\ controller' \in 0..Len(flow')
      /\ drops' \in 0..MaxDrops /\ overlapped' \in BOOLEAN
      /\ seen' \in [task : Tasks \cup {NoTask}, data : Snapshots \cup {NoData}]
  BY <1>5 DEF TypeInv, TypeOK
<1> QED BY <1>1, <1>2, <1>3, <1>4, <1>5, <1>6, PageMoves

\* The server moves by itself: a run streams, ends, or is forgotten.
LEMMA ServerTyped ==
  ASSUME TypeInv, NEW t \in Tasks, Server(t) PROVE TypeInv'
<1> DEFINE s == srv[t]
<1>1. srv \in [Tasks -> Servers] /\ SrvInv /\ s \in Servers BY DEF TypeInv, TypeOK
<1>2. ASSUME ServerKept, ServerOnly PROVE TypeInv'
  <2>1. store \in Stores /\ (store.taskId # NoTask => srv'[store.taskId].status # None)
    <3>1. store \in Stores BY DEF TypeInv, TypeOK
    <3>2. store.taskId # NoTask => store.taskId \in Tasks /\ Exists(store.taskId)
      BY <3>1 DEF TypeInv, ExistInv, Stores
    <3> QED BY <1>2, <3>1, <3>2 DEF ServerKept, Exists
  <2>2. \A j \in 1..Len(flow) :
          FlowInv(flow[j]) /\ (flow[j].task # NoTask => srv'[flow[j].task].status # None)
    <3> SUFFICES ASSUME NEW j \in 1..Len(flow)
                 PROVE  FlowInv(flow[j]) /\ (flow[j].task # NoTask => srv'[flow[j].task].status # None)
      OBVIOUS
    <3>1. flow[j].task # NoTask => flow[j].task \in Tasks /\ Exists(flow[j].task)
      BY FlowTyped DEF Exists
    <3> QED BY <1>2, <3>1, FlowTyped DEF ServerKept, Exists
  <2>3. UNCHANGED <<flow, controller, cache, seen, drops, overlapped>> /\ Show(store)
    BY <1>2 DEF ServerOnly, Show
  <2>4. flow' \in Seq(Flows) /\ Len(flow') <= MaxClicks /\ controller' \in 0..Len(flow')
        /\ drops' \in 0..MaxDrops /\ overlapped' \in BOOLEAN
        /\ seen' \in [task : Tasks \cup {NoTask}, data : Snapshots \cup {NoData}]
    BY <2>3 DEF TypeInv, TypeOK
  <2> QED BY <1>2, <2>1, <2>2, <2>3, <2>4, PageMoves
<1>3. CASE RunEmits(t)
  <2> DEFINE event == Script[s.frames]
             n == s.frames + 1
             v == IF event.type = "node_end" /\ event.role = "reviewer" THEN event.decision ELSE s.review
             r == [s EXCEPT !.frames = n, !.review = v]
  <2>1. s.live /\ Exists(t) /\ ~s.done /\ s.frames \in 1..Len(Script)
    <3>1. s.live /\ s.frames <= Len(Script) BY <1>3 DEF RunEmits
    <3>2. Exists(t) /\ ~s.done /\ s.frames \in 1..Len(Script) + 1 /\ Len(Script) \in Nat
      BY <1>1, <3>1, ClientAssumption DEF SrvInv
    <3> QED BY <3>1, <3>2
  <2>2. event \in Events BY <2>1, ClientAssumption
  <2>3. v \in Decisions \cup {None}
    <3>1. event.type = "node_end" => event.decision \in Decisions \cup {None} BY <2>2 DEF Events
    <3>2. s.review \in Decisions \cup {None} BY <1>1 DEF Servers
    <3> QED BY <3>1, <3>2
  <2>4. n \in 1..Len(Script) + 1 /\ n \in Nat
    <3>1. Len(Script) \in Nat BY ClientAssumption
    <3> DEFINE m == s.frames
    <3>2. m \in 1..Len(Script) /\ n = m + 1 BY <2>1
    <3> HIDE DEF m, n
    <3> QED BY <3>1, <3>2
  <2>5. srv' = [srv EXCEPT ![t] = r]
    <3>1. srv' = [srv EXCEPT ![t].frames = @ + 1,
                            ![t].review = IF event.type = "node_end" /\ event.role = "reviewer"
                                          THEN event.decision ELSE @]
      BY <1>3 DEF RunEmits
    <3> QED BY <1>1, <3>1
  <2> HIDE DEF v, n
  <2>6. r \in Servers /\ r.status = s.status /\ r.frames = n /\ r.live = s.live /\ r.done = s.done
    BY <1>1, <2>3, <2>4 DEF Servers
  <2> HIDE DEF r
  <2>7. srv'[t] = r /\ \A u \in Tasks : u # t => srv'[u] = srv[u] BY <1>1, <2>5
  <2>8. ServerKept
    <3>1. srv' \in [Tasks -> Servers] BY <1>1, <2>5, <2>6
    <3>2. n <= Len(Script) + 1 BY <2>4, ClientAssumption
    <3>3. SrvInv' BY <1>1, <2>1, <2>4, <2>6, <2>7, <3>2 DEF SrvInv, Exists
    <3>4. \A u \in Tasks : Exists(u) => Exists(u)' BY <2>6, <2>7 DEF Exists
    <3> QED BY <3>1, <3>3, <3>4 DEF ServerKept
  <2> QED BY <1>2, <1>3, <2>8 DEF RunEmits
<1>4. CASE RunEnds(t)
  <2>1. s.live BY <1>4 DEF RunEnds
  <2>2. CASE \E o \in Outcomes : srv' = [srv EXCEPT ![t] = Finished(srv[t], o)]
    <3>1. PICK o \in Outcomes : srv' = [srv EXCEPT ![t] = Finished(srv[t], o)] BY <2>2
    <3>2. o # None BY ClientAssumption DEF Statuses, None
    <3> DEFINE r == Finished(srv[t], o)
    <3>3. r \in Servers /\ r.status = o /\ r.frames = srv[t].frames + 1 /\ r.done /\ ~r.live
      BY <1>1, FinishedTyped
    <3>4. srv' = [srv EXCEPT ![t] = r] BY <3>1
    <3> HIDE DEF r
    <3>5. ServerKept BY <2>1, <3>2, <3>3, <3>4, RunStops
    <3> QED BY <1>2, <1>4, <3>5 DEF RunEnds
  <2>3. CASE srv' = [srv EXCEPT ![t] = Failed(srv[t])]
    BY <1>2, <1>4, <2>1, <2>3, CancelledTyped DEF RunEnds
  <2> QED BY <1>4, <2>2, <2>3 DEF RunEnds
<1>5. CASE RunForgotten(t)
  <2> DEFINE r == [s EXCEPT !.kept = FALSE, !.live = FALSE]
  <2>1. srv' = [srv EXCEPT ![t] = r]
    <3>1. srv' = [srv EXCEPT ![t].kept = FALSE, ![t].live = FALSE] BY <1>5 DEF RunForgotten
    <3> QED BY <1>1, <3>1
  <2>2. r \in Servers /\ r.status = s.status /\ r.frames = s.frames /\ ~r.live /\ r.done = s.done
    BY <1>1 DEF Servers
  <2> HIDE DEF r
  <2>3. srv'[t] = r /\ \A u \in Tasks : u # t => srv'[u] = srv[u] BY <1>1, <2>1
  <2>4. ServerKept
    <3>1. srv' \in [Tasks -> Servers] BY <1>1, <2>1, <2>2
    <3>2. SrvInv' BY <1>1, <2>2, <2>3 DEF SrvInv, Exists
    <3>3. \A u \in Tasks : Exists(u) => Exists(u)' BY <2>2, <2>3 DEF Exists
    <3> QED BY <3>1, <3>2, <3>3 DEF ServerKept
  <2> QED BY <1>2, <1>5, <2>4 DEF RunForgotten
<1> QED BY <1>3, <1>4, <1>5 DEF Server

\* At the start nothing is on view and nothing is under way.
LEMMA InitTyped ==
  ASSUME Init PROVE TypeInv
<1>1. PICK s \in Outcomes :
        srv = [t \in Tasks |-> IF t \in History
                               THEN [Unborn EXCEPT !.status = s, !.review = ReviewOf(s)]
                               ELSE Unborn]
  BY DEF Init
<1> DEFINE old == [Unborn EXCEPT !.status = s, !.review = ReviewOf(s)]
<1>2. s \in Statuses /\ ReviewOf(s) \in Decisions BY ClientAssumption, ReviewTyped
<1>3. Unborn \in Servers /\ ~Unborn.live /\ ~Unborn.done /\ Unborn.frames = 0 BY DEF Unborn, Servers, None
<1>4. old \in Servers /\ ~old.live /\ ~old.done /\ old.frames = 0
  BY <1>2 DEF Unborn, Servers, None
<1> HIDE DEF old
<1>5. srv = [t \in Tasks |-> IF t \in History THEN old ELSE Unborn] BY <1>1 DEF old
<1>6. srv \in [Tasks -> Servers] BY <1>3, <1>4, <1>5
<1>7. SrvInv
  <2>1. Len(Script) \in Nat BY ClientAssumption
  <2>2. 0 <= Len(Script) + 1 BY <2>1
  <2> QED BY <1>3, <1>4, <1>5, <2>2 DEF SrvInv
<1>8. initialState \in Stores /\ initialState.taskId = NoTask
  BY DEF initialState, Stores, Roles, Decisions, Statuses, None
<1>9. TypeOK
  <2>1. flow \in Seq(Flows) /\ Len(flow) <= MaxClicks /\ controller \in 0..Len(flow)
    BY ClientAssumption DEF Init
  <2>2. drops \in 0..MaxDrops /\ overlapped \in BOOLEAN
    <3>1. drops \in 0..MaxDrops BY ClientAssumption DEF Init
    <3>2. overlapped \in BOOLEAN BY DEF Init
    <3> QED BY <3>1, <3>2
  <2>3. poll \in [phase : {"idle", "asked"}, answer : Snapshots \cup {NoData}] BY DEF Init
  <2> QED BY <1>6, <1>8, <2>1, <2>2, <2>3 DEF TypeOK, Init
<1>10. FlowsInv BY DEF FlowsInv, Init
<1>11. ExistInv BY <1>8 DEF ExistInv, Init
<1> QED BY <1>7, <1>9, <1>10, <1>11 DEF TypeInv

\* Every step of the page, of its flows and of the server keeps the types.
LEMMA NextTyped ==
  ASSUME TypeInv, [Next]_vars PROVE TypeInv'
<1>1. CASE Next
  <2>1. CASE ApplyQueryData BY <2>1, ApplyQueryDataTyped
  <2>2. CASE User BY <2>2, startTaskTyped, selectSessionTyped, handleResumeTyped, handleStopTyped DEF User
  <2>3. CASE PollAsks \/ PollAnswers \/ SafetyNet BY <2>3, PollAsksTyped, PollAnswersTyped, SafetyNetTyped
  <2>4. CASE \E t \in Tasks : Server(t) BY <2>4, ServerTyped
  <2>5. ASSUME NEW i \in 1..Len(flow), Stream(i) \/ PostFails(i) \/ StreamBreaks(i) \/ Requested(i)
        PROVE  TypeInv'
    <3>1. CASE Stream(i)
      BY <3>1, PostArrivesTyped, ReadFrameTyped, StreamClosesTyped, StreamAbortedTyped, WakeTyped,
         ReconnectTyped DEF Stream
    <3>2. CASE Requested(i) BY <3>2, AnswersTyped, SelectEndsTyped, ResumeEndsTyped DEF Requested
    <3> QED BY <2>5, <3>1, <3>2, PostFailsTyped, StreamBreaksTyped
  <2> QED BY <1>1, <2>1, <2>2, <2>3, <2>4, <2>5 DEF Next
<1>2. CASE UNCHANGED vars
  <2>1. TypeOK' BY <1>2 DEF TypeInv, TypeOK, vars
  <2>2. SrvInv' BY <1>2 DEF TypeInv, SrvInv, Exists, vars
  <2>3. FlowsInv' BY <1>2 DEF TypeInv, FlowsInv, vars
  <2>4. ExistInv' BY <1>2 DEF TypeInv, ExistInv, Exists, vars
  <2> QED BY <2>1, <2>2, <2>3, <2>4 DEF TypeInv
<1> QED BY <1>1, <1>2

LEMMA TypeInvAlways == Spec => []TypeInv
  BY InitTyped, NextTyped, PTL DEF Spec

\* TypeOK: every variable keeps its type; in particular no stream asks for a frame
\* that its run does not have, and no reconnect exceeds the limit.
THEOREM TypeCorrect == Spec => []TypeOK
<1>1. TypeInv => TypeOK BY DEF TypeInv
<1> QED BY <1>1, TypeInvAlways, PTL

\* EachFrameAppliedOnce: a stream that breaks and reconnects, any number of times,
\* takes each frame once and skips none (lastEventId in api.ts, Last-Event-ID in runs.py).
THEOREM FramesAreAppliedOnce == Spec => []EachFrameAppliedOnce
<1>1. TypeInv => EachFrameAppliedOnce BY DEF TypeInv, FlowsInv, FlowInv, EachFrameAppliedOnce
<1> QED BY <1>1, TypeInvAlways, PTL

\* StreamBringsOutcome: streamTask does not return by itself before the outcome.
THEOREM ReturnedStreamHasOutcome == Spec => []StreamBringsOutcome
<1>1. TypeInv => StreamBringsOutcome BY DEF TypeInv, FlowsInv, FlowInv, StreamBringsOutcome
<1> QED BY <1>1, TypeInvAlways, PTL

(***************************************************************************)
(* Who is under way, and what "live" means.                                *)
(***************************************************************************)

\* The next click ought to stop it.
UnderWay(f) == f.kind # "select" /\ f.phase # "ended" /\ ~f.aborted

\* The stream that the store shows: it knows its task and waits for the outcome.
Streams(f, s) ==
  UnderWay(f) /\ f.kind = "stream" /\ f.known /\ ~f.terminal /\ f.task = s.taskId

\* At most one flow is under way that a click may abort, the one in controllerRef.
\* A store that is live shows it.
ControlInv ==
  /\ \A i \in 1..Len(flow) : UnderWay(flow[i]) => i = controller
  /\ store.connection = "live" => controller # 0 /\ Streams(flow[controller], store)

\* What an event leaves of the connection, the status and the review.
LEMMA EventShown ==
  ASSUME NEW s \in Stores, NEW t \in Tasks, NEW e \in Received
  PROVE  LET r == applyEvent(s, t, e) IN
         /\ r.connection = "live" => e.type \notin {"task_finished", "task_error"}
         /\ r.connection \in {s.connection, "live", "idle"}
         /\ e.type = "task_finished" => r.serverStatus = e.status
         /\ e.type = "task_error" => r.serverStatus = "failed"
         /\ e.type \notin {"task_finished", "task_error"} => r.serverStatus \in {s.serverStatus, "running"}
         /\ \/ r.reviewDecision \in {s.reviewDecision, None}
            \/ e.type = "node_end" /\ e.role = "reviewer" /\ r.reviewDecision = e.decision
<1> USE DEF Stores
<1>1. CASE e.type = "node_start"
  <2>1. e \in [type : {"node_start"}, role : Roles] BY <1>1 DEF Received, Events
  <2> DEFINE review == IF e.role = "developer" /\ s.reviewDecision = "revision_required"
                       THEN None ELSE s.reviewDecision
  <2>2. review \in {s.reviewDecision, None} OBVIOUS
  <2>3. applyEvent(s, t, e)
          = [s EXCEPT !.taskId = t, !.hasStarted = TRUE, !.serverStatus = "running",
                      !.activeRole = e.role, !.connection = "live", !.reviewDecision = review]
    BY <1>1 DEF applyEvent
  <2> HIDE DEF review
  <2> QED BY <1>1, <2>1, <2>2, <2>3
<1>2. CASE e.type = "node_end"
  <2> DEFINE active == IF s.activeRole = e.role THEN None ELSE s.activeRole
             review == IF e.role = "reviewer" /\ e.decision # None THEN e.decision ELSE s.reviewDecision
  <2>1. applyEvent(s, t, e)
          = [s EXCEPT !.taskId = t, !.lastRole = e.role, !.activeRole = active, !.reviewDecision = review]
    BY <1>2 DEF applyEvent
  <2>2. review = s.reviewDecision \/ (e.role = "reviewer" /\ review = e.decision) OBVIOUS
  <2>3. s.connection # "live" \/ e.type \notin {"task_finished", "task_error"} BY <1>2
  <2> HIDE DEF active, review
  <2> QED BY <1>2, <2>1, <2>2, <2>3
<1>3. CASE e.type = "task_error"
  BY <1>3 DEF applyEvent
<1>4. CASE e.type = "task_finished"
  BY <1>4 DEF applyEvent
<1>5. CASE e.type \notin {"node_start", "node_end", "task_error", "task_finished"}
  BY <1>5 DEF applyEvent
<1> QED BY <1>1, <1>2, <1>3, <1>4, <1>5

\* One flow moves and the store changes.
LEMMA ControlMoves ==
  ASSUME TypeInv, ControlInv, NEW i \in 1..Len(flow), NEW f, Step(i, f), UNCHANGED controller,
         UnderWay(f) => UnderWay(flow[i]),
         NEW s, store' = s,
         s.connection = "live" =>
           \/ Streams(f, s)
           \/ /\ store.connection = "live" /\ s.taskId = store.taskId
              /\ Streams(flow[i], store) => Streams(f, s)
  PROVE  ControlInv'
<1>1. flow \in Seq(Flows) /\ controller \in 0..Len(flow) BY DEF TypeInv, TypeOK
<1>2. flow' = [flow EXCEPT ![i] = f] /\ i \in DOMAIN flow /\ DOMAIN flow' = DOMAIN flow BY <1>1 DEF Step
<1>3. Len(flow') = Len(flow) /\ \A j \in 1..Len(flow) : flow'[j] = IF j = i THEN f ELSE flow[j]
  BY <1>1, <1>2
<1>4. \A j \in 1..Len(flow') : UnderWay(flow'[j]) => j = controller'
  BY <1>3 DEF ControlInv
<1>5. ASSUME s.connection = "live" PROVE controller # 0 /\ Streams(flow'[controller], s)
  <2>1. CASE Streams(f, s)
    <3>1. i = controller BY <2>1 DEF Streams, ControlInv
    <3> QED BY <1>1, <1>3, <2>1, <3>1
  <2>2. CASE /\ store.connection = "live" /\ s.taskId = store.taskId
             /\ Streams(flow[i], store) => Streams(f, s)
    <3>1. controller # 0 /\ Streams(flow[controller], store) BY <2>2 DEF ControlInv
    <3>2. controller \in 1..Len(flow) BY <1>1, <3>1
    <3>3. CASE controller = i BY <1>3, <2>2, <3>1, <3>3
    <3>4. CASE controller # i BY <1>3, <2>2, <3>1, <3>2, <3>4 DEF Streams
    <3> QED BY <3>1, <3>3, <3>4
  <2> QED BY <1>5, <2>1, <2>2
<1>6. store'.connection = "live" => controller' # 0 /\ Streams(flow'[controller'], store')
  BY <1>5
<1> QED BY <1>4, <1>6 DEF ControlInv

\* What settling a stream shows.
Connected(s) == s \in {store, [store EXCEPT !.connection = "recovering"],
                       [store EXCEPT !.connection = "offline"]}

LEMMA SettledControl ==
  ASSUME TypeInv, ControlInv, NEW i \in 1..Len(flow), NEW f \in Flows,
         flow[i].kind = "stream", flow[i].phase # "ended",
         f.kind = "stream", f.known = flow[i].known, f.terminal = flow[i].terminal,
         f.aborted = flow[i].aborted, f.task = flow[i].task,
         \/ Returned(i, f) /\ (f.terminal \/ ~f.known \/ f.aborted)
         \/ Thrown(i, f)
         \/ Loop(i, f),
         UNCHANGED controller
  PROVE  ControlInv'
<1>1. store \in Stores /\ flow[i] \in Flows BY DEF TypeInv, TypeOK
<1>2. ~UnderWay(Ended(f)) /\ ~UnderWay([Ended(f) EXCEPT !.thrown = TRUE]) BY DEF UnderWay, Ended, Flows
<1>3. \A c \in {"recovering", "offline"} : [store EXCEPT !.connection = c].connection # "live"
  BY <1>1 DEF Stores
<1>4. CASE Returned(i, f) /\ (f.terminal \/ ~f.known \/ f.aborted)
  <2>1. ~Streams(flow[i], store) BY <1>4 DEF Streams, UnderWay
  <2>2. store' = store \/ store'.connection # "live" BY <1>3, <1>4 DEF Returned, Quietly, Show
  <2> QED BY <1>2, <1>4, <2>1, <2>2, ControlMoves DEF Returned
<1>5. CASE Thrown(i, f)
  <2>1. CASE f.aborted
    <3>1. ~Streams(flow[i], store) BY <2>1 DEF Streams, UnderWay
    <3> QED BY <1>2, <1>5, <2>1, <3>1, ControlMoves DEF Thrown, Quietly
  <2>2. CASE ~f.aborted
    <3>1. store'.connection # "live" BY <1>3, <1>5, <2>2 DEF Thrown, Show
    <3> QED BY <1>2, <1>5, <3>1, ControlMoves DEF Thrown
  <2> QED BY <2>1, <2>2
<1>6. CASE Loop(i, f)
  <2>1. CASE f.terminal \/ ~f.known \/ f.aborted BY <1>4, <1>6, <2>1 DEF Loop
  <2>2. CASE ~(f.terminal \/ ~f.known \/ f.aborted) /\ f.attempt >= MAX_RECONNECTS
    BY <1>5, <1>6, <2>2 DEF Loop
  <2>3. CASE ~(f.terminal \/ ~f.known \/ f.aborted) /\ ~(f.attempt >= MAX_RECONNECTS)
    <3> DEFINE g == [f EXCEPT !.phase = "sleeping"]
    <3>1. Step(i, g) /\ store' = store BY <1>6, <2>3 DEF Loop, Quietly
    <3>2. /\ g.kind = "stream" /\ g.known = f.known /\ g.terminal = f.terminal
          /\ g.aborted = f.aborted /\ g.task = f.task /\ g.phase = "sleeping"
      BY DEF Flows
    <3> HIDE DEF g
    <3>3. UnderWay(g) => UnderWay(flow[i]) BY <3>2 DEF UnderWay
    <3>4. Streams(flow[i], store) => Streams(g, store) BY <3>2 DEF Streams, UnderWay
    <3> QED BY <3>1, <3>3, <3>4, ControlMoves
  <2> QED BY <2>1, <2>2, <2>3
<1> QED BY <1>4, <1>5, <1>6

\* After a click nothing is under way but what the click started.
LEMMA AbortedControl ==
  ASSUME TypeInv, ControlInv, NEW j \in 1..Len(flow)
  PROVE  ~UnderWay(Aborted[j])
<1>1. flow[j] \in Flows /\ Aborted[j] = [flow[j] EXCEPT !.aborted = flow[j].aborted \/ j = controller]
  BY AbortedTyped DEF TypeInv, TypeOK
<1>2. CASE j = controller
  <2>1. Aborted[j] = [flow[j] EXCEPT !.aborted = TRUE] BY <1>1, <1>2
  <2>2. Aborted[j].aborted BY <1>1, <2>1 DEF Flows
  <2> QED BY <2>2 DEF UnderWay
<1>3. CASE j # controller
  <2>1. ~UnderWay(flow[j]) BY <1>3 DEF ControlInv
  <2>2. PICK b \in BOOLEAN : b = (flow[j].aborted \/ j = controller) OBVIOUS
  <2>3. Aborted[j] = [flow[j] EXCEPT !.aborted = b] BY <1>1, <2>2
  <2>4. Aborted[j].kind = flow[j].kind /\ Aborted[j].phase = flow[j].phase /\ Aborted[j].aborted = b
    BY <1>1, <2>3 DEF Flows
  <2>5. flow[j].aborted => b BY <2>2
  <2> QED BY <2>1, <2>4, <2>5 DEF UnderWay
<1> QED BY <1>2, <1>3

LEMMA ClickControl ==
  ASSUME TypeInv, ControlInv, NEW g, flow' = Append(Aborted, g), controller' \in Nat,
         UnderWay(g) => controller' = Len(flow) + 1, store'.connection # "live"
  PROVE  ControlInv'
<1>1. Aborted \in Seq(Flows) /\ Len(Aborted) = Len(flow) BY AbortedTyped
<1>2. \A j \in 1..Len(flow') : UnderWay(flow'[j]) => j = controller'
  <2> SUFFICES ASSUME NEW j \in 1..Len(flow'), UnderWay(flow'[j]) PROVE j = controller'
    OBVIOUS
  <2>1. Len(flow') = Len(flow) + 1 /\ Len(flow) \in Nat /\ flow'[Len(flow) + 1] = g
        /\ \A k \in 1..Len(flow) : flow'[k] = Aborted[k]
    BY <1>1, AppendProperties
  <2>2. ~(j \in 1..Len(flow)) BY <2>1, AbortedControl
  <2>3. j = Len(flow) + 1 BY <2>1, <2>2
  <2> QED BY <2>1, <2>3
<1> QED BY <1>2 DEF ControlInv

LEMMA UserControl ==
  ASSUME TypeInv, ControlInv, User PROVE ControlInv'
<1>1. store \in Stores /\ Len(flow) + 1 \in Nat /\ controller \in Nat BY DEF TypeInv, TypeOK
<1>2. CASE startTask
  <2>1. reset("connecting").connection # "live" BY ResetTyped
  <2>2. store'.connection # "live" BY <1>2, <2>1 DEF startTask, Show
  <2> QED BY <1>1, <1>2, <2>2, ClickControl DEF startTask
<1>3. CASE \E t \in Tasks : selectSession(t)
  <2>1. PICK t \in Tasks : selectSession(t) BY <1>3
  <2>2. reset("recovering").connection # "live" BY ResetTyped
  <2>3. store'.connection # "live" BY <2>1, <2>2 DEF selectSession, Show
  <2>4. ~UnderWay(NewFlow("select", t)) BY DEF UnderWay, NewFlow
  <2> QED BY <1>1, <2>1, <2>3, <2>4, ClickControl DEF selectSession
<1>4. CASE handleResume
  <2>1. [store EXCEPT !.resuming = TRUE, !.connection = "connecting"].connection # "live"
    BY <1>1 DEF Stores
  <2>2. store'.connection # "live" BY <1>4, <2>1 DEF handleResume, Show
  <2> QED BY <1>1, <1>4, <2>2, ClickControl DEF handleResume
<1>5. CASE handleStop
  <2>1. markInterrupted(store).connection # "live" BY <1>1 DEF markInterrupted, Stores
  <2>2. store'.connection # "live" BY <1>5, <2>1 DEF handleStop, Show
  <2>3. flow' = Aborted /\ Len(flow') = Len(flow) BY <1>5, AbortedTyped DEF handleStop
  <2>4. \A j \in 1..Len(flow') : ~UnderWay(flow'[j]) BY <2>3, AbortedControl
  <2> QED BY <2>2, <2>4 DEF ControlInv
<1> QED BY <1>2, <1>3, <1>4, <1>5 DEF User

LEMMA StreamControl ==
  ASSUME TypeInv, ControlInv, NEW i \in 1..Len(flow), Stream(i) \/ PostFails(i) \/ StreamBreaks(i)
  PROVE  ControlInv'
<1>1. flow[i] \in Flows /\ FlowInv(flow[i]) /\ store \in Stores BY FlowTyped DEF TypeInv, TypeOK
<1>2. CASE PostArrives(i)
  <2>1. PICK t \in Tasks : Step(i, [flow[i] EXCEPT !.phase = "reading", !.task = t])
    <3>1. (CHOOSE u \in Tasks : srv[u] = Unborn) \in Tasks BY <1>2 DEF PostArrives
    <3> QED BY <1>2, <3>1 DEF PostArrives
  <2> DEFINE f == [flow[i] EXCEPT !.phase = "reading", !.task = t]
  <2>2. f.kind = flow[i].kind /\ f.aborted = flow[i].aborted BY <1>1 DEF Flows
  <2>3. UnderWay(f) => UnderWay(flow[i]) BY <1>2, <2>2 DEF UnderWay, PostArrives
  <2>4. ~Streams(flow[i], store) BY <1>1, <1>2 DEF Streams, FlowInv, PostArrives
  <2> QED BY <1>2, <2>1, <2>3, <2>4, ControlMoves DEF PostArrives
<1>3. CASE PostFails(i)
  BY <1>1, <1>3, SettledControl DEF PostFails
<1>4. CASE ReadFrame(i)
  <2>1. PICK k \in BOOLEAN, b \in BOOLEAN :
          LET e == Frame(flow[i].task, flow[i].pos)
              f == [flow[i] EXCEPT !.lastId = flow[i].pos, !.pos = @ + 1, !.applied = @ + 1,
                                   !.known = k, !.terminal = b]
          IN /\ b => k
             /\ Step(i, f)
             /\ flow[i].task \in Tasks
             /\ \/ Quietly /\ k = flow[i].known /\ b = flow[i].terminal
                \/ /\ e \in Received /\ k
                   /\ b = (e.type \in {"task_finished", "task_error"})
                   /\ Show(applyEvent(store, flow[i].task, e))
    BY <1>4, ReadFrameEffect
  <2> DEFINE e == Frame(flow[i].task, flow[i].pos)
             f == [flow[i] EXCEPT !.lastId = flow[i].pos, !.pos = @ + 1, !.applied = @ + 1,
                                  !.known = k, !.terminal = b]
  <2>2. /\ flow[i].kind = "stream" /\ flow[i].phase = "reading" /\ ~flow[i].aborted
        /\ UNCHANGED controller
    BY <1>4 DEF ReadFrame
  <2>3. /\ f.kind = "stream" /\ f.phase = "reading" /\ f.aborted = FALSE /\ f.known = k /\ f.terminal = b
        /\ f.task = flow[i].task
    BY <1>1, <2>2 DEF Flows
  <2>4. Step(i, f) BY <2>1
  <2> HIDE DEF f
  <2>5. UnderWay(flow[i]) BY <2>2 DEF UnderWay
  <2>6. CASE Quietly /\ k = flow[i].known /\ b = flow[i].terminal
    <3>1. Streams(flow[i], store) => Streams(f, store) BY <2>3, <2>6 DEF Streams, UnderWay
    <3> QED BY <2>2, <2>4, <2>5, <2>6, <3>1, ControlMoves DEF Quietly
  <2>7. CASE /\ e \in Received /\ k
             /\ b = (e.type \in {"task_finished", "task_error"})
             /\ Show(applyEvent(store, flow[i].task, e))
    <3> DEFINE s == applyEvent(store, flow[i].task, e)
    <3>0. store \in Stores /\ flow[i].task \in Tasks /\ e \in Received BY <1>1, <2>1, <2>7
    <3>1. s.taskId = flow[i].task /\ (s.connection = "live" => ~b)
      <4>1. s.taskId = flow[i].task BY <3>0, EventTyped
      <4>2. s.connection = "live" => e.type \notin {"task_finished", "task_error"} BY <3>0, EventShown
      <4> QED BY <2>7, <4>1, <4>2
    <3>2. store' = s BY <2>7 DEF Show
    <3> HIDE DEF s
    <3>3. s.connection = "live" => Streams(f, s) BY <2>3, <2>7, <3>1 DEF Streams, UnderWay
    <3> QED BY <2>2, <2>4, <2>5, <3>2, <3>3, ControlMoves
  <2> QED BY <2>1, <2>6, <2>7
<1>5. CASE StreamCloses(i)
  <2> DEFINE f == [flow[i] EXCEPT !.retrying = TRUE, !.attempt = 0]
  <2>1. f \in Flows /\ f.task = flow[i].task /\ f.kind = flow[i].kind /\ f.aborted = flow[i].aborted
        /\ f.terminal = flow[i].terminal /\ f.known = flow[i].known
    <3>1. 0 \in 0..MAX_RECONNECTS BY ClientAssumption
    <3> QED BY <1>1, <3>1 DEF Flows
  <2>2. Loop(i, f) /\ flow[i].kind = "stream" /\ flow[i].phase # "ended" /\ UNCHANGED controller
    BY <1>5 DEF StreamCloses
  <2> HIDE DEF f
  <2> QED BY <2>1, <2>2, SettledControl
<1>6. CASE StreamBreaks(i)
  <2> DEFINE f == [flow[i] EXCEPT !.retrying = TRUE]
  <2>1. f \in Flows /\ f.task = flow[i].task /\ f.kind = flow[i].kind /\ f.aborted = flow[i].aborted
        /\ f.terminal = flow[i].terminal /\ f.known = flow[i].known
    BY <1>1 DEF Flows
  <2>2. (Loop(i, f) \/ Thrown(i, flow[i])) /\ flow[i].kind = "stream" /\ flow[i].phase # "ended"
        /\ UNCHANGED controller
    BY <1>6 DEF StreamBreaks
  <2> HIDE DEF f
  <2> QED BY <1>1, <2>1, <2>2, SettledControl
<1>7. CASE StreamAborted(i)
  BY <1>1, <1>7, SettledControl DEF StreamAborted
<1>8. ASSUME NEW f \in Flows, f.kind = flow[i].kind, f.aborted = flow[i].aborted, f.known = flow[i].known,
             f.terminal = flow[i].terminal, f.task = flow[i].task,
             flow[i].phase # "ended", f.phase # "ended",
             Step(i, f), Quietly, UNCHANGED controller
      PROVE  ControlInv'
  <2>1. UnderWay(f) => UnderWay(flow[i]) BY <1>8 DEF UnderWay
  <2>2. Streams(flow[i], store) => Streams(f, store) BY <1>8 DEF Streams, UnderWay
  <2> QED BY <1>8, <2>1, <2>2, ControlMoves DEF Quietly
<1>9. CASE Wake(i)
  <2> DEFINE a == flow[i].attempt + 1
             f == [flow[i] EXCEPT !.phase = "opening", !.attempt = a]
  <2>1. a \in 0..MAX_RECONNECTS
    <3>1. flow[i].attempt \in 0..MAX_RECONNECTS /\ flow[i].attempt < MAX_RECONNECTS
      BY <1>1, <1>9 DEF Flows, FlowInv, Wake
    <3> QED BY <3>1, ClientAssumption
  <2>2. Step(i, f) /\ Quietly /\ UNCHANGED controller /\ flow[i].phase # "ended"
    BY <1>9 DEF Wake, Quietly
  <2> HIDE DEF a
  <2>3. /\ f \in Flows /\ f.kind = flow[i].kind /\ f.aborted = flow[i].aborted /\ f.known = flow[i].known
        /\ f.terminal = flow[i].terminal /\ f.task = flow[i].task /\ f.phase # "ended"
    BY <1>1, <2>1 DEF Flows
  <2> QED BY <1>8, <2>2, <2>3
<1>10. CASE Reconnect(i)
  <2>0. flow[i].kind = "stream" /\ flow[i].phase # "ended" /\ UNCHANGED controller BY <1>10 DEF Reconnect
  <2>1. CASE Thrown(i, flow[i]) \/ Loop(i, flow[i]) BY <1>1, <2>0, <2>1, SettledControl
  <2>2. CASE Step(i, [flow[i] EXCEPT !.phase = "opened"]) /\ Quietly
    <3> DEFINE f == [flow[i] EXCEPT !.phase = "opened"]
    <3>1. /\ f \in Flows /\ f.kind = flow[i].kind /\ f.aborted = flow[i].aborted /\ f.known = flow[i].known
          /\ f.terminal = flow[i].terminal /\ f.task = flow[i].task /\ f.phase # "ended"
      BY <1>1 DEF Flows
    <3> QED BY <1>8, <2>0, <2>2, <3>1
  <2>3. CASE Step(i, [flow[i] EXCEPT !.phase = "reading", !.pos = flow[i].lastId + 1]) /\ Quietly
    <3> DEFINE n == flow[i].lastId + 1
               f == [flow[i] EXCEPT !.phase = "reading", !.pos = n]
    <3>1. n \in Nat
      <4>1. flow[i].lastId \in Nat \cup {-1} BY <1>1 DEF Flows
      <4> QED BY <4>1
    <3>2. Step(i, f) BY <2>3
    <3> HIDE DEF n
    <3>3. /\ f \in Flows /\ f.kind = flow[i].kind /\ f.aborted = flow[i].aborted /\ f.known = flow[i].known
          /\ f.terminal = flow[i].terminal /\ f.task = flow[i].task /\ f.phase # "ended"
      BY <1>1, <3>1 DEF Flows
    <3> QED BY <1>8, <2>0, <2>3, <3>2, <3>3
  <2> QED BY <1>10, <2>1, <2>2, <2>3 DEF Reconnect
<1> QED BY <1>2, <1>3, <1>4, <1>5, <1>6, <1>7, <1>9, <1>10 DEF Stream

LEMMA RequestedControl ==
  ASSUME TypeInv, ControlInv, NEW i \in 1..Len(flow), Requested(i)
  PROVE  ControlInv'
<1> DEFINE f == flow[i]
<1>1. f \in Flows /\ FlowInv(f) /\ store \in Stores BY FlowTyped DEF TypeInv, TypeOK
<1>2. f.kind \in {"select", "resume"} /\ UNCHANGED controller
  BY DEF Requested, Answers, SelectEnds, ResumeEnds
<1>3. ~Streams(f, store) BY <1>2 DEF Streams
<1>4. CASE Answers(i)
  <2>1. PICK a : Step(i, [f EXCEPT !.phase = "answered", !.answer = a])
    BY <1>4 DEF Answers
  <2> DEFINE g == [f EXCEPT !.phase = "answered", !.answer = a]
  <2>2. g.kind = f.kind /\ g.aborted = f.aborted BY <1>1 DEF Flows
  <2>3. UnderWay(g) => UnderWay(f) BY <1>4, <2>2 DEF UnderWay, Answers
  <2>4. store' = store BY <1>4 DEF Answers
  <2> QED BY <1>2, <1>3, <2>1, <2>3, <2>4, ControlMoves
<1>5. ~UnderWay(Ended(f)) BY <1>1 DEF UnderWay, Ended, Flows
<1>6. CASE SelectEnds(i)
  <2> DEFINE shown == applySnapshot(store, f.task, f.answer)
  <2>1. f.task \in Tasks
    <3>1. f.task # NoTask BY <1>1, <1>6 DEF FlowInv, SelectEnds
    <3> QED BY <1>1, <3>1 DEF Flows
  <2>2. Step(i, Ended(f)) BY <1>6 DEF SelectEnds
  <2>3. store'.connection # "live"
    <3>1. CASE f.phase = "answered" /\ Show(IF f.answer.status = "running" THEN markInterrupted(shown) ELSE shown)
      <4>1. f.answer \in Snapshots BY <1>1, <3>1 DEF FlowInv
      <4>2. shown \in Stores /\ markInterrupted(shown) \in Stores BY <1>1, <2>1, <4>1, FoldTyped
      <4>3. markInterrupted(shown).connection = "idle" BY <4>2 DEF markInterrupted, Stores
      <4>4. f.answer.status # "running" => shown.connection = "idle"
        BY <1>1, <4>1 DEF applySnapshot, Stores, Snapshots, Statuses, Final
      <4> QED BY <3>1, <4>3, <4>4 DEF Show
    <3>2. CASE Show([applyUnread(store, f.task) EXCEPT !.connection = "offline"])
      <4>1. applyUnread(store, f.task) \in Stores BY <1>1, <2>1 DEF applyUnread, Stores
      <4> QED BY <3>2, <4>1 DEF Show, Stores
    <3> QED BY <1>6, <3>1, <3>2 DEF SelectEnds
  <2> QED BY <1>2, <1>5, <2>2, <2>3, ControlMoves
<1>7. CASE ResumeEnds(i)
  <2>1. Step(i, Ended(f)) BY <1>7 DEF ResumeEnds
  <2>2. \/ store'.connection # "live"
        \/ store'.connection = store.connection /\ store'.taskId = store.taskId
    <3>1. CASE f.phase = "answered" /\ ~f.aborted
               /\ Show([applySnapshot(store, f.task, f.answer) EXCEPT !.resuming = FALSE])
      <4>1. f.answer \in Snapshots BY <1>1, <3>1 DEF FlowInv
      <4>2. UnderWay(f) BY <1>7, <3>1 DEF UnderWay, ResumeEnds
      <4>3. store.connection # "live"
        <5>1. i = controller BY <4>2 DEF ControlInv
        <5> QED BY <1>3, <5>1 DEF ControlInv
      <4> DEFINE c == IF f.answer.status \in Final THEN "idle" ELSE store.connection
      <4>4. [applySnapshot(store, f.task, f.answer) EXCEPT !.resuming = FALSE].connection = c
        BY <1>1 DEF applySnapshot, Stores
      <4> QED BY <3>1, <4>3, <4>4 DEF Show
    <3>2. CASE Show([store EXCEPT !.resuming = FALSE])
      BY <1>1, <3>2 DEF Show, Stores
    <3>3. CASE Show([store EXCEPT !.resuming = FALSE, !.connection = "offline"])
      BY <1>1, <3>3 DEF Show, Stores
    <3> QED BY <1>7, <3>1, <3>2, <3>3 DEF ResumeEnds
  <2> QED BY <1>2, <1>3, <1>5, <2>1, <2>2, ControlMoves
<1> QED BY <1>4, <1>6, <1>7 DEF Requested

\* What neither starts nor ends a flow, and at most ends the "live" of the store.
LEMMA ViewControl ==
  ASSUME ControlInv, UNCHANGED <<flow, controller>>, store'.taskId = store.taskId,
         store'.connection = "live" => store.connection = "live"
  PROVE  ControlInv'
  BY DEF ControlInv, Streams, UnderWay

LEMMA QueryControl ==
  ASSUME TypeInv, ControlInv, PollAsks \/ PollAnswers \/ SafetyNet \/ ApplyQueryData
  PROVE  ControlInv'
<1>1. store \in Stores BY DEF TypeInv, TypeOK
<1>2. UNCHANGED <<flow, controller>>
  BY DEF PollAsks, PollAnswers, SafetyNet, ApplyQueryData, QueryOnly
<1>3. CASE PollAsks \/ PollAnswers
  BY <1>2, <1>3, ViewControl DEF PollAsks, PollAnswers
<1>4. CASE SafetyNet
  <2>1. store' = markInterrupted(store) BY <1>4 DEF SafetyNet, Show
  <2>2. store'.taskId = store.taskId /\ store'.connection = "idle"
    BY <1>1, <2>1 DEF markInterrupted, Stores
  <2> QED BY <1>2, <2>2, ViewControl
<1>5. CASE ApplyQueryData
  <2>1. CASE QueryData.task = NoTask
    BY <1>2, <1>5, <2>1, ViewControl DEF ApplyQueryData, Quietly
  <2>2. CASE QueryData.task # NoTask
    <3>1. store' = applySnapshot(store, store.taskId, QueryData.data)
      BY <1>5, <2>2, QueryTyped DEF ApplyQueryData, Show
    <3>2. store'.taskId = store.taskId /\ store'.connection \in {store.connection, "idle"}
      BY <1>1, <3>1 DEF applySnapshot, Stores
    <3> QED BY <1>2, <3>2, ViewControl
  <2> QED BY <2>1, <2>2
<1> QED BY <1>3, <1>4, <1>5

LEMMA NextControl ==
  ASSUME TypeInv, ControlInv, [Next]_vars PROVE ControlInv'
<1>1. CASE Next
  <2>1. CASE \E t \in Tasks : Server(t)
    <3>1. UNCHANGED <<flow, controller, store>>
      BY <2>1 DEF Server, RunEmits, RunEnds, RunForgotten, ServerOnly
    <3> QED BY <3>1, ViewControl
  <2> QED BY <1>1, <2>1, UserControl, StreamControl, RequestedControl, QueryControl DEF Next
<1>2. CASE UNCHANGED vars
  BY <1>2, ViewControl DEF vars
<1> QED BY <1>1, <1>2

\* LiveMeansStreaming: what is shown as live is the stream in controllerRef, so that
\* the next click aborts it, whatever clicks and breaks came before (App.tsx:92).
THEOREM LiveIsStreaming == Spec => []LiveMeansStreaming
<1>1. Init => ControlInv BY DEF Init, ControlInv, initialState
<1>2. ControlInv => LiveMeansStreaming BY DEF ControlInv, LiveMeansStreaming, Streams, UnderWay
<1> QED BY <1>1, <1>2, TypeInvAlways, NextControl, PTL DEF Spec

(***************************************************************************)
(* Whoever waits for each click to come to rest.  Until a click comes      *)
(* while a flow is under way, what is shown, cached and in flight may be   *)
(* old, but none of it says "completed" of a task that is not, and a       *)
(* question that is shown of a run is still asked.                         *)
(***************************************************************************)

\* What canResume takes for a task that awaits its user.
Pauses(status, review) == status = "awaiting_user" \/ review = "need_user_decision"

\* A question to the user that is seen of a task is still asked.
StillAsked(t, review) ==
  review = "need_user_decision" => srv[t].review = "need_user_decision"

\* So is one that the task's stream has for its reader.
FramesStillAsk(t) ==
  \A n \in 0..srv[t].frames - 1 : Asks(Frame(t, n)) => srv[t].review = "need_user_decision"

\* A snapshot of the task is still right in what matters.
Holds(t, data) ==
  data.status = "completed" => srv[t].status = "completed" /\ data.review = "approved"

\* A run whose reviewer asked has nothing more to say.
SrvCalm == \A t \in Tasks :
  /\ srv[t].live => srv[t].status # "completed"
  /\ srv[t].status = "completed" => srv[t].review = "approved"
  /\ srv[t].live /\ srv[t].review = "need_user_decision" => srv[t].frames > Len(Script)

StoreCalm ==
  store.serverStatus = "completed" =>
    /\ store.taskId \in Tasks
    /\ srv[store.taskId].status = "completed"
    /\ store.reviewDecision # "need_user_decision"

\* A page that recovers has no flow under way and an answer is still due to what it
\* shows.  A snapshot on its way says "completed" to nobody who may answer.
PollCalm ==
  /\ store.taskId # NoTask /\ store.connection = "recovering" =>
       /\ ~Busy /\ store.serverStatus # "awaiting_user"
       /\ StillAsked(store.taskId, store.reviewDecision)
       /\ StillAsked(store.taskId, cache[store.taskId].review)
  /\ poll.phase = "asked" =>
       /\ ~EffectDue /\ Holds(store.taskId, poll.answer)
       /\ poll.answer.status = "completed" =>
            ~Busy /\ ~Pauses(store.serverStatus, store.reviewDecision)
       /\ store.connection = "recovering" => StillAsked(store.taskId, poll.answer.review)

\* What the cache has of the task in view was shown, and stayed.
ShownCalm ==
  ~EffectDue /\ store.taskId # NoTask /\ cache[store.taskId].status = "completed" =>
    store.serverStatus = "completed"

CacheCalm == \A t \in Tasks : Holds(t, cache[t])

\* What a flow under way says of the page.
FlowCalm(f) ==
  /\ f.kind # "resume" => poll.phase # "asked"
  /\ f.kind = "stream" =>
       /\ store.connection # "recovering"
       /\ store.taskId \in {NoTask, f.task}
       /\ store.reviewDecision = "need_user_decision" =>
            f.task # NoTask /\ srv[f.task].review = "need_user_decision"
       /\ store.serverStatus \in {None, "running"} \/ f.terminal
       /\ f.task # NoTask => cache[f.task] = NoData /\ FramesStillAsk(f.task)
       /\ f.terminal => srv[f.task].done /\ f.pos >= srv[f.task].frames
  /\ f.kind = "select" => store.taskId = NoTask
  /\ f.kind = "resume" =>
       /\ store.connection # "recovering"
       /\ store.taskId = f.task /\ store.serverStatus # "completed"
       /\ cache[f.task].status # "completed" /\ ~srv[f.task].live
  /\ f.phase = "answered" => Holds(f.task, f.answer)

FlowsCalm == \A i \in 1..Len(flow) : flow[i].phase # "ended" => i = Len(flow) /\ FlowCalm(flow[i])

CalmNow == SrvCalm /\ StoreCalm /\ PollCalm /\ ShownCalm /\ CacheCalm /\ FlowsCalm

Calm == ~overlapped => CalmNow

\* What a step of the server or of a run may do to what was said of it.
ServerCalm == \A u \in Tasks :
  /\ srv[u].status = "completed" => srv'[u].status = "completed"
  /\ srv'[u].live => srv[u].live
  /\ srv[u].done => srv'[u].done /\ srv'[u].frames = srv[u].frames
  /\ srv[u].review = "need_user_decision" => srv'[u].review = "need_user_decision"
  /\ FramesStillAsk(u) => FramesStillAsk(u)'

\* Everything that leaves the store's view of the task and the flows' phases alone.
LEMMA CalmKept ==
  ASSUME TypeInv, CalmNow, ServerCalm, SrvCalm',
         store'.taskId = store.taskId, store'.serverStatus = store.serverStatus,
         store'.reviewDecision = store.reviewDecision,
         store'.connection \in {store.connection, "idle"},
         UNCHANGED <<poll, cache, seen>>,
         Len(flow') = Len(flow),
         \A j \in 1..Len(flow) :
           /\ flow'[j].kind = flow[j].kind /\ flow'[j].phase = flow[j].phase
           /\ flow'[j].task = flow[j].task /\ flow'[j].terminal = flow[j].terminal
           /\ flow'[j].answer = flow[j].answer /\ flow'[j].pos = flow[j].pos
  PROVE  CalmNow'
<1>1. store \in Stores /\ flow \in Seq(Flows) BY DEF TypeInv, TypeOK
<1>2. \A t \in Tasks : \A data : Holds(t, data) => Holds(t, data)'
  BY DEF Holds, ServerCalm
<1>0. \A t \in Tasks : \A review : StillAsked(t, review) => StillAsked(t, review)'
  BY DEF StillAsked, ServerCalm
<1>3. StoreCalm' BY DEF CalmNow, StoreCalm, ServerCalm
<1>4. Busy' = Busy BY DEF Busy
<1>5. QueryData' = QueryData BY DEF QueryData
<1>6. EffectDue' = EffectDue BY <1>5 DEF EffectDue
<1>7. PollCalm'
  <2>1. store.taskId # NoTask => store.taskId \in Tasks BY <1>1 DEF Stores
  <2>2. poll.phase = "asked" => store.taskId # NoTask BY DEF TypeInv, ExistInv
  <2>3. \A data : store.taskId # NoTask /\ Holds(store.taskId, data) => Holds(store.taskId, data)'
    BY <2>1 DEF Holds, ServerCalm
  <2>4. \A review : store.taskId # NoTask /\ StillAsked(store.taskId, review)
                     => StillAsked(store.taskId, review)'
    BY <2>1 DEF StillAsked, ServerCalm
  <2>5. PollCalm BY DEF CalmNow
  <2>6. ASSUME store'.taskId # NoTask, store'.connection = "recovering"
        PROVE  /\ ~Busy' /\ store'.serverStatus # "awaiting_user"
               /\ StillAsked(store.taskId, store.reviewDecision)'
               /\ StillAsked(store.taskId, cache[store.taskId].review)'
    <3>1. store.taskId # NoTask /\ store.connection = "recovering" BY <2>6
    <3>2. ~Busy /\ store.serverStatus # "awaiting_user" /\ StillAsked(store.taskId, store.reviewDecision)
          /\ StillAsked(store.taskId, cache[store.taskId].review)
      BY <2>5, <3>1 DEF PollCalm
    <3> QED BY <1>4, <2>1, <3>1, <3>2 DEF StillAsked, ServerCalm
  <2>7. ASSUME poll'.phase = "asked"
        PROVE  /\ ~EffectDue' /\ Holds(store.taskId, poll.answer)'
               /\ poll'.answer.status = "completed" =>
                    ~Busy' /\ ~Pauses(store'.serverStatus, store'.reviewDecision)
               /\ store'.connection = "recovering" => StillAsked(store.taskId, poll.answer.review)'
    <3>1. poll.phase = "asked" /\ store.taskId \in Tasks BY <2>1, <2>2, <2>7
    <3>2. /\ ~EffectDue /\ Holds(store.taskId, poll.answer)
          /\ poll.answer.status = "completed" => ~Busy /\ ~Pauses(store.serverStatus, store.reviewDecision)
          /\ store.connection = "recovering" => StillAsked(store.taskId, poll.answer.review)
      BY <2>5, <3>1 DEF PollCalm
    <3> QED BY <1>4, <1>6, <3>1, <3>2 DEF Holds, StillAsked, ServerCalm
  <2> QED BY <2>6, <2>7 DEF PollCalm
<1>8. ShownCalm' BY <1>6 DEF CalmNow, ShownCalm
<1>9. CacheCalm' BY <1>2 DEF CalmNow, CacheCalm, Holds
<1>10. FlowsCalm'
  <2> SUFFICES ASSUME NEW j \in 1..Len(flow), flow'[j].phase # "ended"
               PROVE  j = Len(flow) /\ FlowCalm(flow[j])'
    BY DEF FlowsCalm
  <2>1. j = Len(flow) /\ FlowCalm(flow[j]) BY DEF CalmNow, FlowsCalm
  <2>2. flow[j] \in Flows /\ FlowInv(flow[j]) BY FlowTyped
  <2>3. flow[j].kind \in {"select", "resume"} \/ flow[j].terminal => flow[j].task \in Tasks
    <3>1. flow[j].kind \in {"select", "resume"} \/ flow[j].terminal => flow[j].task # NoTask
      BY <2>2 DEF FlowInv
    <3> QED BY <2>2, <3>1 DEF Flows
  <2>4. flow[j].kind = "stream" => (flow'[j].terminal => srv'[flow'[j].task].done
                                      /\ flow'[j].pos >= srv'[flow'[j].task].frames)
    BY <2>1, <2>3 DEF FlowCalm, ServerCalm
  <2>5. flow'[j].phase = "answered" => Holds(flow[j].task, flow[j].answer)'
    <3>1. flow[j].phase = "answered" => flow[j].task \in Tasks /\ Holds(flow[j].task, flow[j].answer)
      BY <2>1, <2>2, <2>3 DEF FlowCalm, FlowInv, Flows
    <3> QED BY <3>1 DEF Holds, ServerCalm
  <2>6. flow[j].kind = "resume" => ~srv'[flow[j].task].live BY <2>1, <2>3 DEF FlowCalm, ServerCalm
  <2>7. flow[j].kind = "stream" /\ flow[j].task # NoTask =>
          /\ FramesStillAsk(flow[j].task)'
          /\ srv[flow[j].task].review = "need_user_decision" => srv'[flow[j].task].review = "need_user_decision"
    <3>1. flow[j].task # NoTask => flow[j].task \in Tasks BY <2>2 DEF Flows
    <3>2. flow[j].kind = "stream" /\ flow[j].task # NoTask => FramesStillAsk(flow[j].task)
      BY <2>1 DEF FlowCalm
    <3>3. flow'[j].task = flow[j].task OBVIOUS
    <3> QED BY <3>1, <3>2, <3>3 DEF ServerCalm, FramesStillAsk, Frame
  <2> QED BY <2>1, <2>4, <2>5, <2>6, <2>7 DEF FlowCalm
<1> QED BY <1>3, <1>7, <1>8, <1>9, <1>10 DEF CalmNow

\* A flow that is under way is the last, and nothing is asked for meanwhile.
LEMMA UnderWayCalm ==
  ASSUME TypeInv, CalmNow, NEW i \in 1..Len(flow), flow[i].phase # "ended"
  PROVE  /\ i = Len(flow) /\ FlowCalm(flow[i])
         /\ flow[i].kind # "resume" => poll.phase # "asked"
         /\ store.taskId # NoTask => store.connection # "recovering"
         /\ \A j \in 1..Len(flow) : j # i => flow[j].phase = "ended"
<1>1. i = Len(flow) /\ FlowCalm(flow[i]) BY DEF CalmNow, FlowsCalm
<1>2. Busy BY DEF Busy
<1>3. flow[i].kind # "resume" => poll.phase # "asked" BY <1>1 DEF FlowCalm
<1> QED BY <1>1, <1>2, <1>3 DEF CalmNow, PollCalm, FlowsCalm

\* The flow under way moves, and with it the store.
LEMMA CalmStep ==
  ASSUME TypeInv, CalmNow, NEW i \in 1..Len(flow), flow[i].phase # "ended", NEW f,
         Step(i, f), SrvCalm', CacheCalm', StoreCalm', ShownCalm',
         poll'.phase # "asked" \/ PollCalm',
         store'.taskId # NoTask /\ store'.connection = "recovering" =>
           /\ f.phase = "ended" /\ store'.serverStatus # "awaiting_user"
           /\ StillAsked(store.taskId, store.reviewDecision)'
           /\ StillAsked(store.taskId, cache[store.taskId].review)',
         f.phase # "ended" => FlowCalm(flow[i])'
  PROVE  CalmNow'
<1>1. flow \in Seq(Flows) /\ i \in DOMAIN flow BY DEF TypeInv, TypeOK
<1>2. flow' = [flow EXCEPT ![i] = f] BY DEF Step
<1>3. Len(flow') = Len(flow) /\ \A j \in 1..Len(flow) : flow'[j] = IF j = i THEN f ELSE flow[j]
  BY <1>1, <1>2
<1>4. i = Len(flow) /\ \A j \in 1..Len(flow) : j # i => flow[j].phase = "ended" BY UnderWayCalm
<1>5. FlowsCalm' BY <1>3, <1>4 DEF FlowsCalm
<1>6. f.phase = "ended" => ~Busy' BY <1>3, <1>4 DEF Busy
<1>7. PollCalm' BY <1>6 DEF PollCalm
<1> QED BY <1>5, <1>7 DEF CalmNow

LEMMA QuietServer ==
  ASSUME UNCHANGED srv PROVE ServerCalm
<1>1. \A u \in Tasks : FramesStillAsk(u) => FramesStillAsk(u)' BY DEF FramesStillAsk, Frame
<1> QED BY <1>1 DEF ServerCalm

\* What is left alone when the server and the cache are.
LEMMA CacheKept ==
  ASSUME CalmNow, UNCHANGED <<srv, cache>>
  PROVE  SrvCalm' /\ CacheCalm'
  BY DEF CalmNow, SrvCalm, CacheCalm, Holds

LEMMA SettledCalm ==
  ASSUME TypeInv, CalmNow, NEW i \in 1..Len(flow), NEW f \in Flows,
         flow[i].kind = "stream", flow[i].phase # "ended",
         f.kind = "stream", f.terminal = flow[i].terminal, f.task = flow[i].task, f.pos = flow[i].pos,
         \/ Returned(i, f)
         \/ Thrown(i, f) /\ (f.aborted \/ ~f.terminal)
         \/ Loop(i, f),
         UNCHANGED <<srv, cache, seen>>
  PROVE  CalmNow'
<1>1. store \in Stores /\ flow[i] \in Flows BY DEF TypeInv, TypeOK
<1>2. /\ FlowCalm(flow[i]) /\ poll.phase # "asked"
      /\ store.connection # "recovering"
      /\ store.taskId # NoTask =>
           /\ StillAsked(store.taskId, store.reviewDecision)
           /\ StillAsked(store.taskId, cache[store.taskId].review)
      /\ store.serverStatus \in {None, "running"} \/ f.terminal
  BY UnderWayCalm DEF FlowCalm, StillAsked, NoData, None
<1>3. SrvCalm' /\ CacheCalm' BY CacheKept
<1>4. ASSUME NEW c, store' = [store EXCEPT !.connection = c] \/ store' = store
      PROVE  StoreCalm' /\ ShownCalm' /\ store'.serverStatus = store.serverStatus
             /\ store'.reviewDecision = store.reviewDecision /\ store'.taskId = store.taskId
  <2>1. store'.serverStatus = store.serverStatus /\ store'.reviewDecision = store.reviewDecision
        /\ store'.taskId = store.taskId
    BY <1>1, <1>4 DEF Stores
  <2>2. StoreCalm' BY <2>1 DEF CalmNow, StoreCalm
  <2>3. EffectDue' = EffectDue BY <2>1 DEF EffectDue, QueryData
  <2>4. ShownCalm' BY <2>1, <2>3 DEF CalmNow, ShownCalm
  <2> QED BY <2>1, <2>2, <2>4
<1>5. ASSUME NEW g, g.phase = "ended", Step(i, g), poll' = poll,
             \/ store' = store
             \/ store' = [store EXCEPT !.connection = "offline"]
             \/ /\ store' = [store EXCEPT !.connection = "recovering"]
                /\ store.serverStatus \notin Final
      PROVE  CalmNow'
  <2>1. PICK c \in {"offline", "recovering"} :
          /\ store' = [store EXCEPT !.connection = c] \/ store' = store
          /\ c = "recovering" => store.serverStatus \notin Final \/ store' = store
    BY <1>5
  <2>2. StoreCalm' /\ ShownCalm' /\ store'.serverStatus = store.serverStatus
        /\ store'.reviewDecision = store.reviewDecision
    BY <1>4, <2>1
  <2>3. store'.connection = "recovering" => store.serverStatus \notin Final
    BY <1>1, <1>2, <2>1 DEF Stores
  <2>4. store'.taskId # NoTask /\ store'.connection = "recovering" =>
          /\ store'.serverStatus # "awaiting_user"
          /\ StillAsked(store.taskId, store.reviewDecision)'
          /\ StillAsked(store.taskId, cache[store.taskId].review)'
    <3>1. store'.taskId = store.taskId BY <1>4, <2>1
    <3> QED BY <1>2, <2>2, <2>3, <3>1 DEF Final, StillAsked
  <2> QED BY <1>2, <1>3, <1>5, <2>2, <2>4, CalmStep
<1>6. Ended(f).phase = "ended" /\ [Ended(f) EXCEPT !.thrown = TRUE].phase = "ended" BY DEF Ended, Flows
<1>7. \A c \in {"recovering", "offline"} : [store EXCEPT !.connection = c].taskId = store.taskId
  BY <1>1 DEF Stores
<1>8. CASE Returned(i, f)
  <2>1. CASE store.serverStatus \in Final BY <1>5, <1>6, <1>8, <2>1 DEF Returned, Quietly
  <2>2. CASE store.serverStatus \notin Final
    <3>1. poll' = poll /\ (store' = [store EXCEPT !.connection = "offline"]
                           \/ store' = [store EXCEPT !.connection = "recovering"])
      BY <1>7, <1>8, <2>2 DEF Returned, Show
    <3> QED BY <1>5, <1>6, <1>8, <2>2, <3>1 DEF Returned
  <2> QED BY <2>1, <2>2
<1>9. CASE Thrown(i, f) /\ (f.aborted \/ ~f.terminal)
  <2>1. CASE f.aborted BY <1>5, <1>6, <1>9, <2>1 DEF Thrown, Quietly
  <2>2. CASE ~f.aborted
    <3>1. poll' = poll /\ (store' = [store EXCEPT !.connection = "offline"]
                           \/ store' = [store EXCEPT !.connection = "recovering"])
      BY <1>7, <1>9, <2>2 DEF Thrown, Show
    <3>2. store.serverStatus \notin Final BY <1>2, <1>9, <2>2 DEF Final, None
    <3> QED BY <1>5, <1>6, <1>9, <3>1, <3>2 DEF Thrown
  <2> QED BY <2>1, <2>2
<1>10. CASE Loop(i, f)
  <2>1. CASE f.terminal \/ ~f.known \/ f.aborted BY <1>8, <1>10, <2>1 DEF Loop
  <2>2. CASE ~(f.terminal \/ ~f.known \/ f.aborted) /\ f.attempt >= MAX_RECONNECTS
    BY <1>9, <1>10, <2>2 DEF Loop
  <2>3. CASE ~(f.terminal \/ ~f.known \/ f.aborted) /\ ~(f.attempt >= MAX_RECONNECTS)
    <3> DEFINE g == [f EXCEPT !.phase = "sleeping"]
    <3>1. Step(i, g) /\ store' = store /\ poll' = poll BY <1>10, <2>3 DEF Loop, Quietly
    <3>2. g.kind = "stream" /\ g.terminal = f.terminal /\ g.task = f.task /\ g.pos = f.pos
          /\ g.phase = "sleeping"
      BY DEF Flows
    <3> HIDE DEF g
    <3>3. StoreCalm' /\ ShownCalm' BY <1>4, <3>1
    <3>4. flow'[i] = g BY <3>1 DEF Step, TypeInv, TypeOK
    <3>5. FlowCalm(flow[i])' BY <1>2, <3>1, <3>2, <3>4 DEF FlowCalm, FramesStillAsk, Frame
    <3> QED BY <1>2, <1>3, <3>1, <3>3, <3>5, CalmStep
  <2> QED BY <2>1, <2>2, <2>3
<1> QED BY <1>8, <1>9, <1>10

\* A flow goes to another phase of its stream, and the page shows nothing of it.
LEMMA PhaseCalm ==
  ASSUME TypeInv, CalmNow, NEW i \in 1..Len(flow), NEW f,
         flow[i].kind = "stream", flow[i].phase # "ended", ~flow[i].terminal \/ f.pos = flow[i].pos,
         f.kind = "stream", f.phase # "answered", f.terminal = flow[i].terminal, f.task = flow[i].task,
         Step(i, f), Quietly, UNCHANGED <<srv, cache, seen>>
  PROVE  CalmNow'
<1>1. SrvCalm' /\ CacheCalm' BY CacheKept
<1>2. StoreCalm' BY DEF CalmNow, StoreCalm, Quietly
<1>3. ShownCalm' BY DEF CalmNow, ShownCalm, EffectDue, QueryData, Quietly
<1>4. FlowCalm(flow[i]) /\ poll.phase # "asked" /\ store.connection # "recovering"
  BY UnderWayCalm DEF FlowCalm
<1>5. flow'[i] = f BY DEF Step, TypeInv, TypeOK
<1>6. FlowCalm(flow[i])' BY <1>4, <1>5 DEF FlowCalm, FramesStillAsk, Frame, Quietly
<1> QED BY <1>1, <1>2, <1>3, <1>4, <1>6, CalmStep DEF Quietly

\* A task of which the page has seen nothing is born.
LEMMA PostArrivesCalm ==
  ASSUME TypeInv, CalmNow, NEW i \in 1..Len(flow), PostArrives(i)
  PROVE  CalmNow'
<1> DEFINE t == CHOOSE u \in Tasks : srv[u] = Unborn
           f == [flow[i] EXCEPT !.phase = "reading", !.task = t]
           r == [srv[t] EXCEPT !.status = "running", !.frames = 1, !.live = TRUE, !.kept = TRUE]
<1>1. t \in Tasks /\ srv[t] = Unborn BY DEF PostArrives
<1>2. srv' = [srv EXCEPT ![t] = r] /\ Step(i, f) BY DEF PostArrives
<1>3. flow[i] \in Flows /\ FlowInv(flow[i]) BY FlowTyped
<1>4. t # NoTask /\ ~Exists(t) BY <1>1, ClientAssumption DEF Exists, Unborn
<1> HIDE DEF t
<1>5. r.status = "running" /\ r.review = None /\ r.live /\ r.frames = 1
  <2>1. r = [Unborn EXCEPT !.status = "running", !.frames = 1, !.live = TRUE, !.kept = TRUE] BY <1>1
  <2> HIDE DEF r
  <2> QED BY <2>1 DEF Unborn
<1> HIDE DEF r
<1>6. srv'[t] = r /\ \A u \in Tasks : u # t => srv'[u] = srv[u] BY <1>1, <1>2 DEF TypeInv, TypeOK
<1>7. cache[t] = NoData BY <1>1, <1>4 DEF TypeInv, ExistInv
<1>8. flow[i].kind = "stream" /\ flow[i].phase = "asked" /\ flow[i].task = NoTask /\ ~flow[i].terminal
  BY <1>3 DEF FlowInv, PostArrives
<1>9. FlowCalm(flow[i]) /\ poll.phase # "asked" BY <1>8, UnderWayCalm
<1>10. store.taskId = NoTask /\ store.reviewDecision # "need_user_decision" BY <1>8, <1>9 DEF FlowCalm
<1>11. SrvCalm' BY <1>5, <1>6 DEF CalmNow, SrvCalm, None
<1>12. CacheCalm'
  <2>1. cache' = cache BY DEF PostArrives
  <2>2. \A u \in Tasks : Holds(u, cache[u])'
    BY <1>6, <1>7, <2>1 DEF CalmNow, CacheCalm, Holds, NoData, None
  <2> QED BY <2>2 DEF CacheCalm
<1>13. UNCHANGED <<store, poll, cache, seen>> BY DEF PostArrives
<1>14. StoreCalm' BY <1>10, <1>13, ClientAssumption DEF CalmNow, StoreCalm
<1>15. ShownCalm' BY <1>10, <1>13 DEF ShownCalm
<1>17. f.kind = "stream" /\ f.phase = "reading" /\ f.task = t /\ f.terminal = FALSE BY <1>3, <1>8 DEF Flows
<1> HIDE DEF f
<1>16. flow'[i] = f BY <1>2 DEF Step, TypeInv, TypeOK
<1>18. FlowCalm(flow[i])'
  <2>1. PICK u : u = t OBVIOUS
  <2>2. ASSUME NEW n \in 0..srv'[u].frames - 1 PROVE ~Asks(Frame(u, n))'
    <3>1. n = 0 BY <1>5, <1>6, <2>1
    <3> QED BY <3>1 DEF Frame, Asks
  <2>3. FramesStillAsk(u)' BY <2>2 DEF FramesStillAsk
  <2>4. flow'[i].task = u /\ cache[u] = NoData BY <1>7, <1>16, <1>17, <2>1
  <2>5. FramesStillAsk(flow[i].task)' BY <2>3, <2>4 DEF FramesStillAsk, Frame
  <2> QED BY <1>8, <1>9, <1>10, <1>13, <1>16, <1>17, <2>4, <2>5 DEF FlowCalm
<1> QED BY <1>2, <1>8, <1>9, <1>10, <1>11, <1>12, <1>13, <1>14, <1>15, <1>18, CalmStep

\* A frame says of its task what is so, or what was asked and still is.
LEMMA ReadFrameCalm ==
  ASSUME TypeInv, CalmNow, NEW i \in 1..Len(flow), ReadFrame(i)
  PROVE  CalmNow'
<1> DEFINE t == flow[i].task
           e == Frame(flow[i].task, flow[i].pos)
<1>1. PICK k \in BOOLEAN, b \in BOOLEAN :
        LET f == [flow[i] EXCEPT !.lastId = flow[i].pos, !.pos = @ + 1, !.applied = @ + 1,
                                 !.known = k, !.terminal = b]
        IN /\ b => k
           /\ Step(i, f)
           /\ flow[i].task \in Tasks
           /\ \/ Quietly /\ k = flow[i].known /\ b = flow[i].terminal
              \/ /\ e \in Received /\ k
                 /\ b = (e.type \in {"task_finished", "task_error"})
                 /\ Show(applyEvent(store, flow[i].task, e))
  BY ReadFrameEffect
<1> DEFINE f == [flow[i] EXCEPT !.lastId = flow[i].pos, !.pos = @ + 1, !.applied = @ + 1,
                                !.known = k, !.terminal = b]
<1>2. flow[i] \in Flows /\ store \in Stores BY FlowTyped DEF TypeInv, TypeOK
<1>3. /\ flow[i].kind = "stream" /\ flow[i].phase = "reading" /\ flow[i].pos < srv[t].frames
      /\ UNCHANGED <<srv, cache, seen>>
  BY DEF ReadFrame
<1>4. t \in Tasks /\ t # NoTask /\ flow[i].pos \in Nat /\ srv[t] \in Servers
  BY <1>1, <1>2, ClientAssumption DEF Flows, TypeInv, TypeOK
<1>5. /\ FlowCalm(flow[i]) /\ poll.phase # "asked" /\ store.connection # "recovering"
      /\ store.taskId \in {NoTask, t} /\ StillAsked(t, store.reviewDecision)
      /\ cache[t] = NoData /\ FramesStillAsk(t)
  BY <1>3, <1>4, UnderWayCalm DEF FlowCalm, StillAsked
<1>6. ~flow[i].terminal /\ store.serverStatus \in {None, "running"}
  <2>1. srv[t].frames \in Nat BY <1>4 DEF Servers
  <2>2. ~flow[i].terminal BY <1>3, <1>4, <1>5, <2>1 DEF FlowCalm
  <2> QED BY <1>3, <1>5, <2>2 DEF FlowCalm
<1>7. f.kind = "stream" /\ f.phase = "reading" /\ f.task = t /\ f.terminal = b /\ f.pos = flow[i].pos + 1
  BY <1>2, <1>3 DEF Flows
<1>8. Step(i, f) BY <1>1
<1> HIDE DEF f
<1>9. flow'[i] = f BY <1>8 DEF Step, TypeInv, TypeOK
<1>10. SrvCalm' /\ CacheCalm' BY <1>3, CacheKept
<1>13. FramesStillAsk(flow[i].task)'
  <2>1. PICK u : u = t OBVIOUS
  <2>2. FramesStillAsk(u)' BY <1>3, <1>5, <2>1 DEF FramesStillAsk, Frame
  <2>3. flow'[i].task = u BY <1>7, <1>9, <2>1
  <2> QED BY <2>2, <2>3 DEF FramesStillAsk, Frame
<1>11. CASE Quietly /\ b = flow[i].terminal
  <2>1. StoreCalm' BY <1>3, <1>11 DEF CalmNow, StoreCalm, Quietly
  <2>2. ShownCalm' BY <1>3, <1>11 DEF CalmNow, ShownCalm, EffectDue, QueryData, Quietly
  <2>3. FlowCalm(flow[i])'
    BY <1>3, <1>4, <1>5, <1>6, <1>7, <1>9, <1>11, <1>13 DEF FlowCalm, StillAsked, Quietly
  <2> QED BY <1>3, <1>5, <1>8, <1>10, <1>11, <2>1, <2>2, <2>3, CalmStep DEF Quietly
<1>12. CASE /\ e \in Received
            /\ b = (e.type \in {"task_finished", "task_error"})
            /\ Show(applyEvent(store, t, e))
  <2> DEFINE s == applyEvent(store, t, e)
  <2>1. store' = s /\ poll'.phase # "asked" BY <1>5, <1>12 DEF Show
  <2>2. s \in Stores /\ s.taskId = t BY <1>2, <1>4, <1>12, EventTyped
  <2>3. /\ e.type = "task_finished" => e.status = srv[t].status /\ b
        /\ b => srv[t].done /\ flow[i].pos = srv[t].frames - 1
    BY <1>3, <1>4, <1>12, FrameTyped
  <2>4. e.type = "node_end" /\ e.role = "reviewer" => StillAsked(t, e.decision)
    <3>1. srv[t].frames \in Nat BY <1>4 DEF Servers
    <3>2. flow[i].pos \in 0..srv[t].frames - 1 BY <1>3, <1>4, <3>1
    <3> QED BY <1>5, <3>2 DEF FramesStillAsk, StillAsked, Asks
  <2> HIDE DEF e
  <2>5. /\ s.connection \in {store.connection, "live", "idle"}
        /\ e.type = "task_finished" => s.serverStatus = e.status
        /\ e.type = "task_error" => s.serverStatus = "failed"
        /\ ~b => s.serverStatus \in {store.serverStatus, "running"}
        /\ \/ s.reviewDecision \in {store.reviewDecision, None}
           \/ e.type = "node_end" /\ e.role = "reviewer" /\ s.reviewDecision = e.decision
    BY <1>2, <1>4, <1>12, EventShown
  <2> HIDE DEF s
  <2>6. StillAsked(t, s.reviewDecision) BY <1>5, <2>4, <2>5 DEF StillAsked, None
  <2>7. s.connection # "recovering" BY <1>5, <2>5
  <2>8. s.serverStatus \in {None, "running", "failed"} \/ (s.serverStatus = srv[t].status /\ srv[t].done)
    BY <1>6, <1>12, <2>3, <2>5
  <2>9. srv[t].status = "completed" => srv[t].review = "approved" BY <1>4 DEF CalmNow, SrvCalm
  <2>10. StoreCalm'
    BY <1>3, <1>4, <2>1, <2>2, <2>6, <2>8, <2>9 DEF StoreCalm, StillAsked, None
  <2>11. ShownCalm' BY <1>3, <1>5, <2>1, <2>2 DEF ShownCalm, NoData, None
  <2>12. b => f.pos >= srv[t].frames
    <3>1. srv[t].frames \in Nat BY <1>4 DEF Servers
    <3> QED BY <1>4, <1>7, <2>3, <3>1
  <2>13. FlowCalm(flow[i])'
    BY <1>3, <1>4, <1>5, <1>6, <1>7, <1>9, <1>13, <2>1, <2>2, <2>3, <2>5, <2>6, <2>7, <2>12
    DEF FlowCalm, StillAsked
  <2> QED BY <1>3, <1>8, <1>10, <2>1, <2>7, <2>10, <2>11, <2>13, CalmStep
<1> QED BY <1>1, <1>11, <1>12

LEMMA StreamCalm ==
  ASSUME TypeInv, CalmNow, NEW i \in 1..Len(flow),
         Stream(i) \/ PostFails(i) \/ StreamBreaks(i)
  PROVE  CalmNow'
<1>1. flow[i] \in Flows /\ FlowInv(flow[i]) BY FlowTyped
<1>2. CASE PostFails(i)
  <2>1. flow[i].kind = "stream" /\ flow[i].phase # "ended" /\ ~flow[i].terminal
    BY <1>1, <1>2 DEF FlowInv, PostFails
  <2> QED BY <1>1, <1>2, <2>1, SettledCalm DEF PostFails
<1>3. CASE StreamCloses(i)
  <2> DEFINE f == [flow[i] EXCEPT !.retrying = TRUE, !.attempt = 0]
  <2>1. f \in Flows /\ f.task = flow[i].task /\ f.kind = flow[i].kind /\ f.pos = flow[i].pos
        /\ f.terminal = flow[i].terminal
    <3>1. 0 \in 0..MAX_RECONNECTS BY ClientAssumption
    <3> QED BY <1>1, <3>1 DEF Flows
  <2>2. Loop(i, f) /\ flow[i].kind = "stream" /\ flow[i].phase # "ended" /\ UNCHANGED <<srv, cache, seen>>
    BY <1>3 DEF StreamCloses
  <2> HIDE DEF f
  <2> QED BY <2>1, <2>2, SettledCalm
<1>4. CASE StreamBreaks(i)
  <2> DEFINE f == [flow[i] EXCEPT !.retrying = TRUE]
  <2>1. f \in Flows /\ f.task = flow[i].task /\ f.kind = flow[i].kind /\ f.pos = flow[i].pos
        /\ f.terminal = flow[i].terminal
    BY <1>1 DEF Flows
  <2>2. /\ Loop(i, f) \/ (Thrown(i, flow[i]) /\ ~flow[i].terminal)
        /\ flow[i].kind = "stream" /\ flow[i].phase # "ended" /\ UNCHANGED <<srv, cache, seen>>
    BY <1>1, <1>4 DEF StreamBreaks, FlowInv
  <2> HIDE DEF f
  <2> QED BY <1>1, <2>1, <2>2, SettledCalm
<1>5. CASE StreamAborted(i)
  BY <1>1, <1>5, SettledCalm DEF StreamAborted
<1>6. CASE Wake(i)
  <2> DEFINE a == flow[i].attempt + 1
             f == [flow[i] EXCEPT !.phase = "opening", !.attempt = a]
  <2>1. Step(i, f) /\ Quietly /\ UNCHANGED <<srv, cache, seen>> /\ flow[i].kind = "stream"
        /\ flow[i].phase # "ended"
    BY <1>6 DEF Wake, Quietly
  <2> HIDE DEF a
  <2>2. f.kind = flow[i].kind /\ f.phase = "opening" /\ f.terminal = flow[i].terminal /\ f.task = flow[i].task
        /\ f.pos = flow[i].pos
    BY <1>1 DEF Flows
  <2> HIDE DEF f
  <2> QED BY <2>1, <2>2, PhaseCalm
<1>7. CASE Reconnect(i)
  <2>1. flow[i].kind = "stream" /\ flow[i].phase # "ended" /\ ~flow[i].terminal /\ UNCHANGED <<srv, cache, seen>>
    BY <1>1, <1>7 DEF Reconnect, FlowInv
  <2>2. CASE Thrown(i, flow[i]) \/ Loop(i, flow[i]) BY <1>1, <2>1, <2>2, SettledCalm
  <2>3. CASE Step(i, [flow[i] EXCEPT !.phase = "opened"]) /\ Quietly
    <3> DEFINE f == [flow[i] EXCEPT !.phase = "opened"]
    <3>1. f.kind = flow[i].kind /\ f.phase = "opened" /\ f.terminal = flow[i].terminal
          /\ f.task = flow[i].task
      BY <1>1 DEF Flows
    <3> QED BY <2>1, <2>3, <3>1, PhaseCalm
  <2>4. CASE Step(i, [flow[i] EXCEPT !.phase = "reading", !.pos = flow[i].lastId + 1]) /\ Quietly
    <3> DEFINE n == flow[i].lastId + 1
               f == [flow[i] EXCEPT !.phase = "reading", !.pos = n]
    <3>1. Step(i, f) BY <2>4
    <3> HIDE DEF n
    <3>2. f.kind = flow[i].kind /\ f.phase = "reading" /\ f.terminal = flow[i].terminal
          /\ f.task = flow[i].task
      BY <1>1 DEF Flows
    <3> HIDE DEF f
    <3> QED BY <2>1, <2>4, <3>1, <3>2, PhaseCalm
  <2> QED BY <1>7, <2>2, <2>3, <2>4 DEF Reconnect
<1> QED BY <1>2, <1>3, <1>4, <1>5, <1>6, <1>7, PostArrivesCalm, ReadFrameCalm DEF Stream

\* The server's word on a task that awaited the user, or on one that was asked for.
LEMMA AnswersCalm ==
  ASSUME TypeInv, CalmNow, NEW i \in 1..Len(flow), Answers(i)
  PROVE  CalmNow'
<1> DEFINE t == flow[i].task
<1>1. flow[i] \in Flows /\ FlowInv(flow[i]) BY FlowTyped
<1>2. /\ flow[i].kind \in {"select", "resume"} /\ flow[i].phase = "asked"
      /\ UNCHANGED <<store, poll, cache, seen>>
  BY DEF Answers
<1>3. t \in Tasks /\ t # NoTask
  <2>1. t # NoTask BY <1>1, <1>2 DEF FlowInv
  <2> QED BY <1>1, <2>1 DEF Flows
<1>4. /\ FlowCalm(flow[i])
      /\ flow[i].kind # "resume" => poll.phase # "asked"
      /\ store.taskId # NoTask => store.connection # "recovering"
  BY <1>2, UnderWayCalm
<1>5. ShownCalm' BY <1>2 DEF CalmNow, ShownCalm, EffectDue, QueryData
<1>6. ASSUME NEW a, Step(i, [flow[i] EXCEPT !.phase = "answered", !.answer = a])
      PROVE  /\ flow'[i].kind = flow[i].kind /\ flow'[i].task = t /\ flow'[i].answer = a
  <2> DEFINE g == [flow[i] EXCEPT !.phase = "answered", !.answer = a]
  <2>1. g.kind = flow[i].kind /\ g.task = t /\ g.answer = a BY <1>1 DEF Flows
  <2>2. Step(i, g) BY <1>6
  <2> HIDE DEF g
  <2>3. flow'[i] = g BY <2>2 DEF Step, TypeInv, TypeOK
  <2> QED BY <2>1, <2>3
<1>7. CASE flow[i].kind = "select"
  <2> DEFINE a == Snapshot(t)
  <2>1. Step(i, [flow[i] EXCEPT !.phase = "answered", !.answer = a]) /\ UNCHANGED srv
    BY <1>7 DEF Answers
  <2>2. SrvCalm' /\ CacheCalm' BY <1>2, <2>1, CacheKept
  <2>3. StoreCalm' BY <1>2, <2>1 DEF CalmNow, StoreCalm
  <2>4. Holds(t, a) BY <1>3 DEF Holds, Snapshot, CalmNow, SrvCalm
  <2> HIDE DEF a
  <2>5. flow'[i].kind = "select" /\ flow'[i].task = t /\ flow'[i].answer = a BY <1>6, <1>7, <2>1
  <2>6. Holds(flow[i].task, flow[i].answer)' BY <2>1, <2>4, <2>5 DEF Holds
  <2>7. FlowCalm(flow[i])' BY <1>2, <1>4, <1>7, <2>5, <2>6 DEF FlowCalm
  <2>8. PICK f : Step(i, f) BY <2>1
  <2>9. poll'.phase # "asked" BY <1>2, <1>4, <1>7
  <2>10. ~(store'.taskId # NoTask /\ store'.connection = "recovering") BY <1>2, <1>4
  <2>11. flow[i].phase # "ended" BY <1>2
  <2> QED BY <1>5, <2>2, <2>3, <2>7, <2>8, <2>9, <2>10, <2>11, CalmStep
<1>8. CASE flow[i].kind = "resume"
  <2>1. PICK s \in Outcomes :
          /\ srv' = [srv EXCEPT ![t].status = s, ![t].review = ReviewOf(s)]
          /\ Step(i, [flow[i] EXCEPT !.phase = "answered",
                        !.answer = [Snapshot(t) EXCEPT !.status = s, !.review = ReviewOf(s)]])
    BY <1>8 DEF Answers
  <2> DEFINE r == [srv[t] EXCEPT !.status = s, !.review = ReviewOf(s)]
             a == [Snapshot(t) EXCEPT !.status = s, !.review = ReviewOf(s)]
  <2>2. srv \in [Tasks -> Servers] /\ srv[t] \in Servers BY <1>3 DEF TypeInv, TypeOK
  <2>3. srv' = [srv EXCEPT ![t] = r] BY <1>3, <2>1, <2>2
  <2>4. r.status = s /\ r.review = ReviewOf(s) /\ r.live = srv[t].live BY <2>2 DEF Servers
  <2>5. a.status = s /\ a.review = ReviewOf(s) BY DEF Snapshot
  <2>6. Step(i, [flow[i] EXCEPT !.phase = "answered", !.answer = a]) BY <2>1
  <2> HIDE DEF r, a, t
  <2>7. srv'[t] = r /\ \A u \in Tasks : u # t => srv'[u] = srv[u] BY <1>3, <2>2, <2>3
  <2>8. store.taskId = t /\ store.serverStatus # "completed" /\ cache[t].status # "completed" /\ ~srv[t].live
    BY <1>4, <1>8 DEF FlowCalm, t
  <2>9. s = "completed" => ReviewOf(s) = "approved" BY DEF ReviewOf
  <2>16. PollCalm'
    <3>1. Busy BY <1>2 DEF Busy
    <3>2. poll.phase = "asked" => ~EffectDue /\ poll.answer.status # "completed"
      BY <3>1 DEF CalmNow, PollCalm
    <3>3. EffectDue' = EffectDue BY <1>2 DEF EffectDue, QueryData
    <3> QED BY <1>2, <1>4, <1>8, <3>2, <3>3 DEF PollCalm, Holds, FlowCalm
  <2>10. SrvCalm' BY <2>4, <2>7, <2>8, <2>9 DEF CalmNow, SrvCalm
  <2>11. CacheCalm'
    <3>1. \A u \in Tasks : Holds(u, cache[u])'
      BY <1>2, <2>4, <2>7, <2>8 DEF CalmNow, CacheCalm, Holds
    <3> QED BY <3>1 DEF CacheCalm
  <2>12. StoreCalm' BY <1>2, <1>3, <2>4, <2>7, <2>8 DEF StoreCalm, t
  <2>13. flow'[i].kind = "resume" /\ flow'[i].task = t /\ flow'[i].answer = a
    BY <1>6, <1>8, <2>6 DEF t
  <2>14. Holds(flow[i].task, flow[i].answer)'
    BY <2>4, <2>5, <2>7, <2>8, <2>9, <2>13 DEF Holds
  <2>15. FlowCalm(flow[i])'
    BY <1>2, <1>3, <1>4, <2>4, <2>7, <2>8, <2>13, <2>14 DEF FlowCalm, t
  <2> QED BY <1>2, <1>3, <1>4, <1>5, <2>6, <2>8, <2>10, <2>11, <2>12, <2>15, <2>16, CalmStep, ClientAssumption DEF t
<1> QED BY <1>2, <1>7, <1>8

\* What a snapshot that holds leaves of the store.
LEMMA FoldCalm ==
  ASSUME NEW s \in Stores, NEW t \in Tasks, NEW data \in Snapshots, Holds(t, data)
  PROVE  LET r == applySnapshot(s, t, data) IN
         /\ r \in Stores /\ r.taskId = t /\ r.serverStatus = data.status
         /\ data.review # None => r.reviewDecision = data.review
         /\ data.review = None => r.reviewDecision = s.reviewDecision
         /\ data.status \in Final => r.connection = "idle"
         /\ data.status \notin Final => r.connection = s.connection
         /\ data.status = "completed" =>
              srv[t].status = "completed" /\ r.reviewDecision # "need_user_decision"
<1> DEFINE r == applySnapshot(s, t, data)
<1>1. r \in Stores /\ r.taskId = t BY FoldTyped
<1>2. /\ r.serverStatus = data.status
      /\ r.reviewDecision = IF data.review = None THEN s.reviewDecision ELSE data.review
      /\ r.connection = IF data.status \in Final THEN "idle" ELSE s.connection
  BY DEF applySnapshot, Stores
<1> HIDE DEF r
<1>3. data.status = "completed" => srv[t].status = "completed" /\ r.reviewDecision # "need_user_decision"
  BY <1>2 DEF Holds, None
<1> QED BY <1>1, <1>2, <1>3 DEF r

\* A selected session is shown, and what the cache has of it is due after that.
LEMMA SelectEndsCalm ==
  ASSUME TypeInv, CalmNow, ~EffectDue, NEW i \in 1..Len(flow), SelectEnds(i)
  PROVE  CalmNow'
<1> DEFINE t == flow[i].task
           shown == applySnapshot(store, t, flow[i].answer)
<1>1. flow[i] \in Flows /\ FlowInv(flow[i]) /\ store \in Stores BY FlowTyped DEF TypeInv, TypeOK
<1>2. flow[i].kind = "select" /\ UNCHANGED <<srv, cache, seen>> /\ Step(i, Ended(flow[i])) BY DEF SelectEnds
<1>3. flow[i].phase # "ended" BY DEF SelectEnds
<1>4. t \in Tasks /\ t # NoTask
  <2>1. t # NoTask BY <1>1, <1>2 DEF FlowInv
  <2> QED BY <1>1, <2>1 DEF Flows
<1>5. FlowCalm(flow[i]) /\ poll.phase # "asked" /\ store.taskId = NoTask
  BY <1>2, <1>3, UnderWayCalm DEF FlowCalm
<1>6. store.serverStatus # "completed" BY <1>5, ClientAssumption DEF CalmNow, StoreCalm
<1>7. \/ /\ store'.serverStatus = "completed" => srv[t].status = "completed"
                                               /\ store'.reviewDecision # "need_user_decision"
         /\ store'.taskId = t /\ store'.connection = "idle" /\ poll'.phase # "asked"
      \/ /\ store'.serverStatus = store.serverStatus /\ store'.reviewDecision = store.reviewDecision
         /\ store'.taskId = t /\ store'.connection = "offline" /\ poll'.phase # "asked"
  <2>1. CASE /\ flow[i].phase = "answered"
             /\ Show(IF flow[i].answer.status = "running" THEN markInterrupted(shown) ELSE shown)
    <3>1. flow[i].answer \in Snapshots /\ Holds(t, flow[i].answer)
      BY <1>1, <1>5, <2>1 DEF FlowInv, FlowCalm
    <3>2. /\ shown \in Stores /\ shown.taskId = t /\ shown.serverStatus = flow[i].answer.status
          /\ flow[i].answer.status \in Final => shown.connection = "idle"
          /\ shown.serverStatus = "completed" =>
               srv[t].status = "completed" /\ shown.reviewDecision # "need_user_decision"
      BY <1>1, <1>4, <3>1, FoldCalm
    <3> HIDE DEF shown
    <3>3. CASE flow[i].answer.status = "running"
      <4>1. store' = markInterrupted(shown) /\ poll'.phase # "asked" BY <1>5, <2>1, <3>3 DEF Show
      <4>2. store'.taskId = t /\ store'.serverStatus = shown.serverStatus
            /\ store'.reviewDecision = shown.reviewDecision /\ store'.connection = "idle"
        BY <3>2, <4>1 DEF markInterrupted, Stores
      <4> QED BY <3>2, <4>1, <4>2
    <3>4. CASE flow[i].answer.status # "running"
      <4>1. store' = shown /\ poll'.phase # "asked" BY <1>5, <2>1, <3>4 DEF Show
      <4>2. flow[i].answer.status \in Final BY <3>1, <3>4 DEF Snapshots, Statuses, Final
      <4> QED BY <3>2, <4>1, <4>2
    <3> QED BY <3>3, <3>4
  <2>2. CASE Show([applyUnread(store, t) EXCEPT !.connection = "offline"])
    <3>1. store' = [applyUnread(store, t) EXCEPT !.connection = "offline"] /\ poll'.phase # "asked"
      BY <1>5, <2>2 DEF Show
    <3>2. store'.taskId = t /\ store'.serverStatus = store.serverStatus
          /\ store'.reviewDecision = store.reviewDecision /\ store'.connection = "offline"
      BY <1>1, <3>1 DEF applyUnread, Stores
    <3> QED BY <3>1, <3>2
  <2> QED BY <2>1, <2>2 DEF SelectEnds
<1>8. store'.taskId = t /\ store'.connection # "recovering" /\ poll'.phase # "asked" BY <1>7
<1>9. StoreCalm' BY <1>2, <1>4, <1>6, <1>7 DEF StoreCalm
<1>10. ShownCalm'
  <2>1. seen.task = NoTask BY <1>5 DEF EffectDue, QueryData
  <2>2. cache[t].status = "completed" => cache[t] # NoData BY DEF NoData, None
  <2>3. cache[t].status = "completed" => QueryData'.task = t BY <1>2, <1>4, <1>8, <2>2 DEF QueryData
  <2>4. cache[t].status = "completed" => EffectDue' BY <1>2, <1>4, <2>1, <2>3 DEF EffectDue
  <2> QED BY <1>2, <1>8, <2>4 DEF ShownCalm
<1>11. Ended(flow[i]).phase = "ended" BY <1>1 DEF Ended, Flows
<1>12. SrvCalm' /\ CacheCalm' BY <1>2, CacheKept
<1> HIDE DEF t
<1> QED BY <1>2, <1>3, <1>8, <1>9, <1>10, <1>11, <1>12, CalmStep

\* A resume comes back, is aborted, or is lost.
LEMMA ResumeEndsCalm ==
  ASSUME TypeInv, CalmNow, NEW i \in 1..Len(flow), ResumeEnds(i)
  PROVE  CalmNow'
<1> DEFINE t == flow[i].task
<1>1. flow[i] \in Flows /\ FlowInv(flow[i]) /\ store \in Stores BY FlowTyped DEF TypeInv, TypeOK
<1>2. flow[i].kind = "resume" /\ UNCHANGED <<srv, cache, seen>> /\ Step(i, Ended(flow[i])) BY DEF ResumeEnds
<1>3. flow[i].phase # "ended" BY DEF ResumeEnds
<1>4. t \in Tasks /\ t # NoTask
  <2>1. t # NoTask BY <1>1, <1>2 DEF FlowInv
  <2> QED BY <1>1, <2>1 DEF Flows
<1>5. /\ FlowCalm(flow[i]) /\ store.taskId = t /\ store.connection # "recovering"
      /\ store.serverStatus # "completed" /\ cache[t].status # "completed"
  BY <1>2, <1>3, <1>4, UnderWayCalm DEF FlowCalm
<1>6. /\ store'.taskId = t /\ store'.connection # "recovering" /\ poll' = poll
      /\ store'.serverStatus = "completed" =>
           srv[t].status = "completed" /\ store'.reviewDecision # "need_user_decision"
  <2>1. CASE /\ flow[i].phase = "answered"
             /\ Show([applySnapshot(store, t, flow[i].answer) EXCEPT !.resuming = FALSE])
    <3> DEFINE s == applySnapshot(store, t, flow[i].answer)
    <3>1. flow[i].answer \in Snapshots /\ Holds(t, flow[i].answer)
      BY <1>1, <1>5, <2>1 DEF FlowInv, FlowCalm
    <3>2. /\ s \in Stores /\ s.taskId = t /\ s.serverStatus = flow[i].answer.status
          /\ s.connection \in {"idle", store.connection}
          /\ s.serverStatus = "completed" =>
               srv[t].status = "completed" /\ s.reviewDecision # "need_user_decision"
      BY <1>1, <1>4, <3>1, FoldCalm
    <3>3. store' = [s EXCEPT !.resuming = FALSE] /\ (store'.taskId = store.taskId => poll' = poll)
      BY <2>1 DEF Show
    <3> HIDE DEF s
    <3>4. store'.taskId = s.taskId /\ store'.connection = s.connection
          /\ store'.serverStatus = s.serverStatus /\ store'.reviewDecision = s.reviewDecision
      BY <3>2, <3>3 DEF Stores
    <3> QED BY <1>5, <3>2, <3>3, <3>4
  <2>2. CASE Show([store EXCEPT !.resuming = FALSE])
    BY <1>1, <1>5, <2>2 DEF Show, Stores
  <2>3. CASE Show([store EXCEPT !.resuming = FALSE, !.connection = "offline"])
    BY <1>1, <1>5, <2>3 DEF Show, Stores
  <2> QED BY <2>1, <2>2, <2>3 DEF ResumeEnds
<1>7. StoreCalm' BY <1>2, <1>4, <1>5, <1>6 DEF StoreCalm
<1>8. ShownCalm' BY <1>2, <1>5, <1>6 DEF ShownCalm
<1>9. Ended(flow[i]).phase = "ended" BY <1>1 DEF Ended, Flows
<1>10. SrvCalm' /\ CacheCalm' BY <1>2, CacheKept
<1>11. PollCalm'
  <2>1. Busy BY <1>3 DEF Busy
  <2>2. poll.phase = "asked" => ~EffectDue /\ poll.answer.status # "completed"
    BY <2>1 DEF CalmNow, PollCalm
  <2>3. EffectDue' = EffectDue BY <1>2, <1>5, <1>6 DEF EffectDue, QueryData
  <2> QED BY <1>6, <2>2, <2>3 DEF PollCalm, Holds
<1> HIDE DEF t
<1> QED BY <1>2, <1>3, <1>6, <1>7, <1>8, <1>9, <1>10, <1>11, CalmStep

\* The snapshot query.
LEMMA QueryCalm ==
  ASSUME TypeInv, CalmNow, ~EffectDue, PollAsks \/ PollAnswers \/ SafetyNet
  PROVE  CalmNow'
<1>1. store \in Stores BY DEF TypeInv, TypeOK
<1>2. UNCHANGED <<srv, flow, seen>>
  BY DEF PollAsks, PollAnswers, SafetyNet, QueryOnly
<1>3. Busy' = Busy BY <1>2 DEF Busy
<1>4. CASE PollAsks
  <2>1. UNCHANGED <<store, cache>> /\ store.taskId # NoTask /\ store.connection = "recovering"
        /\ poll' = [phase |-> "asked", answer |-> Snapshot(store.taskId)]
    BY <1>4 DEF PollAsks
  <2>2. store.taskId \in Tasks BY <1>1, <2>1 DEF Stores
  <2>3. Holds(store.taskId, Snapshot(store.taskId)) BY <2>2 DEF Holds, Snapshot, CalmNow, SrvCalm
  <2>4. EffectDue' = EffectDue BY <1>2, <2>1 DEF EffectDue, QueryData
  <2>5. SrvCalm' /\ CacheCalm' BY <1>2, <2>1, CacheKept
  <2>6. StoreCalm' BY <1>2, <2>1 DEF CalmNow, StoreCalm
  <2>7. ShownCalm' BY <2>1, <2>4 DEF CalmNow, ShownCalm
  <2>8. PollCalm'
    <3>1. /\ ~Busy /\ ~EffectDue /\ store.serverStatus # "awaiting_user"
          /\ StillAsked(store.taskId, store.reviewDecision)
          /\ StillAsked(store.taskId, cache[store.taskId].review)
      BY <2>1 DEF CalmNow, PollCalm
    <3>2. Holds(store.taskId, poll.answer)' BY <1>2, <2>1, <2>3 DEF Holds
    <3>3. StillAsked(store.taskId, poll.answer.review)' BY <1>2, <2>1 DEF StillAsked, Snapshot
    <3>4. poll'.answer.status = "completed" => store.reviewDecision # "need_user_decision"
      BY <2>1, <2>2, <3>1 DEF StillAsked, Snapshot, CalmNow, SrvCalm
    <3> QED BY <1>2, <1>3, <2>1, <2>4, <3>1, <3>2, <3>3, <3>4 DEF PollCalm, StillAsked, Pauses
  <2>9. FlowsCalm'
    <3>1. ~Busy BY <2>1 DEF CalmNow, PollCalm
    <3> QED BY <1>2, <3>1 DEF FlowsCalm, Busy
  <2> QED BY <2>5, <2>6, <2>7, <2>8, <2>9 DEF CalmNow
<1>5. CASE PollAnswers
  <2>1. UNCHANGED store /\ poll.phase = "asked" /\ poll'.phase # "asked"
    BY <1>5 DEF PollAnswers
  <2>2. store.taskId # NoTask BY <2>1 DEF TypeInv, ExistInv
  <2>3. store.taskId \in Tasks BY <1>1, <2>2 DEF Stores
  <2>4. /\ Holds(store.taskId, poll.answer)
        /\ store.connection = "recovering" => StillAsked(store.taskId, poll.answer.review)
        /\ poll.answer.status = "completed" => ~Busy
    BY <2>1, <2>2 DEF CalmNow, PollCalm
  <2>5. cache' = cache \/ cache' = [cache EXCEPT ![store.taskId] = poll.answer]
    BY <1>5 DEF PollAnswers
  <2>6. cache \in [Tasks -> Snapshots \cup {NoData}] BY DEF TypeInv, TypeOK
  <2>7. SrvCalm' BY <1>2 DEF CalmNow, SrvCalm
  <2>8. CacheCalm'
    <3>1. \A u \in Tasks : Holds(u, cache'[u])
      BY <2>3, <2>4, <2>5, <2>6 DEF CalmNow, CacheCalm
    <3>2. \A u \in Tasks : Holds(u, cache[u])' BY <1>2, <3>1 DEF Holds
    <3> QED BY <3>2 DEF CacheCalm
  <2>9. StoreCalm' BY <1>2, <2>1 DEF CalmNow, StoreCalm
  <2>10. ShownCalm'
    <3> SUFFICES ASSUME ~EffectDue', cache'[store.taskId].status = "completed"
                 PROVE  store.serverStatus = "completed"
      BY <2>1 DEF ShownCalm
    <3>1. cache'[store.taskId] # NoData BY DEF NoData, None
    <3>2. QueryData' = [task |-> store.taskId, data |-> cache'[store.taskId]]
      BY <2>1, <2>2, <3>1 DEF QueryData
    <3>3. QueryData' = QueryData BY <1>2 DEF EffectDue
    <3>4. cache[store.taskId] = cache'[store.taskId]
      BY <2>2, <3>2, <3>3 DEF QueryData
    <3> QED BY <2>2, <3>4 DEF CalmNow, ShownCalm
  <2>13. cache'[store.taskId] \in {cache[store.taskId], poll.answer} BY <2>3, <2>5, <2>6
  <2>11. PollCalm' BY <1>2, <1>3, <2>1, <2>4, <2>13 DEF CalmNow, PollCalm, StillAsked
  <2>12. FlowsCalm'
    <3> SUFFICES ASSUME NEW i \in 1..Len(flow), flow[i].phase # "ended"
                 PROVE  i = Len(flow) /\ FlowCalm(flow[i])'
      BY <1>2 DEF FlowsCalm
    <3>1. i = Len(flow) /\ FlowCalm(flow[i]) /\ flow[i].kind = "resume" BY <2>1, UnderWayCalm
    <3>2. poll.answer.status # "completed" BY <2>4 DEF Busy
    <3>3. flow[i].task = store.taskId BY <3>1 DEF FlowCalm
    <3>4. cache'[flow[i].task].status # "completed" BY <2>13, <3>1, <3>2, <3>3 DEF FlowCalm
    <3> QED BY <1>2, <2>1, <3>1, <3>4 DEF FlowCalm, Holds
  <2> QED BY <2>7, <2>8, <2>9, <2>10, <2>11, <2>12 DEF CalmNow
<1>6. CASE SafetyNet
  <2>1. store' = markInterrupted(store) /\ UNCHANGED cache BY <1>6 DEF SafetyNet, Show
  <2>2. store'.taskId = store.taskId /\ store'.connection = "idle"
        /\ store'.serverStatus = store.serverStatus /\ store'.reviewDecision = store.reviewDecision
    BY <1>1, <2>1 DEF markInterrupted, Stores
  <2>3. poll' = poll
    <3>1. markInterrupted(store).taskId = store.taskId BY <2>1, <2>2
    <3> QED BY <1>6, <3>1 DEF SafetyNet, Show
  <2>4. ServerCalm /\ SrvCalm' BY <1>2, QuietServer, CacheKept, <2>1
  <2> QED BY <1>2, <2>1, <2>2, <2>3, <2>4, CalmKept
<1> QED BY <1>4, <1>5, <1>6

\* What the cache has of the task in view is shown.
LEMMA ApplyQueryDataCalm ==
  ASSUME TypeInv, CalmNow, EffectDue, ApplyQueryData
  PROVE  CalmNow'
<1>1. store \in Stores /\ poll.phase # "asked" BY DEF TypeInv, TypeOK, CalmNow, PollCalm
<1>2. UNCHANGED <<srv, flow, cache>> BY DEF ApplyQueryData, QueryOnly
<1>3. Busy' = Busy BY <1>2 DEF Busy
<1>4. SrvCalm' /\ CacheCalm' BY <1>2, CacheKept
<1>5. CASE QueryData.task = NoTask
  <2>1. UNCHANGED <<store, poll>> BY <1>5 DEF ApplyQueryData, Quietly
  <2>2. store.taskId = NoTask \/ cache[store.taskId] = NoData BY <1>5, QueryTyped
  <2>3. StoreCalm' BY <1>2, <2>1 DEF CalmNow, StoreCalm
  <2>4. ShownCalm' BY <1>2, <2>1, <2>2 DEF ShownCalm, NoData, None
  <2>5. PollCalm' BY <1>1, <1>2, <1>3, <2>1 DEF CalmNow, PollCalm, StillAsked
  <2>6. FlowsCalm' BY <1>2, <2>1 DEF CalmNow, FlowsCalm, FlowCalm, FramesStillAsk, Frame, Holds
  <2> QED BY <1>4, <2>3, <2>4, <2>5, <2>6 DEF CalmNow
<1>6. CASE QueryData.task # NoTask
  <2> DEFINE t == store.taskId
             data == cache[t]
             s == applySnapshot(store, t, data)
  <2>1. t \in Tasks /\ data \in Snapshots /\ QueryData.task = t /\ QueryData.data = data
    BY <1>6, QueryTyped
  <2>2. t # NoTask BY <2>1, ClientAssumption
  <2>3. Show(s) BY <1>6, <2>1 DEF ApplyQueryData
  <2>4. Holds(t, data) BY <2>1 DEF CalmNow, CacheCalm
  <2>5. /\ s \in Stores /\ s.taskId = t /\ s.serverStatus = data.status
        /\ data.review # None => s.reviewDecision = data.review
        /\ data.review = None => s.reviewDecision = store.reviewDecision
        /\ data.status \in Final => s.connection = "idle"
        /\ data.status \notin Final => s.connection = store.connection
        /\ data.status = "completed" =>
             srv[t].status = "completed" /\ s.reviewDecision # "need_user_decision"
    BY <1>1, <2>1, <2>4, FoldCalm
  <2>6. store' = s /\ poll'.phase # "asked" BY <1>1, <2>3 DEF Show
  <2> HIDE DEF s
  <2>7. StoreCalm' BY <1>2, <2>1, <2>5, <2>6 DEF StoreCalm
  <2>8. ShownCalm' BY <1>2, <2>5, <2>6 DEF ShownCalm
  <2>9. PollCalm'
    <3> SUFFICES ASSUME s.connection = "recovering"
                 PROVE  /\ ~Busy /\ s.serverStatus # "awaiting_user"
                        /\ StillAsked(t, s.reviewDecision) /\ StillAsked(t, data.review)
      BY <1>2, <1>3, <2>5, <2>6 DEF PollCalm, StillAsked
    <3>1. data.status \notin Final /\ store.connection = "recovering" BY <2>5
    <3>2. ~Busy /\ StillAsked(t, store.reviewDecision) /\ StillAsked(t, data.review)
      BY <2>2, <3>1 DEF CalmNow, PollCalm
    <3> QED BY <2>5, <3>1, <3>2 DEF StillAsked, Final
  <2>10. FlowsCalm'
    <3> SUFFICES ASSUME NEW i \in 1..Len(flow), flow[i].phase # "ended"
                 PROVE  i = Len(flow) /\ FlowCalm(flow[i])'
      BY <1>2 DEF FlowsCalm
    <3>1. i = Len(flow) /\ FlowCalm(flow[i]) BY UnderWayCalm
    <3>2. data # NoData BY <2>1 DEF Snapshots, NoData, Statuses, None
    <3>3. flow[i].kind = "resume"
      <4>1. flow[i].kind # "select" BY <2>2, <3>1 DEF FlowCalm
      <4>2. flow[i].kind # "stream" BY <2>2, <3>1, <3>2 DEF FlowCalm
      <4>3. flow[i] \in Flows BY DEF TypeInv, TypeOK
      <4> QED BY <4>1, <4>2, <4>3 DEF Flows
    <3>4. FlowCalm(flow[i])' BY <1>2, <2>5, <2>6, <3>1, <3>3 DEF FlowCalm, Holds
    <3> QED BY <3>1, <3>4
  <2> QED BY <1>4, <2>7, <2>8, <2>9, <2>10 DEF CalmNow
<1> QED BY <1>5, <1>6

\* A click, when everything before it has come to rest.
LEMMA ClickCalm ==
  ASSUME TypeInv, CalmNow, ~Busy, UNCHANGED <<srv, cache>>,
         NEW g, flow' = Append(Aborted, g), FlowCalm(g)', StoreCalm', ShownCalm',
         poll'.phase # "asked" \/ PollCalm', store'.taskId # NoTask => store'.connection # "recovering"
  PROVE  CalmNow'
<1>1. Aborted \in Seq(Flows) /\ Len(Aborted) = Len(flow) BY AbortedTyped
<1>2. Len(flow) \in Nat /\ Len(flow') = Len(flow) + 1 BY <1>1
<1>3. FlowsCalm'
  <2> SUFFICES ASSUME NEW j \in 1..Len(flow'), flow'[j].phase # "ended"
               PROVE  j = Len(flow') /\ FlowCalm(flow[j])'
    BY DEF FlowsCalm
  <2>1. CASE j = Len(flow) + 1
    <3>1. flow'[j] = g BY <1>1, <1>2, <2>1
    <3> QED BY <1>2, <2>1, <3>1 DEF FlowCalm
  <2>2. CASE j # Len(flow) + 1
    <3>1. j \in 1..Len(flow) BY <1>2, <2>2
    <3>2. flow'[j] = Aborted[j] BY <1>1, <1>2, <3>1
    <3>3. flow[j] \in Flows BY <3>1 DEF TypeInv, TypeOK
    <3>4. Aborted[j] = [flow[j] EXCEPT !.aborted = flow[j].aborted \/ j = controller]
      BY <3>1, AbortedTyped
    <3>5. flow'[j].phase = flow[j].phase BY <3>2, <3>3, <3>4 DEF Flows
    <3> QED BY <3>1, <3>5 DEF Busy
  <2> QED BY <2>1, <2>2
<1>4. SrvCalm' /\ CacheCalm' BY CacheKept
<1>5. PollCalm' BY DEF PollCalm
<1> QED BY <1>3, <1>4, <1>5 DEF CalmNow

\* A reset leaves no task in view, and no request for a snapshot of it.
LEMMA ResetCalm ==
  ASSUME TypeInv, CalmNow, NEW c \in {"connecting", "recovering"}, Show(reset(c))
  PROVE  /\ StoreCalm' /\ ShownCalm' /\ poll'.phase # "asked" /\ store'.taskId = NoTask
         /\ store'.serverStatus = None /\ store'.reviewDecision = None /\ store'.connection = c
<1>1. store' = reset(c) BY DEF Show
<1>2. store'.taskId = NoTask /\ store'.serverStatus = None /\ store'.reviewDecision = None
      /\ store'.connection = c
  BY <1>1 DEF reset, initialState
<1>3. StoreCalm' BY <1>2 DEF StoreCalm, None
<1>4. ShownCalm' BY <1>2 DEF ShownCalm
<1>5. poll'.phase # "asked"
  <2>1. poll.phase = "asked" => store.taskId # NoTask BY DEF TypeInv, ExistInv
  <2>2. reset(c).taskId = NoTask BY <1>1, <1>2
  <2> QED BY <2>1, <2>2 DEF Show
<1> QED BY <1>2, <1>3, <1>4, <1>5

\* A run that stops has its outcome for a last frame.
LEMMA StopCalm ==
  ASSUME TypeInv, SrvCalm, NEW t \in Tasks, srv[t].live, NEW r \in Servers,
         srv' = [srv EXCEPT ![t] = r], r.frames = srv[t].frames + 1, r.done, ~r.live,
         r.status = "completed" => r.review = "approved",
         srv[t].review = "need_user_decision" => r.review = "need_user_decision"
  PROVE  ServerCalm /\ SrvCalm'
<1>1. srv \in [Tasks -> Servers] /\ srv[t] \in Servers /\ ~srv[t].done /\ srv[t].frames \in 1..Len(Script) + 1
      /\ srv[t].status # "completed"
  BY DEF TypeInv, TypeOK, SrvInv, SrvCalm
<1>2. srv'[t] = r /\ \A u \in Tasks : u # t => srv'[u] = srv[u] BY <1>1
<1>3. srv[t].frames \in Nat /\ srv[t].frames # 0 BY <1>1 DEF Servers
<1>4. FramesStillAsk(t) => FramesStillAsk(t)'
  <2> SUFFICES ASSUME FramesStillAsk(t), NEW n \in 0..srv'[t].frames - 1, Asks(Frame(t, n)')
               PROVE  srv'[t].review = "need_user_decision"
    BY DEF FramesStillAsk
  <2>1. n # 0 /\ ~(n = srv'[t].frames - 1 /\ srv'[t].done) BY DEF Asks, Frame
  <2>2. n \in 0..srv[t].frames - 1 BY <1>2, <1>3, <2>1
  <2>3. Frame(t, n)' = Frame(t, n) BY <1>1, <2>1 DEF Frame
  <2> QED BY <1>2, <2>2, <2>3 DEF FramesStillAsk
<1>5. \A u \in Tasks : u # t => (FramesStillAsk(u) => FramesStillAsk(u)')
  BY <1>2 DEF FramesStillAsk, Frame
<1>6. ServerCalm BY <1>1, <1>2, <1>4, <1>5 DEF ServerCalm
<1>7. SrvCalm' BY <1>1, <1>2 DEF SrvCalm
<1> QED BY <1>6, <1>7

\* What the user does.  Only a click that starts a flow waits for the earlier ones.
LEMMA UserCalm ==
  ASSUME TypeInv, CalmNow, ~EffectDue, User, ~overlapped'
  PROVE  CalmNow'
<1>1. store \in Stores BY DEF TypeInv, TypeOK
<1>2. CASE startTask
  <2>1. ~Busy /\ UNCHANGED <<srv, cache>> /\ Show(reset("connecting"))
        /\ flow' = Append(Aborted, NewFlow("stream", NoTask))
    BY <1>2 DEF startTask, Click
  <2> DEFINE g == NewFlow("stream", NoTask)
  <2>2. g.kind = "stream" /\ g.task = NoTask /\ ~g.terminal /\ g.phase = "asked" BY DEF NewFlow
  <2> HIDE DEF g
  <2>3. /\ StoreCalm' /\ ShownCalm' /\ poll'.phase # "asked" /\ store'.taskId = NoTask
        /\ store'.serverStatus = None /\ store'.reviewDecision = None /\ store'.connection = "connecting"
    BY <2>1, ResetCalm
  <2>4. FlowCalm(g)' BY <2>2, <2>3 DEF FlowCalm, None
  <2>5. flow' = Append(Aborted, g) BY <2>1 DEF g
  <2> QED BY <2>1, <2>3, <2>4, <2>5, ClickCalm
<1>3. CASE \E t \in Tasks : selectSession(t)
  <2>1. PICK t \in Tasks : selectSession(t) BY <1>3
  <2>2. ~Busy /\ UNCHANGED <<srv, cache>> /\ Show(reset("recovering"))
        /\ flow' = Append(Aborted, NewFlow("select", t))
    BY <2>1 DEF selectSession, Click
  <2> DEFINE g == NewFlow("select", t)
  <2>3. g.kind = "select" /\ g.phase = "asked" BY DEF NewFlow
  <2> HIDE DEF g
  <2>4. StoreCalm' /\ ShownCalm' /\ poll'.phase # "asked" /\ store'.taskId = NoTask
    BY <2>2, ResetCalm
  <2>5. FlowCalm(g)' BY <2>3, <2>4 DEF FlowCalm
  <2>6. flow' = Append(Aborted, g) BY <2>2 DEF g
  <2> QED BY <2>2, <2>4, <2>5, <2>6, ClickCalm
<1>4. CASE handleResume
  <2> DEFINE s == [store EXCEPT !.resuming = TRUE, !.connection = "connecting"]
  <2>0. PICK t, g : t = store.taskId /\ g = NewFlow("resume", t) OBVIOUS
  <2>1. /\ ~Busy /\ ~srv[t].live /\ UNCHANGED <<srv, cache, seen>>
        /\ Show(s) /\ canResume /\ flow' = Append(Aborted, g)
    BY <1>4, <2>0 DEF handleResume, Click
  <2>2. g.kind = "resume" /\ g.task = t /\ g.phase = "asked" BY <2>0 DEF NewFlow
  <2>3. s.taskId = store.taskId /\ s.serverStatus = store.serverStatus /\ s.reviewDecision = store.reviewDecision
        /\ s.connection = "connecting"
    BY <1>1 DEF Stores
  <2>4. store' = s /\ poll' = poll BY <2>1, <2>3 DEF Show
  <2>5. t # NoTask /\ t \in Tasks /\ Pauses(store.serverStatus, store.reviewDecision)
    BY <1>1, <2>0, <2>1 DEF canResume, Pauses, Stores
  <2>6. store.serverStatus # "completed" BY <2>0, <2>5 DEF CalmNow, StoreCalm, Pauses
  <2>7. cache[t].status # "completed" BY <2>0, <2>5, <2>6 DEF CalmNow, ShownCalm
  <2>8. poll.phase = "asked" => ~EffectDue /\ poll.answer.status # "completed"
    BY <2>5 DEF CalmNow, PollCalm
  <2> HIDE DEF s
  <2>9. StoreCalm' BY <2>1, <2>3, <2>4 DEF CalmNow, StoreCalm
  <2>10. ShownCalm' BY <2>1, <2>3, <2>4 DEF CalmNow, ShownCalm, EffectDue, QueryData
  <2>11. FlowCalm(g)' BY <2>0, <2>1, <2>2, <2>3, <2>4, <2>6, <2>7 DEF FlowCalm
  <2>12. PollCalm' BY <2>1, <2>3, <2>4, <2>8 DEF PollCalm, Holds, EffectDue, QueryData
  <2> QED BY <2>1, <2>3, <2>4, <2>9, <2>10, <2>11, <2>12, ClickCalm
<1>5. CASE handleStop
  <2> DEFINE t == store.taskId
             s == markInterrupted(store)
  <2>1. flow' = Aborted /\ Show(s) /\ UNCHANGED <<cache, seen>> /\ t # NoTask
    BY <1>5 DEF handleStop, canStop
  <2>2. t \in Tasks BY <1>1, <2>1 DEF Stores
  <2>3. s.taskId = t /\ s.serverStatus = store.serverStatus /\ s.reviewDecision = store.reviewDecision
        /\ s.connection = "idle"
    BY <1>1 DEF markInterrupted, Stores
  <2>4. store' = s /\ poll' = poll BY <2>1, <2>3 DEF Show
  <2>5. ServerCalm /\ SrvCalm'
    <3>1. CASE UNCHANGED srv BY <2>1, <3>1, QuietServer, CacheKept
    <3>2. CASE srv[t].live /\ srv' = [srv EXCEPT ![t] = Failed(srv[t])]
      <4>1. srv[t] \in Servers /\ SrvCalm BY <2>2 DEF TypeInv, TypeOK, CalmNow
      <4> DEFINE r == Failed(srv[t])
      <4>2. /\ r \in Servers /\ r.status = srv[t].status /\ r.review = srv[t].review
            /\ r.frames = srv[t].frames + 1 /\ r.done /\ ~r.live
        BY <4>1, FailedTyped
      <4>3. srv' = [srv EXCEPT ![t] = r] BY <3>2
      <4>4. r.status # "completed" BY <2>2, <3>2, <4>1, <4>2 DEF SrvCalm
      <4> HIDE DEF r, t
      <4> QED BY <2>2, <3>2, <4>1, <4>2, <4>3, <4>4, StopCalm
    <3> QED BY <1>5, <3>1, <3>2 DEF handleStop
  <2>6. Len(flow') = Len(flow) /\ \A j \in 1..Len(flow) :
           /\ flow'[j].kind = flow[j].kind /\ flow'[j].phase = flow[j].phase
           /\ flow'[j].task = flow[j].task /\ flow'[j].terminal = flow[j].terminal
           /\ flow'[j].answer = flow[j].answer /\ flow'[j].pos = flow[j].pos
    <3>1. Len(flow') = Len(flow) BY <2>1, AbortedTyped
    <3> SUFFICES ASSUME NEW j \in 1..Len(flow)
                 PROVE  /\ Aborted[j].kind = flow[j].kind /\ Aborted[j].phase = flow[j].phase
                        /\ Aborted[j].task = flow[j].task /\ Aborted[j].terminal = flow[j].terminal
                        /\ Aborted[j].answer = flow[j].answer /\ Aborted[j].pos = flow[j].pos
      BY <2>1, <3>1
    <3>2. flow[j] \in Flows BY DEF TypeInv, TypeOK
    <3>3. Aborted[j] = [flow[j] EXCEPT !.aborted = flow[j].aborted \/ j = controller] BY AbortedTyped
    <3> QED BY <3>2, <3>3 DEF Flows
  <2> HIDE DEF s
  <2> QED BY <2>1, <2>3, <2>4, <2>5, <2>6, CalmKept
<1> QED BY <1>2, <1>3, <1>4, <1>5 DEF User

\* A run goes on, ends or is forgotten: what was so of a task at rest stays so.
LEMMA ServerStepCalm ==
  ASSUME TypeInv, CalmNow, NEW t \in Tasks, Server(t)
  PROVE  CalmNow'
<1> DEFINE s == srv[t]
<1>1. srv \in [Tasks -> Servers] /\ SrvInv /\ s \in Servers BY DEF TypeInv, TypeOK
<1>2. ServerOnly BY DEF Server, RunEmits, RunEnds, RunForgotten
<1>3. ASSUME ServerCalm, SrvCalm' PROVE CalmNow' BY <1>2, <1>3, CalmKept DEF ServerOnly
<1>4. SrvCalm BY DEF CalmNow
<1>5. CASE RunEmits(t)
  <2> DEFINE event == Script[s.frames]
             n == s.frames + 1
             v == IF event.type = "node_end" /\ event.role = "reviewer" THEN event.decision ELSE s.review
             r == [s EXCEPT !.frames = n, !.review = v]
  <2>1. s.live /\ ~s.done /\ s.frames \in 1..Len(Script) /\ Len(Script) \in Nat
    <3>1. s.live /\ s.frames <= Len(Script) BY <1>5 DEF RunEmits
    <3>2. ~s.done /\ s.frames \in 1..Len(Script) + 1 /\ Len(Script) \in Nat
      BY <1>1, <3>1, ClientAssumption DEF SrvInv
    <3> QED BY <3>1, <3>2
  <2>2. s.review # "need_user_decision" /\ s.status # "completed" BY <1>4, <2>1 DEF SrvCalm
  <2>3. srv' = [srv EXCEPT ![t] = r]
    <3>1. srv' = [srv EXCEPT ![t].frames = @ + 1,
                            ![t].review = IF event.type = "node_end" /\ event.role = "reviewer"
                                          THEN event.decision ELSE @]
      BY <1>5 DEF RunEmits
    <3> QED BY <1>1, <3>1
  <2>4. v = "need_user_decision" => Asks(event) BY <2>2 DEF Asks
  <2>5. Asks(event) => s.frames = Len(Script) /\ v = "need_user_decision"
    BY <2>1, ClientAssumption DEF Asks
  <2> HIDE DEF v
  <2>6. r.status = s.status /\ r.review = v /\ r.live = s.live /\ r.done = s.done /\ r.frames = s.frames + 1
    BY <1>1 DEF Servers
  <2> HIDE DEF r
  <2>7. srv'[t] = r /\ \A u \in Tasks : u # t => srv'[u] = srv[u] BY <1>1, <2>3
  <2>8. FramesStillAsk(t)'
    <3> SUFFICES ASSUME NEW m \in 0..srv'[t].frames - 1, Asks(Frame(t, m)')
                 PROVE  v = "need_user_decision"
      BY <2>6, <2>7 DEF FramesStillAsk
    <3>1. m # 0 /\ Frame(t, m)' = Script[m] BY <2>1, <2>6, <2>7 DEF Asks, Frame
    <3>2. m \in 1..s.frames BY <2>1, <2>6, <2>7, <3>1
    <3>3. m = Len(Script) BY <2>1, <3>1, <3>2, ClientAssumption
    <3>4. m = s.frames BY <2>1, <3>2, <3>3
    <3> QED BY <2>5, <3>1, <3>4
  <2>9. \A u \in Tasks : u # t => (FramesStillAsk(u) => FramesStillAsk(u)')
    BY <2>7 DEF FramesStillAsk, Frame
  <2>10. ServerCalm BY <2>1, <2>2, <2>6, <2>7, <2>8, <2>9 DEF ServerCalm
  <2>11. SrvCalm'
    <3>1. v = "need_user_decision" => r.frames > Len(Script) BY <2>1, <2>4, <2>5, <2>6
    <3>2. r.status # "completed" BY <2>2, <2>6
    <3> QED BY <1>4, <2>6, <2>7, <3>1, <3>2 DEF SrvCalm
  <2> QED BY <1>3, <2>10, <2>11
<1>6. CASE RunEnds(t)
  <2>1. s.live BY <1>6 DEF RunEnds
  <2>2. CASE \E o \in Outcomes :
               /\ s.review = "need_user_decision" => o = "awaiting_user"
               /\ srv' = [srv EXCEPT ![t] = Finished(s, o)]
    <3>1. PICK o \in Outcomes :
            /\ s.review = "need_user_decision" => o = "awaiting_user"
            /\ srv' = [srv EXCEPT ![t] = Finished(s, o)]
      BY <2>2
    <3> DEFINE r == Finished(s, o)
    <3>2. /\ r \in Servers /\ r.frames = s.frames + 1 /\ r.done /\ ~r.live
          /\ r.status = o /\ r.review = ReviewOf(o)
      BY <1>1, FinishedTyped
    <3>3. /\ o = "completed" => ReviewOf(o) = "approved"
          /\ o = "awaiting_user" => ReviewOf(o) = "need_user_decision"
      BY DEF ReviewOf
    <3>4. srv' = [srv EXCEPT ![t] = r] BY <3>1
    <3> HIDE DEF r
    <3>5. ServerCalm /\ SrvCalm' BY <1>4, <2>1, <3>1, <3>2, <3>3, <3>4, StopCalm
    <3> QED BY <1>3, <3>5
  <2>3. CASE srv' = [srv EXCEPT ![t] = Failed(s)]
    <3> DEFINE r == Failed(s)
    <3>1. /\ r \in Servers /\ r.frames = s.frames + 1 /\ r.done /\ ~r.live
          /\ r.status = s.status /\ r.review = s.review
      BY <1>1, FailedTyped
    <3>2. srv' = [srv EXCEPT ![t] = r] BY <2>3
    <3> HIDE DEF r
    <3>3. r.status # "completed" BY <1>4, <2>1, <3>1 DEF SrvCalm
    <3>4. ServerCalm /\ SrvCalm' BY <1>4, <2>1, <3>1, <3>2, <3>3, StopCalm
    <3> QED BY <1>3, <3>4
  <2> QED BY <1>6, <2>2, <2>3 DEF RunEnds
<1>7. CASE RunForgotten(t)
  <2> DEFINE r == [s EXCEPT !.kept = FALSE, !.live = FALSE]
  <2>1. srv' = [srv EXCEPT ![t] = r]
    <3>1. srv' = [srv EXCEPT ![t].kept = FALSE, ![t].live = FALSE] BY <1>7 DEF RunForgotten
    <3> QED BY <1>1, <3>1
  <2>2. /\ r.status = s.status /\ r.frames = s.frames /\ ~r.live /\ r.done = s.done
        /\ r.review = s.review /\ r.error = s.error
    BY <1>1 DEF Servers
  <2> HIDE DEF r
  <2>3. srv'[t] = r /\ \A u \in Tasks : u # t => srv'[u] = srv[u] BY <1>1, <2>1
  <2>4. \A u \in Tasks : FramesStillAsk(u) => FramesStillAsk(u)'
    BY <2>2, <2>3 DEF FramesStillAsk, Frame
  <2>5. ServerCalm BY <2>2, <2>3, <2>4 DEF ServerCalm
  <2>6. SrvCalm' BY <1>4, <2>2, <2>3 DEF SrvCalm
  <2> QED BY <1>3, <2>5, <2>6
<1> QED BY <1>5, <1>6, <1>7 DEF Server

\* Every step, as long as no click came too early.
LEMMA NextCalm ==
  ASSUME TypeInv, Calm, [Next]_vars
  PROVE  Calm'
<1> SUFFICES ASSUME ~overlapped' PROVE CalmNow'
  BY DEF Calm
<1>1. CASE UNCHANGED vars
  <2>1. CalmNow /\ store \in Stores /\ flow \in Seq(Flows) BY <1>1 DEF Calm, vars, TypeInv, TypeOK
  <2>2. ServerCalm /\ SrvCalm' BY <1>1, <2>1, QuietServer, CacheKept DEF vars
  <2> QED BY <1>1, <2>1, <2>2, CalmKept DEF vars
<1>2. CASE Next
  <2>1. ~overlapped
    <3>1. overlapped' = overlapped \/ \E hasty : Click(hasty)
      BY <1>2 DEF Next, User, startTask, selectSession, handleResume, handleStop, PollAsks, PollAnswers,
         SafetyNet, ApplyQueryData, QueryOnly, Server, RunEmits, RunEnds, RunForgotten, ServerOnly,
         Stream, PostArrives, ReadFrame, StreamCloses, StreamAborted, Wake, Reconnect, PostFails,
         StreamBreaks, Requested, Answers, SelectEnds, ResumeEnds
    <3> QED BY <3>1 DEF Click
  <2>2. CalmNow BY <2>1 DEF Calm
  <2>3. CASE EffectDue /\ ApplyQueryData BY <2>2, <2>3, ApplyQueryDataCalm
  <2>4. CASE ~EffectDue /\ User BY <2>2, <2>4, UserCalm
  <2>5. CASE ~EffectDue /\ (PollAsks \/ PollAnswers \/ SafetyNet) BY <2>2, <2>5, QueryCalm
  <2>6. CASE \E t \in Tasks : Server(t) BY <2>2, <2>6, ServerStepCalm
  <2>7. ASSUME ~EffectDue, NEW i \in 1..Len(flow), Stream(i) \/ PostFails(i) \/ StreamBreaks(i) \/ Requested(i)
        PROVE  CalmNow'
    <3>1. CASE Requested(i)
      BY <2>2, <2>7, <3>1, AnswersCalm, SelectEndsCalm, ResumeEndsCalm DEF Requested
    <3> QED BY <2>2, <2>7, <3>1, StreamCalm
  <2> QED BY <1>2, <2>3, <2>4, <2>5, <2>6, <2>7 DEF Next
<1> QED BY <1>1, <1>2

\* The tasks of earlier days are at rest.
LEMMA InitCalm ==
  ASSUME Init PROVE CalmNow
<1>1. PICK s \in Outcomes :
        srv = [t \in Tasks |-> IF t \in History
                               THEN [Unborn EXCEPT !.status = s, !.review = ReviewOf(s)]
                               ELSE Unborn]
  BY DEF Init
<1>2. s = "completed" => ReviewOf(s) = "approved" BY DEF ReviewOf
<1> DEFINE old == [Unborn EXCEPT !.status = s, !.review = ReviewOf(s)]
<1>3. old.status = s /\ old.review = ReviewOf(s) /\ ~old.live BY DEF Unborn
<1>4. Unborn.status = None /\ Unborn.review = None /\ ~Unborn.live BY DEF Unborn
<1> HIDE DEF old
<1>5. \A t \in Tasks : srv[t] = old \/ srv[t] = Unborn BY <1>1 DEF old
<1>6. SrvCalm BY <1>2, <1>3, <1>4, <1>5 DEF SrvCalm, None
<1>7. store.taskId = NoTask /\ store.serverStatus = None /\ store.reviewDecision = None
      /\ poll.phase = "idle" /\ Len(flow) = 0
  BY DEF Init, initialState
<1>8. StoreCalm BY <1>7 DEF StoreCalm, None
<1>9. PollCalm /\ ShownCalm BY <1>7 DEF PollCalm, ShownCalm
<1>10. CacheCalm BY DEF CacheCalm, Holds, Init, NoData, None
<1>11. FlowsCalm BY <1>7 DEF FlowsCalm
<1> QED BY <1>6, <1>8, <1>9, <1>10, <1>11 DEF CalmNow

\* CompletedIsTrue: whoever waits for each click to come to rest before the next, and
\* for a run to stop before answering it, is never shown "completed" (deriveStatus in
\* status.ts) for a task that is not, whatever is lost and in whatever order snapshots,
\* frames and answers arrive.
THEOREM CompletedIsSo == Spec => []CompletedIsTrue
<1>1. Init => Calm BY InitCalm DEF Calm
<1>2. TypeInv /\ Calm /\ [Next]_vars => Calm' BY NextCalm
<1>3. Calm => CompletedIsTrue
  <2>1. deriveStatus(store) = "completed" => store.serverStatus = "completed" BY DEF deriveStatus
  <2> QED BY <2>1 DEF Calm, CalmNow, StoreCalm, CompletedIsTrue
<1> QED BY <1>1, <1>2, <1>3, TypeInvAlways, PTL DEF Spec
=============================================================================
