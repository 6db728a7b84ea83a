----------------------------- MODULE WebClient -----------------------------
(***************************************************************************)
(* The web client, mulit_agent_web_ui/src: what a click starts (App.tsx),  *)
(* the stream with its reconnect loop (lib/api.ts, lib/sse.ts), the store  *)
(* that events and snapshots are folded into (store/taskStore.ts) and the  *)
(* label shown for it (lib/status.ts).                                     *)
(*                                                                         *)
(* A click starts an async function, a flow here; flows overlap, and each  *)
(* await is a point where other flows, the user, the snapshot query and    *)
(* the server run.  React runs the effect on new snapshot data before it   *)
(* handles the next event.  The server is what RunManager and TaskRun      *)
(* promise of it: numbered frames replayed from any point, and a status.   *)
(* The stream carries Script, an outcome last; trimmed buffers are         *)
(* RunManager's.                                                           *)
(***************************************************************************)
EXTENDS Integers, Sequences, FiniteSets

CONSTANTS
  Tasks,          \* task ids
  History,        \* those of tasks of earlier days
  NoTask,         \* the taskId of an empty store
  Script,         \* the events of a run between task_started and its outcome
  Outcomes,       \* the statuses a run may come to rest in
  MAX_RECONNECTS, \* 6 in the code
  MaxClicks,      \* bound: clicks of the user, one flow each
  MaxDrops        \* bound: connections the network loses

Statuses == {"running", "awaiting_user", "completed", "failed"}

None == "none"

Roles == {"planner", "developer", "reviewer", "delivery"}

Decisions == {"revision_required", "need_user_decision", "approved"}

\* The events of a run under way, those a view does not fold in being "other".
Events ==
  [type : {"node_start"}, role : Roles]
    \cup [type : {"node_end"}, role : Roles, decision : Decisions \cup {None}]
    \cup [type : {"other"}]

\* The review that makes a run pause.
Asks(event) ==
  event.type = "node_end" /\ event.role = "reviewer" /\ event.decision = "need_user_decision"

ASSUME ClientAssumption ==
  /\ History \subseteq Tasks /\ NoTask \notin Tasks
  /\ Script \in Seq(Events)
  /\ \A k \in 1..Len(Script) : Asks(Script[k]) => k = Len(Script)
  /\ Outcomes \subseteq Statuses
  /\ MAX_RECONNECTS \in Nat \ {0}
  /\ MaxClicks \in Nat /\ MaxDrops \in Nat

VARIABLES
  srv,        \* the server's tasks: status, frames sent, and the run manager's view
  store,      \* useTaskStore
  flow,       \* the async functions started by clicks, in order
  controller, \* controllerRef: the flow the next click aborts, 0 for none
  poll,       \* the snapshot query's request in flight
  cache,      \* the snapshot query's cached data, per task id
  seen,       \* the snapshot data the effect ran with last
  drops,      \* connections lost
  overlapped  \* a click came while an earlier flow, or the run it answers, was under way

vars == <<srv, store, flow, controller, poll, cache, seen, drops, overlapped>>

Final == {"completed", "failed", "awaiting_user"}

\* Of what grows in a snapshot as a run goes on, the review is kept.
Snapshots == [status : Statuses, review : Decisions \cup {None}]

NoData == [status |-> None, review |-> None]

\* `live` is the background task, `kept` whether the run manager still has the run.
Servers == [status : Statuses \cup {None}, review : Decisions \cup {None}, frames : Nat,
            done : BOOLEAN, live : BOOLEAN, kept : BOOLEAN, error : BOOLEAN]

Stores ==
  [taskId : Tasks \cup {NoTask}, serverStatus : Statuses \cup {None},
   activeRole : Roles \cup {None}, lastRole : Roles \cup {None},
   reviewDecision : Decisions \cup {None},
   connection : {"idle", "connecting", "live", "recovering", "offline"},
   resuming : BOOLEAN, hasStarted : BOOLEAN, interrupted : BOOLEAN]

\* `task` is the run a flow is about, `known` whether its code has learned the id,
\* `retrying` whether the POST's own response is over; `pos` is where the server's
\* subscription stands and `applied` counts the frames the flow took.
Flows ==
  [kind : {"stream", "select", "resume"},
   phase : {"asked", "reading", "sleeping", "opening", "opened", "answered", "ended"},
   task : Tasks \cup {NoTask}, known : BOOLEAN, retrying : BOOLEAN, lastId : Nat \cup {-1},
   pos : Nat, attempt : 0..MAX_RECONNECTS, terminal : BOOLEAN, aborted : BOOLEAN, thrown : BOOLEAN,
   applied : Nat, answer : Snapshots \cup {NoData}]

TypeOK ==
  /\ srv \in [Tasks -> Servers]
  /\ store \in Stores
  /\ flow \in Seq(Flows) /\ Len(flow) <= MaxClicks
  /\ controller \in 0..Len(flow)
  /\ poll \in [phase : {"idle", "asked"}, answer : Snapshots \cup {NoData}]
  /\ cache \in [Tasks -> Snapshots \cup {NoData}]
  /\ seen \in [task : Tasks \cup {NoTask}, data : Snapshots \cup {NoData}]
  /\ drops \in 0..MaxDrops
  /\ overlapped \in BOOLEAN

initialState ==
  [taskId |-> NoTask, serverStatus |-> None, activeRole |-> None, lastRole |-> None,
   reviewDecision |-> None, connection |-> "idle", resuming |-> FALSE,
   hasStarted |-> FALSE, interrupted |-> FALSE]

Unborn == [status |-> None, review |-> None, frames |-> 0, done |-> FALSE, live |-> FALSE,
           kept |-> FALSE, error |-> FALSE]

\* The last review of a run that came to rest.
ReviewOf(status) ==
  CASE status = "awaiting_user" -> "need_user_decision"
    [] status = "failed" -> "revision_required"
    [] OTHER -> "approved"

\* Tasks of earlier days are in the checkpoint database, without a run.
Init ==
  /\ \E s \in Outcomes :
       srv = [t \in Tasks |-> IF t \in History
                              THEN [Unborn EXCEPT !.status = s, !.review = ReviewOf(s)]
                              ELSE Unborn]
  /\ store = initialState
  /\ flow = <<>>
  /\ controller = 0
  /\ poll = [phase |-> "idle", answer |-> NoData]
  /\ cache = [t \in Tasks |-> NoData]
  /\ seen = [task |-> NoTask, data |-> NoData]
  /\ drops = 0
  /\ overlapped = FALSE

-----------------------------------------------------------------------------
(***************************************************************************)
(* The store.                                                              *)
(***************************************************************************)

\* A label from the status, the last event and the reviewer's decision.
deriveStatus(s) ==
  IF s.serverStatus \in {"failed", "completed"} THEN s.serverStatus
  ELSE IF s.interrupted THEN "interrupted"
  ELSE IF s.resuming THEN "resuming"
  ELSE IF s.serverStatus = "awaiting_user" \/ s.reviewDecision = "need_user_decision" THEN "need_user_decision"
  ELSE IF s.connection \in {"offline", "recovering"} THEN "disconnected"
  ELSE IF s.reviewDecision = "revision_required" THEN "revision_required"
  ELSE IF s.activeRole = "planner" THEN "planning"
  ELSE IF s.activeRole = "developer" THEN "in_progress"
  ELSE IF s.activeRole = "reviewer" THEN "submitted_for_review"
  ELSE IF s.activeRole = "delivery" THEN "delivering"
  ELSE IF s.reviewDecision = "approved" THEN "approved"
  ELSE IF s.lastRole = "developer" THEN "submitted_for_review"
  ELSE IF s.hasStarted THEN "in_progress"
  ELSE "planned"

\* The status of the task that was in view stays.
reset_status_kept(connection) ==
  [initialState EXCEPT !.connection = connection, !.serverStatus = store.serverStatus]

reset(connection) == [initialState EXCEPT !.connection = connection]

\* The view goes on polling.
markInterrupted_polling(s) == [s EXCEPT !.interrupted = TRUE]

markInterrupted(s) == [s EXCEPT !.interrupted = TRUE, !.connection = "idle"]

\* A snapshot replaces the stream's view of a task, and clears the interruption.
applySnapshot(s, t, data) ==
  [s EXCEPT !.taskId = t,
            !.serverStatus = data.status,
            !.connection = IF data.status \in Final THEN "idle" ELSE @,
            !.hasStarted = TRUE, !.interrupted = FALSE,
            !.activeRole = None, !.lastRole = None,
            !.reviewDecision = IF data.review = None THEN @ ELSE data.review]

\* The snapshot could not be read: all that is known is the id.
applyUnread(s, t) ==
  [s EXCEPT !.taskId = t, !.hasStarted = TRUE, !.interrupted = FALSE,
            !.activeRole = None, !.lastRole = None]

\* An event; a node_start also goes through setConnection('live').
applyEvent(s, t, event) ==
  CASE event.type = "node_start" ->
         [s EXCEPT !.taskId = t, !.hasStarted = TRUE, !.serverStatus = "running",
                   !.activeRole = event.role, !.connection = "live",
                   !.reviewDecision = IF event.role = "developer" /\ @ = "revision_required"
                                      THEN None ELSE @]
    [] event.type = "node_end" ->
         [s EXCEPT !.taskId = t, !.lastRole = event.role,
                   !.activeRole = IF @ = event.role THEN None ELSE @,
                   !.reviewDecision = IF event.role = "reviewer" /\ event.decision # None
                                      THEN event.decision ELSE @]
    [] event.type = "task_error" ->
         [s EXCEPT !.taskId = t, !.serverStatus = "failed", !.activeRole = None,
                   !.connection = "idle"]
    [] event.type = "task_finished" ->
         [s EXCEPT !.taskId = t, !.serverStatus = event.status, !.activeRole = None,
                   !.connection = "idle"]
    [] OTHER -> [s EXCEPT !.taskId = t]

-----------------------------------------------------------------------------
(***************************************************************************)
(* The server, as far as the client can tell.                              *)
(***************************************************************************)

Snapshot(t) == [status |-> srv[t].status, review |-> srv[t].review]

\* Frame 0 is task_started, which normalizeAgentEvent drops; the last is the outcome.
Frame(t, id) ==
  IF id = 0 THEN [type |-> "task_started"]
  ELSE IF id = srv[t].frames - 1 /\ srv[t].done
       THEN IF srv[t].error THEN [type |-> "task_error"]
            ELSE [type |-> "task_finished", status |-> srv[t].status]
       ELSE Script[id]

ServerOnly == UNCHANGED <<store, flow, controller, poll, cache, seen, drops, overlapped>>

RunEmits(t) ==
  /\ srv[t].live
  /\ srv[t].frames <= Len(Script)
  /\ LET event == Script[srv[t].frames] IN
     srv' = [srv EXCEPT ![t].frames = @ + 1,
                        ![t].review = IF event.type = "node_end" /\ event.role = "reviewer"
                                      THEN event.decision ELSE @]
  /\ ServerOnly

Finished(s, status) ==
  [s EXCEPT !.status = status, !.review = ReviewOf(status),
            !.frames = @ + 1, !.done = TRUE, !.live = FALSE]

Failed(s) == [s EXCEPT !.error = TRUE, !.frames = @ + 1, !.done = TRUE, !.live = FALSE]

\* A run whose reviewer asked the user comes to rest awaiting the user.
RunEnds(t) ==
  /\ srv[t].live
  /\ \/ \E s \in Outcomes :
          /\ srv[t].review = "need_user_decision" => s = "awaiting_user"
          /\ srv' = [srv EXCEPT ![t] = Finished(srv[t], s)]
     \/ srv' = [srv EXCEPT ![t] = Failed(srv[t])]
  /\ ServerOnly

\* A finished run is evicted; a live one is gone when the server restarts.
RunForgotten(t) ==
  /\ srv[t].kept
  /\ srv' = [srv EXCEPT ![t].kept = FALSE, ![t].live = FALSE]
  /\ ServerOnly

-----------------------------------------------------------------------------
(***************************************************************************)
(* Flows: helpers.                                                         *)
(***************************************************************************)

NewFlow(kind, t) ==
  [kind |-> kind, phase |-> "asked", task |-> t, known |-> kind # "stream", retrying |-> FALSE,
   lastId |-> -1, pos |-> 0, attempt |-> 0, terminal |-> FALSE, aborted |-> FALSE, thrown |-> FALSE,
   applied |-> 0, answer |-> NoData]

\* The flow under way is left alone.
Aborted_none == flow

\* controllerRef.current?.abort()
Aborted == [i \in 1..Len(flow) |-> [flow[i] EXCEPT !.aborted = @ \/ i = controller]]

Busy == \E i \in 1..Len(flow) : flow[i].phase # "ended"

\* A change of the id cancels the request the snapshot query has in flight.
Show(s) ==
  /\ store' = s
  /\ poll' = IF s.taskId = store.taskId THEN poll ELSE [phase |-> "idle", answer |-> NoData]

Step(i, f) == flow' = [flow EXCEPT ![i] = f]

Ended(f) == [f EXCEPT !.phase = "ended", !.pos = 0, !.attempt = 0, !.answer = NoData]

Quietly == UNCHANGED <<store, poll>>

Lose == drops < MaxDrops /\ drops' = drops + 1

Click(hasty) == Len(flow) < MaxClicks /\ overlapped' = (overlapped \/ Busy \/ hasty)

\* startTask after streamTask returned, whoever made it return.
Returned(i, f) ==
  /\ Step(i, Ended(f))
  /\ IF store.serverStatus \in Final THEN Quietly
     ELSE Show([store EXCEPT !.connection = IF store.taskId # NoTask THEN "recovering" ELSE "offline"])

\* startTask after streamTask threw: an abort is silent.
Thrown(i, f) ==
  /\ Step(i, [Ended(f) EXCEPT !.thrown = TRUE])
  /\ IF f.aborted THEN Quietly
     ELSE Show([store EXCEPT !.connection = IF store.taskId # NoTask THEN "recovering" ELSE "offline"])

\* One reconnect too many.
Loop_off_by_one(i, f) ==
  IF f.terminal \/ ~f.known \/ f.aborted THEN Returned(i, f)
  ELSE IF f.attempt > MAX_RECONNECTS THEN Thrown(i, f)
  ELSE Step(i, [f EXCEPT !.phase = "sleeping"]) /\ Quietly

\* A response that was read to its end is taken for the end of the run.
Loop_clean_end(i, f) ==
  IF f.terminal \/ ~f.known \/ f.aborted \/ (f.retrying /\ f.attempt = 0) THEN Returned(i, f)
  ELSE IF f.attempt >= MAX_RECONNECTS THEN Thrown(i, f)
  ELSE Step(i, [f EXCEPT !.phase = "sleeping"]) /\ Quietly

\* The head of the reconnect loop.
Loop(i, f) ==
  IF f.terminal \/ ~f.known \/ f.aborted THEN Returned(i, f)
  ELSE IF f.attempt >= MAX_RECONNECTS THEN Thrown(i, f)
  ELSE Step(i, [f EXCEPT !.phase = "sleeping"]) /\ Quietly

-----------------------------------------------------------------------------
(***************************************************************************)
(* streamTask.                                                             *)
(***************************************************************************)

startTask ==
  /\ Click(FALSE)
  /\ store.connection # "connecting"
  /\ flow' = Append(Aborted, NewFlow("stream", NoTask))
  /\ controller' = Len(flow) + 1
  /\ Show(reset("connecting"))
  /\ UNCHANGED <<srv, cache, seen, drops>>

\* The POST reaches the server, which starts a run under a fresh id.
PostArrives(i) ==
  /\ flow[i].kind = "stream" /\ flow[i].phase = "asked"
  /\ \E t \in Tasks : srv[t] = Unborn
  /\ LET t == CHOOSE u \in Tasks : srv[u] = Unborn IN
       /\ srv' = [srv EXCEPT ![t] = [@ EXCEPT !.status = "running", !.frames = 1,
                                              !.live = TRUE, !.kept = TRUE]]
       /\ Step(i, [flow[i] EXCEPT !.phase = "reading", !.task = t])
  /\ UNCHANGED <<store, controller, poll, cache, seen, drops, overlapped>>

\* The request fails on its way, or is aborted.
PostFails(i) ==
  /\ flow[i].kind = "stream" /\ flow[i].phase = "asked"
  /\ IF flow[i].aborted THEN UNCHANGED drops ELSE Lose
  /\ Thrown(i, flow[i])
  /\ UNCHANGED <<srv, controller, cache, seen, overlapped>>

\* One frame of readSse: its number, then its event, with no await in between.
ReadFrame(i) ==
  LET f == flow[i]
      event == Frame(f.task, f.pos)
      taken == [f EXCEPT !.lastId = f.pos, !.pos = @ + 1, !.applied = @ + 1]
  IN  /\ f.kind = "stream" /\ f.phase = "reading" /\ ~f.aborted
      /\ f.pos < srv[f.task].frames
      /\ IF event.type = "task_started"
         THEN Step(i, taken) /\ Quietly
         ELSE /\ Step(i, [taken EXCEPT !.known = TRUE,
                            !.terminal = event.type \in {"task_finished", "task_error"}])
              /\ Show(applyEvent(store, f.task, event))
      /\ UNCHANGED <<srv, controller, cache, seen, drops, overlapped>>

\* The server has sent everything and closes the stream: readSse returns.
StreamCloses(i) ==
  LET f == flow[i] IN
  /\ f.kind = "stream" /\ ~f.aborted
  /\ \/ /\ f.phase = "reading"
        /\ srv[f.task].done /\ f.pos >= srv[f.task].frames
     \/ f.phase = "opened" /\ ~srv[f.task].kept /\ srv[f.task].done
  /\ Loop(i, [f EXCEPT !.retrying = TRUE, !.attempt = 0])
  /\ UNCHANGED <<srv, controller, cache, seen, drops, overlapped>>

\* The connection breaks while it is read: a server that restarted breaks it too.
StreamBreaks(i) ==
  LET f == flow[i]
      dead == ~srv[f.task].live /\ ~srv[f.task].done
  IN  /\ f.kind = "stream" /\ f.phase \in {"reading", "opened"} /\ ~f.aborted
      /\ IF dead THEN UNCHANGED drops ELSE Lose
      /\ IF f.known THEN Loop(i, [f EXCEPT !.retrying = TRUE]) ELSE Thrown(i, f)
      /\ UNCHANGED <<srv, controller, cache, seen, overlapped>>

\* An abort while the first response is read is thrown; later it makes streamTask return.
StreamAborted(i) ==
  LET f == flow[i] IN
  /\ f.kind = "stream" /\ f.aborted
  /\ f.phase \in {"reading", "sleeping", "opening", "opened"}
  /\ IF f.retrying THEN Returned(i, f) ELSE Thrown(i, f)
  /\ UNCHANGED <<srv, controller, cache, seen, drops, overlapped>>

Wake(i) ==
  LET f == flow[i] IN
  /\ f.kind = "stream" /\ f.phase = "sleeping" /\ ~f.aborted
  /\ Step(i, [f EXCEPT !.phase = "opening", !.attempt = @ + 1])
  /\ UNCHANGED <<srv, store, controller, poll, cache, seen, drops, overlapped>>

\* The stream is asked for from the last frame it holds.
Reconnect_inclusive(i) ==
  LET f == flow[i] IN
  /\ f.kind = "stream" /\ ~f.aborted
  /\ \/ /\ f.phase = "opening"
        /\ \/ ~srv[f.task].kept /\ Thrown(i, f) /\ UNCHANGED drops
           \/ srv[f.task].kept /\ Step(i, [f EXCEPT !.phase = "opened"]) /\ Quietly /\ UNCHANGED drops
           \/ Lose /\ Loop(i, f)
     \/ /\ f.phase = "opened" /\ srv[f.task].kept
        /\ Step(i, [f EXCEPT !.phase = "reading", !.pos = f.lastId]) /\ Quietly
        /\ UNCHANGED drops
  /\ UNCHANGED <<srv, controller, cache, seen, overlapped>>

\* GET /tasks/{id}/events: 409 when the run is gone; the generator looks it up again later.
Reconnect(i) ==
  LET f == flow[i] IN
  /\ f.kind = "stream" /\ ~f.aborted
  /\ \/ /\ f.phase = "opening"
        /\ \/ ~srv[f.task].kept /\ Thrown(i, f) /\ UNCHANGED drops
           \/ srv[f.task].kept /\ Step(i, [f EXCEPT !.phase = "opened"]) /\ Quietly /\ UNCHANGED drops
           \/ Lose /\ Loop(i, f)
     \/ /\ f.phase = "opened" /\ srv[f.task].kept
        /\ Step(i, [f EXCEPT !.phase = "reading", !.pos = f.lastId + 1]) /\ Quietly
        /\ UNCHANGED drops
  /\ UNCHANGED <<srv, controller, cache, seen, overlapped>>

-----------------------------------------------------------------------------
(***************************************************************************)
(* selectSession, handleResume, handleStop.                                *)
(***************************************************************************)

\* selectSession has no controller of its own: nothing aborts its request.
selectSession(t) ==
  /\ Click(FALSE)
  /\ srv[t].status # None
  /\ flow' = Append(Aborted, NewFlow("select", t))
  /\ Show(reset("recovering"))
  /\ UNCHANGED <<srv, controller, cache, seen, drops>>

canResume == store.taskId # NoTask /\ ~store.resuming
             /\ (store.serverStatus = "awaiting_user" \/ store.reviewDecision = "need_user_decision")

handleResume ==
  /\ canResume
  /\ Click(srv[store.taskId].live)
  /\ flow' = Append(Aborted, NewFlow("resume", store.taskId))
  /\ controller' = Len(flow) + 1
  /\ Show([store EXCEPT !.resuming = TRUE, !.connection = "connecting"])
  /\ UNCHANGED <<srv, cache, seen, drops>>

\* The server answers: a snapshot, or the result of the resumed task.
Answers(i) ==
  LET f == flow[i] IN
  /\ f.kind \in {"select", "resume"} /\ f.phase = "asked"
  /\ IF f.kind = "select" THEN Step(i, [f EXCEPT !.phase = "answered", !.answer = Snapshot(f.task)])
                               /\ UNCHANGED srv
     ELSE \E s \in Outcomes :
            /\ srv' = [srv EXCEPT ![f.task].status = s, ![f.task].review = ReviewOf(s)]
            /\ Step(i, [f EXCEPT !.phase = "answered",
                          !.answer = [Snapshot(f.task) EXCEPT !.status = s, !.review = ReviewOf(s)]])
  /\ UNCHANGED <<store, controller, poll, cache, seen, drops, overlapped>>

\* A history task that is still running is shown as interrupted and not polled.
SelectEnds(i) ==
  LET f == flow[i]
      shown == applySnapshot(store, f.task, f.answer)
  IN  /\ f.kind = "select"
      /\ \/ /\ f.phase = "answered"
            /\ Show(IF f.answer.status = "running" THEN markInterrupted(shown) ELSE shown)
            /\ UNCHANGED drops
         \/ Lose /\ f.phase # "ended"
            /\ Show([applyUnread(store, f.task) EXCEPT !.connection = "offline"])
      /\ Step(i, Ended(f))
      /\ UNCHANGED <<srv, controller, cache, seen, overlapped>>

\* `finally` clears resuming, for whichever resume is under way.
ResumeEnds(i) ==
  LET f == flow[i] IN
  /\ f.kind = "resume"
  /\ \/ /\ f.phase = "answered" /\ ~f.aborted
        /\ Show([applySnapshot(store, f.task, f.answer) EXCEPT !.resuming = FALSE])
        /\ UNCHANGED drops
     \/ /\ f.phase # "ended" /\ f.aborted
        /\ Show([store EXCEPT !.resuming = FALSE])
        /\ UNCHANGED drops
     \/ /\ f.phase # "ended" /\ ~f.aborted /\ Lose
        /\ Show([store EXCEPT !.resuming = FALSE, !.connection = "offline"])
  /\ Step(i, Ended(f))
  /\ UNCHANGED <<srv, controller, cache, seen, overlapped>>

canStop ==
  /\ store.taskId # NoTask /\ ~store.interrupted
  /\ store.serverStatus \notin {"completed", "failed"}
  /\ store.connection \in {"connecting", "live", "recovering"}

\* The cancel request may be lost; a run that it reaches ends in a task_error.
handleStop ==
  /\ canStop
  /\ flow' = Aborted
  /\ Show(markInterrupted(store))
  /\ \/ UNCHANGED srv
     \/ /\ srv[store.taskId].live
        /\ srv' = [srv EXCEPT ![store.taskId] = Failed(srv[store.taskId])]
  /\ UNCHANGED <<controller, cache, seen, drops, overlapped>>

-----------------------------------------------------------------------------
(***************************************************************************)
(* Recovery from snapshots.                                                *)
(***************************************************************************)

QueryOnly == UNCHANGED <<srv, flow, controller, overlapped>>

\* The query is enabled while the store is recovering a task.
PollAsks ==
  /\ poll.phase = "idle"
  /\ store.taskId # NoTask /\ store.connection = "recovering"
  /\ poll' = [phase |-> "asked", answer |-> Snapshot(store.taskId)]
  /\ UNCHANGED <<store, cache, seen, drops>>
  /\ QueryOnly

PollAnswers ==
  /\ poll.phase = "asked"
  /\ \/ cache' = [cache EXCEPT ![store.taskId] = poll.answer] /\ UNCHANGED drops
     \/ Lose /\ UNCHANGED cache
  /\ poll' = [phase |-> "idle", answer |-> NoData]
  /\ UNCHANGED <<store, seen>>
  /\ QueryOnly

QueryData ==
  IF store.taskId = NoTask \/ cache[store.taskId] = NoData
  THEN [task |-> NoTask, data |-> NoData]
  ELSE [task |-> store.taskId, data |-> cache[store.taskId]]

EffectDue == seen # QueryData

\* The effect on snapshotQuery.data: also what a changed id finds in the cache.
ApplyQueryData ==
  /\ seen' = QueryData
  /\ IF QueryData.task = NoTask THEN Quietly
     ELSE Show(applySnapshot(store, QueryData.task, QueryData.data))
  /\ UNCHANGED <<cache, drops>>
  /\ QueryOnly

\* No snapshot brought anything new for 30 seconds.
SafetyNet ==
  /\ store.connection = "recovering"
  /\ Show(markInterrupted(store))
  /\ UNCHANGED <<cache, seen, drops>>
  /\ QueryOnly

-----------------------------------------------------------------------------

Server(t) == RunEmits(t) \/ RunEnds(t) \/ RunForgotten(t)

Stream(i) == PostArrives(i) \/ ReadFrame(i) \/ StreamCloses(i) \/ StreamAborted(i)
             \/ Wake(i) \/ Reconnect(i)

Requested(i) == Answers(i) \/ SelectEnds(i) \/ ResumeEnds(i)

User == startTask \/ handleResume \/ handleStop \/ \E t \in Tasks : selectSession(t)

Next ==
  \/ EffectDue /\ ApplyQueryData
  \/ /\ ~EffectDue
     /\ \/ User
        \/ PollAsks \/ PollAnswers \/ SafetyNet
        \/ \E t \in Tasks : Server(t)
        \/ \E i \in 1..Len(flow) : Stream(i) \/ PostFails(i) \/ StreamBreaks(i) \/ Requested(i)

Spec == Init /\ [][Next]_vars

\* Runs end, the network answers, timers fire, and effects run when React renders.
FairSpec ==
  /\ Spec
  /\ WF_vars(EffectDue /\ ApplyQueryData)
  /\ WF_vars(~EffectDue /\ SafetyNet)
  /\ \A t \in Tasks : WF_vars(~EffectDue /\ RunEnds(t))
  /\ \A i \in 1..MaxClicks :
       WF_vars(~EffectDue /\ i <= Len(flow) /\ (Stream(i) \/ StreamBreaks(i) \/ Requested(i)))

-----------------------------------------------------------------------------
(***************************************************************************)
(* Properties.                                                             *)
(***************************************************************************)

\* Over every break and reconnect a stream takes each frame once and skips none.
EachFrameAppliedOnce ==
  \A i \in 1..Len(flow) : flow[i].applied = flow[i].lastId + 1

\* A stream that knows its task and returns by itself has brought the outcome;
\* otherwise it throws, and the caller recovers from a snapshot (api.ts:99).
StreamBringsOutcome ==
  \A i \in 1..Len(flow) :
    LET f == flow[i] IN
    f.kind = "stream" /\ f.phase = "ended" /\ f.known /\ ~f.thrown /\ ~f.aborted => f.terminal

\* "Live" is shown only while the stream of the task in view is under way, and is
\* the one the next click aborts.
LiveMeansStreaming ==
  store.connection = "live" =>
    /\ controller # 0
    /\ LET f == flow[controller] IN
       f.kind = "stream" /\ f.phase # "ended" /\ ~f.aborted /\ f.task = store.taskId

\* Whoever waits for each click to come to rest before the next, and for a run to
\* stop before answering it, is never shown "completed" for a task that is not.
CompletedIsTrue ==
  deriveStatus(store) = "completed" /\ ~overlapped =>
    store.taskId \in Tasks /\ srv[store.taskId].status = "completed"

\* Left alone, the client stops asking: every flow ends and no view polls forever.
ClientComesToRest == <>[](~Busy /\ store.connection # "recovering")

(***************************************************************************)
(* A statement of the docs that the code does not keep.                    *)
(***************************************************************************)

\* api.ts:79: the run is detached, so a dropped connection does not kill it: the
\* client reconnects and resumes the stream.  task_started tells it the id.
StartedStreamIsResumed ==
  \A i \in 1..Len(flow) :
    LET f == flow[i] IN
    f.kind = "stream" /\ f.thrown /\ ~f.aborted /\ f.applied > 0 => f.retrying
=============================================================================
