# agent-room in TLA+

TLA+ models of `agent_room`, a goal-driven multi-agent task runner: LLM roles
wired as a LangGraph graph, a service that runs and resumes tasks on a
checkpointer, an HTTP server that detaches runs from the requests that start
them, and a web page that follows them. The modules are translated from
the Python and TypeScript source; where a comment or a document says something
else, a run or a note shows the difference (see *Where code and docs
disagree*).

| module | what it is |
|---|---|
| `Routing` | the seven presets as graphs, and the four edge routers |
| `TaskState` | the task state, and each role as a function on it |
| `TaskRun` | one task from request to verdict: supersteps, halts, faults, resumes |
| `TaskLifecycle` | abstract: the status machine a polling client relies on |
| `MCTaskRun` | instances of `TaskRun` for TLC: what models and the oracle may answer |
| `TaskRunProofs` | theorems about `TaskRun`, with its refinement of `TaskLifecycle` |
| `RunManager` | detached runs, replay buffer, subscriptions, cancel, eviction |
| `EventLog` | abstract: the numbered, forgetful log that a run's streams read |
| `RunManagerProofs` | theorems about `RunManager`, with its refinement of `EventLog` |
| `WebClient`, `MCWebClient` | the web page: clicks, streams with reconnects, snapshots, what is shown |
| `WebClientProofs` | theorems about `WebClient` |
| `Server`, `ServerProofs` | HTTP handlers, session rows, checkpoints, tenant pool, restarts; theorems |
| `ContextWindow`, `ContextWindowProofs` | the context engines and the spilling of tool results, as functions; theorems |
| `ToolEnvelope` | the tools a developer holds under the server's settings, as functions |
| `AgentLoop`, `MCAgentLoop` | the developer's tool loop and review call by call, and its instances |
| `AgentLoopProofs` | theorems about `AgentLoop`, on those about `ContextWindow` |
| `EventStream`, `EventStreamProofs` | what a run shows while it streams: event frames and scrubbed text; theorems |
| `Evaluation`, `MCEvaluation` | the evaluation harness: sandboxes, runs with timeouts, oracles, records |
| `EvaluationProofs` | theorems about `Evaluation` |

`TaskRun` extends `TaskState`, which extends `Routing`; `TaskRun` implements
`TaskLifecycle` through a refinement mapping. `AgentLoop` extends
`ContextWindow` and `ToolEnvelope`: it opens up the developer's turn, which is
one step of `TaskRun`, and takes the rest of the task as given. `EventStream` makes
the frames that `RunManager` numbers; `Evaluation` calls the service as the
server does, without a server. `RunManager`,
`Server` and `WebClient` are layers around a task; `RunManager` implements
`EventLog`. To `RunManager` a run is a
producer of frames; to `Server` it is somebody driving a checkpoint thread; to
`WebClient` it is what the other two promise, numbered frames that can be
replayed and a status.

## The system

| component | state it keeps | operations | interacts through |
|---|---|---|---|
| Graph builder, presets (`graph.py`, `presets/`) | the compiled graph | build from spec | calls role factories; LangGraph drives it |
| Routers (`routers.py`) | none | four pure functions of the state | called by LangGraph after a node's update |
| Task state (`state.py`, `schemas.py`) | channels of a checkpoint thread | reducers | every node reads and updates it |
| Roles (`roles/`) | none of their own | one async node each | state, LLM transport, transcript |
| Service (`service.py`) | none; the checkpointer is the store | run, stream, resume, snapshot | graph, checkpointer |
| Tool approval (`tools/_approval.py`) | the interrupt on the checkpoint | interrupt, approve, deny | tool node, `resume(at_node="tool_call")` |
| Developer prompt (`prompt/`) | none | render from the state | developer nodes |
| Run manager (`server/runs.py`) | runs, buffers, background tasks | start, drive, cancel, subscribe, evict, close | HTTP routes, service.stream |
| HTTP API (`server/api.py`) | app.state | task, stream, events, cancel, resume, files | all of the server |
| Tenant pool (`server/tenancy.py`) | open checkpointers by tenant | get, close | API |
| Sessions (`server/sessions.py`, `compat_v1.py`) | two SQLite tables | create, attach, list, delete | API |
| Context engines (`context/`) | a summary | should_compress, compress | tool-using developer |
| Transport, budget, guardrail (`llm/`, `budget.py`, `guardrail.py`) | usage counters | invoke, structured, scan | roles; exceptions end a run |
| Tools (`tools/`) | spill store | filters, file, shell, MCP calls | tool node |
| Web client (`mulit_agent_web_ui/src`) | task store, last frame id | stream, reconnect, cancel, resume | API over SSE |
| Graph specs (`spec.py`, `graph.py`) | none | load, validate, build | service, CLI, server |
| Events (`events.py`) | a scrubber and the last role, per task | format, flush | `service.stream`, server and CLI producers |
| Evaluation (`eval/`, `evals/run.py`) | sandboxes, records | run_pair, run_matrix, verify | service, threads of tool calls |
| Others | - | config, CLI, tracing, probes | - |

Hard behaviours, and what correctness means there:

- **Graph and service.** Three nested loops (tool calls, revisions, goal
  verification) with budgets in different fields; halts that wait for a user;
  exceptions between checkpoints; resumes that write an update *as* a node the
  run may not be at. Correct: loops end by their own budgets, only judged code
  is delivered, the developer is told what it must act on, the status tells
  the client the truth.
- **Transcript.** A tool-using developer does not re-render its prompt, so all
  news must be pushed into `dev_messages`, and each tool call must be answered
  before the next message.
- **Run manager.** One event loop, many coroutines. A subscriber sleeps inside
  a loop over a copied slice while the buffer is trimmed and the run ends; a
  cancel races the run's start and end; eviction runs under live subscriptions.
  Correct: streams are ordered, skip only what was dropped, end with the
  terminal frame, and end at all.
- **Server.** Handlers that await between the check and the use of a row, a
  link, a connection or a run; two first requests of a tenant; one step of
  several failing; a restart in the middle. Correct: one connection per tenant,
  no task in another tenant's database, no run that cannot be found again,
  every request answered.
- **Web page.** Clicks start async functions that overlap; a stream breaks, is
  refused, ends early or is replayed; a cached snapshot is older than the
  stream. Correct: each frame taken once, no outcome missed in silence, no
  outcome shown that is not so, and a page that comes to rest.
- **Developer's loop.** A window drops messages of a transcript whose tool
  calls and results belong together; an approval restarts the tool node; every
  resume compiles the graph anew and with it the budget. Correct: the provider
  accepts what is sent, results reach the model that asked, tools act only with
  leave, spending stays bounded.

- **Events.** Text arrives in chunks of several models, some of it held back, some
  of it never to be shown. Correct: the redacted text, whole, before the outcome.
- **Evaluation.** Tool calls are threads that outlive the run that made them; any
  await may time out or raise. Correct: records tell the truth about their run and
  their code, nothing is left on disk, the developer does not see its exam.

`PROJECT.json` lists every component with its status and every hazard at its
line, with the properties that cover it.

## Task runs: `Routing`, `TaskState`, `TaskRun`

**Data.** A text is `none`, `blank` (falsy in Python, which matters to routers
and to the status) or `text`. Code versions are counted: a review, an oracle
run and a delivery carry the number of the code they are about, which the
program does not store; these `of` and `by` fields and `supervisions` are read
by properties only. The transcript keeps the kind of its newest message,
whether a call was ever buried unanswered (`torn`), and the kinds of input
whose newest item it holds (`known`). Artifacts, events and wording are left
out.

**Steps.** LangGraph runs one node per superstep in these graphs and
checkpoints its update together with the node that follows. A step of
`TaskRun` is therefore a superstep: `Superstep(n, s)` writes the role's update
and the router's choice together.

| variable | code |
|---|---|
| `spec` | the compiled graph: preset, and `tool_mode` of its developer |
| `st` | channel values of the latest checkpoint |
| `next` | `StateSnapshot.next` |
| `gate` | the approval interrupt: none, halted, answered and not yet executed |
| `live` | an `ainvoke` or `astream_events` call is driving the graph |
| `outcome` | how the last invocation ended: returned, raised, recursion limit |
| `steps` | supersteps of this invocation, against `recursion_limit` |

| action | code |
|---|---|
| `Planner`, `Developer`, `Reviewer`, `Verify`, `Supervisor`, `Delivery` | the role nodes, each followed by its edge |
| `ApprovalHalt`, `Tools` | the tool node with `make_approval_wrapper` |
| `Return`, `RecursionError`, `Raise` | the invocation ends; `Raise` stands for a failed model call, a tripped budget or guardrail, a cancel, a killed process |
| `ResumeAtReviewer`, `ResumeAtPlanner`, `ResumeToolCall` | the three paths of `service.resume` |

A raise leaves the last checkpoint as it was, and so does a crash: the next
resume starts there. `service.resume` checks neither the status nor whether
`at_node` is what halted the task; who calls it, when and with which `at_node`
is the client's, given by `Client` and `ResumeOn`. A batch of tool calls is one
call here, with one verdict; `AgentLoop` has each call. Verdicts are sent only where a
call waits for one (`ResumeToolCall`): `service.py:256` does not look, but what LangGraph
makes of a verdict that nothing asked for is not in this code. Two invocations on one
thread at the same time are not modelled: which of their checkpoints is read
and which is written over is up to LangGraph and the database. A resume at a node that the
preset lacks is an exception in LangGraph and is left out.

The preset files' graphs are modelled as shipped. `PresetNodes` and
`DeveloperTarget` write them as sets and functions, one line per kind of
preset instead of one per edge.

**Client kinds.** `documented` answers only a task that awaits its user, and
at the node that halted it, as the docstring of `resume` describes. `http`
always answers at the reviewer, as `POST /tasks/{id}/resume` and the CLI do.
`any` names any node. A run takes a set of statuses (`ResumeOn`) in which the
client resumes.

### Runs

| run | shows |
|---|---|
| `task_documented` | all presets, documented client, exceptions possible everywhere. The developer is never blind to plan, review or verification failure (`DeveloperIsNeverBlind`); no tool call is buried unanswered (`ToolCallsAnswered`); a returned run is settled in presets that deliver (`ReturnedRunIsSettled`); every such task ends with a verdict or with an exception (`EveryTaskConcludes`); the status and the work behind it follow `TaskLifecycle` (`ImplementsLifecycle`) |
| `task_anyclient` | all presets, blank texts, exceptions, and a client that resumes a stopped task in any status at any node. Delivery only of judged code (`OnlyJudgedCodeIsDelivered`); the budgets of the three loops, the supervisor's pace (at most one consultation for three failures) and, for each invocation, no more supersteps than the budgets pay for (`BudgetsRespected`) |

`Supersteps` is the sum that `GRAPH_RECURSION_LIMIT` estimates, taken exactly: a plan,
each pass of the developer with its checks, two supersteps for each detour over the
supervisor, a delivery. It is reached: with an oracle, seven iterations and two tool
rounds there is a run that takes every one of them.

**Bounds.** Budgets are per task and chosen by `Init`: revisions 0, 1, 2;
iterations 1 (one failure ends it), 4 and 7 (one and two supervisor detours,
each followed by more work), and in `task_anyclient` 5, so that two more
failures follow a detour. `MaxDevRounds` 2 gives a tool turn and the forced
last turn. `MaxResumes` bounds the directives of a task: 6 in the documented
run is more than any task there can use, since each answer at the reviewer
uses a revision round, each answer to a supervisor leads to three more
verifications, and the planner gate asks once per plan; the liveness property
would fail if the bound cut a task off. `task_anyclient` allows 2, enough to
resume a resumed task, because an arbitrary client has no bound of its own.
`RecursionLimit` is
60 in `task_documented`, above the longest path of its budgets (the liveness
property would report a run cut off by it), and 20 in `task_anyclient`, where
runs do hit it and are resumed. Blank texts are left out of
`task_documented`: a blank plan in `planner_gate` or a blank delivery returns a
run that is still "running", which `ReturnedRunIsSettled` would report, as it
would for the presets without a delivery node, which it leaves out.

**Fairness.** `WF` on the nodes, `Return` and `RecursionError` together: the
event loop keeps driving a live invocation, whose model calls have timeouts.
`WF` on `Resume`: a user who is asked answers. Nothing is assumed of `Raise`.

**Refinement.** `Status` is `_materialize_status` of the latest checkpoint.
`Working` is "an invocation is live and has a node to run"; a tool call that
was answered but not yet executed counts as parked, because LangGraph keeps
reporting the interrupt until the tool node's update makes the next
checkpoint. Under it every step of `TaskRun` is a step of `TaskLifecycle` or a
stutter: a verdict is final, a parked task moves only by an answer, and an
answer either puts the task to work or finds its budget spent.

## Detached runs: `RunManager`

One event loop: a coroutine can be interrupted only where it really suspends.
No code holds a run's lock across a suspension, so the lock is never waited
for, and a step here is all a coroutine does between two suspensions: in
`subscribe` each yielded frame, in `cancel` the wait for the background task,
in `_drive` the producer.

| variable | code |
|---|---|
| `runs`, `order` | `_runs` (its keys) and `_order` |
| `run` | the `_Run` objects, which subscribers keep after an eviction; `drive` and `cancelled` are the asyncio task's |
| `sub` | each `subscribe()` generator: index, copied frames, the `done` it read, what it has sent |
| `canceller` | each `cancel()` call |
| `down` | `aclose` has been called |

| action | code |
|---|---|
| `start` | `start`, with `_evict_done` |
| `DriveBegins`, `DriveAppends`, `DriveEnds`, `DriveNeverBegins` | `_drive` with `_append`; its last frame and `done` come in one step because nothing suspends between them; a task cancelled before its first step runs none of it |
| `cancel`, `CancelReturns`, `aclose` | the same |
| `Attach`, `Begin` | `has()` in the route, then the generator's own lookup when the response starts |
| `Read`, `Yield`, `Yielded`, `Disconnect` | the loop of `subscribe`, and the client going away |

### Run

`run_streams`: two runs, one subscription, one cancel. A frame is skipped only
when the buffer had dropped it (`OnlyTrimmedFramesAreSkipped`); a cancel that
answered true has stopped the run and told its subscribers
(`CancelTellsSubscribers`); the stream of a client that stays ends (`StreamsEnd`).
Proved besides: frames are sent in order and none twice (`FramesInOrder`), a
stream that closes by itself has sent the terminal frame
(`StreamEndsWithTerminalFrame`), live runs are not evicted (`LiveRunsAreKept`).
All of it together, as a client sees it, is `EventLog`: a log that only grows and forgets from its old
end, and readers that move forward, pass over nothing that is still kept, and
finish only at the end of a closed log (`ImplementsEventLog`). A reader's
position is the frame after the last one it was sent; trims, evictions, cancels
and the copied slices of a suspended generator are stutters.

**Bounds.** A run has up to three frames and its terminal one against a buffer
of two, so the buffer is trimmed up to twice and a sleeping subscriber may fall
behind its start. `KeepDone` is 0, so the second start evicts a finished first
run. Subscribers do not affect each other or the runs, so one suffices; two
runs are needed for eviction. `Last-Event-ID` ranges over -1 to the last frame.
`CancelTellsSubscribers` and `StreamsEnd` except a run that was cancelled
before its first step (`NeverBegan`): asyncio then runs none of `_drive`, no
terminal frame is appended, and whoever subscribed waits until disconnecting.

**Fairness.** `WF` on each step of a subscriber (a client that stays takes its
frames), on the first and the last step of a background task, and on the return of
`cancel`. No fairness on starts, cancels, disconnects or more frames.

## The web page: `WebClient`

Each click starts an async function, a *flow*: `startTask` with `streamTask`
inside it, `selectSession`, `handleResume`. `AbortController` ends some flows
when another click comes, and not others. A step is what JavaScript runs
between two awaits; the effect on new snapshot data (`ApplyQueryData`) runs
before anything else, as React does after a render.

| variable | code |
|---|---|
| `srv` | the server: status, review, frames sent, whether the run lives and is kept |
| `store` | `useTaskStore`: id, status, roles, review, connection, flags |
| `flow` | calls of the three functions: phase, `lastId`, `attempt`, `terminal`, abort signal |
| `controller` | `controllerRef` |
| `poll`, `cache`, `seen` | the snapshot query: request in flight, data per id, data the effect ran with |
| `drops`, `overlapped` | connections lost; whether a click came while a flow, or the run it answers, was under way (read by a property) |

| action | code |
|---|---|
| `startTask`, `selectSession`, `handleResume`, `handleStop` | the clicks, with their guards in the page |
| `PostArrives`, `PostFails` | the `POST` of `streamTask` |
| `ReadFrame`, `StreamCloses`, `StreamBreaks`, `StreamAborted` | `readSse` and `onFrame` |
| `Wake`, `Reconnect`, `Loop` | the reconnect loop: back-off, 409, the second look-up by the server's generator |
| `Answers`, `SelectEnds`, `ResumeEnds` | the answers of the two plain requests, and their loss |
| `PollAsks`, `PollAnswers`, `ApplyQueryData`, `SafetyNet` | the snapshot query while the page is `recovering`, and its 30 s net |
| `RunEmits`, `RunEnds`, `RunForgotten` | external: a run streams, ends, is evicted or dies with the process |

`deriveStatus` is the label of `lib/status.ts`; what else is displayed is left
out.

*Run* `web_flows`. Over every break and reconnect a stream takes each frame once
and skips none (`EachFrameAppliedOnce`). A stream that knows its task and
returns by itself has brought the outcome (`StreamBringsOutcome`); one that
cannot throws, and the page recovers from a snapshot. "Live" is shown only for
a stream that is under way and that the next click aborts
(`LiveMeansStreaming`). Whoever lets each click come to rest, and a run stop
before answering its question, is never shown "completed" for a task that is not
(`CompletedIsTrue`; two overlapping clicks can do that, because `selectSession`
is aborted by nothing, and so can an answer to a run that has not stopped). The
page comes to rest (`ClientComesToRest`).

*Bounds.* Two clicks, each of any kind, with any number of stops, on two tasks
of today and one of earlier days: enough for each pair of flows to overlap. One
connection is lost, at any point; `MAX_RECONNECTS` is 1, so that a second
failure (a refused or dead stream, which is no loss) exceeds it. A run
sends its start, up to two events and its outcome, so a stream can break before,
between and after each; the second event is a review that asks the user.

*Fairness.* `WF` on the effect, on the timer of `SafetyNet`, on the end of each
run and on each flow's steps: a request is answered or fails, a back-off timer
fires. No fairness on clicks or on the loss of connections alone.

## Requests: `Server`

A handler is the list of its awaits (`Handlers`); each step of it is an action,
and between two steps other handlers run, a step may raise, or the process may
restart.

| variable | code |
|---|---|
| `rows`, `links` | `agent_room_sessions`, `agent_room_session_tasks` |
| `db` | per tenant database, the graph each checkpoint thread was last written by |
| `pool` | `TenantCheckpointerPool`: entries, connections open, holder of `_lock` |
| `background` | runs of the run manager |
| `req` | handler calls, with what each still has to do |
| `made`, `deleted`, `faults` | who asked for a task, which tasks a deleted session held, faults so far (read by properties and bounds) |

| action | code |
|---|---|
| `SendNew`, `SendKnown` | a client's request: for a new task, or about an id that some answer showed |
| `record`, `find`, `link`, `exists`, `delete` | `SessionStore.create`, the two statements of `attach_task`, `get`, `delete` with its cascade |
| `check` | `_check_tenant_owns_task` |
| `open`, `waited`, `opening` | `TenantCheckpointerPool.get`: the look without the lock, the look under it, the opening |
| `run`, `drive`, `start`, `BackgroundEnds` | a run inside the request, or handed to the run manager |
| `has`, `cancel`, `snapshot`, `known` | the rest of events, cancel and get |
| `Raises`, `Restart` | a step fails; the process ends and starts again |

*Run* `server_tasks`. A tenant's database is opened once and what is open is
what the pool will close (`OneConnectionPerTenant`). A task's checkpoints are in
its tenant's database only (`TenantsStayApart`); a deleted session leaves its
tasks without a row, and a task without a row belongs to whoever names it
(`api.py:288`), so deleted sessions and the legacy routes, which know no tenants,
are excepted in the statement. Every run can be found from the list of sessions, also after a
crash between any two steps (`RunsAreListed`), and `GET` does not deny a task
to the tenant that made it (`TasksAreFound`). Every request is answered
(`RequestsEnd`).

*Bounds.* Two tenants, one of which has to be opened; two tasks; one session of
the legacy route; three requests, so that two race for what a third one uses or
deletes; one fault, at any step. A handler has at most six steps.

*Fairness.* `WF` on the steps of each handler: the event loop runs what is
ready, databases answer. None on requests, faults and the end of background
runs.

## The developer's loop: `ContextWindow`, `ToolEnvelope`, `AgentLoop`

`ContextWindow` has `should_compress`, both partitions with the realignment of
head and tail, `apply`, and what is spilled, as functions of an engine and a
transcript. A message is its kind, its size in tokens, and which call of which
message it makes or answers. The marker that replaces what was dropped is a human
message of any size: the sentence of `engine.py:257`, or an LLM's summary between a
header and a footer (`summary.py:162`). `Legal` is what a provider accepts. `ToolEnvelope`
computes from the server's settings the registry, the developer node, and the
tools that the policy leaves (`resolved_tools`), and when the build refuses.

| variable of `AgentLoop` | code |
|---|---|
| `cfg` | settings, engine, budgets of one task; what models and tools may answer; the sizes a marker may have (`markers`) |
| `dev_messages`, `dev_round`, `revision_round`, `next` | channels of the checkpoint |
| `mode` | live, halted for an approval, down after an exception, returned |
| `verdicts` | answers to the interrupts of the tool node's task, in order |
| `budget` | `BudgetTracker`, one per compiled graph |
| `learned` | `_needs_json_fallback` of the transport |
| `spilled` | `SpillStore`, kept by the bindings across resumes |
| `review`, `spent`, `shown`, `acted` | model calls of the structured call at hand; costs over all invocations; calls a user approved; calls whose tool ran (read by properties) |

| action | code |
|---|---|
| `developer_react`, `DeveloperRaises` | the node: guardrail on new results, closing note, compression, model call, `record`, `record_tool_calls` |
| `ToolsHalt`, `tools`, `ToolsRaise` | the tool node under `make_approval_wrapper`, and `make_tool_node` without it |
| `structured`, `structured_via_json_prompt` | `LLMTransport.structured` with its retries and the remembered fallback, for the review |
| `ResumeToolCall`, `ResumeAtReviewer` | `service.resume` with the graph compiled again |

An approval halts once per call of a batch: a tool node that is interrupted
starts over on resume, takes the answers given so far and stops at the first
call without one. Calls that were approved before it run again in each such pass.

*Run* `agent_turns`:

| property | says |
|---|---|
| `PromptsAreSound` | what is sent is a legal transcript, when at most two messages are protected at the head and no gated tool node raised (`PromptsAreLegal`); a limit in messages is kept, and one in tokens is exceeded only where the marker takes more than the ratio leaves it, or marker and newest message take more than the head leaves (`PromptFitsWindow`); it has the newest results, when more messages are protected than the batch has (`ResultsReachModel`) |
| `PoisonNeverReachesModel` | in block mode no result that trips the guardrail is sent, after any number of resumes |
| `SpendingIsBounded` | an invocation overspends a ceiling by at most one model call |
| `OnlyPermittedToolsAct` | a tool acts with leave of policy, settings, guardrail and, when asked, the user, for that very call |
| `DroppedResultsAreSpilled` | a large result that a summary replaced is in the spill store |
| `InvocationsEnd` | every invocation returns, halts or raises |

One more is stated there and proved: a structured call has at most two attempts each
way, and the fallback is remembered (`StructuredRetriesAreBounded`).

*Bounds.* A profile per question (`MCAgentLoop`): four windows by count and four
in tokens, one of them with `target_ratio` 1.0, over small and large results,
two with a revision in between, guardrail
modes with and without a window, tool modes with MCP tools that do and do not
declare themselves readers, budgets that trip on tokens or on calls, and failing
reviews. Batches have up to two calls, so that a cut can fall inside one and an
approval can be followed by a denial. Markers have one token where messages are
counted. Three of the windows in tokens have
them of 1, 4 and 15 tokens over limits of 8 and 12: one that has room, one that
the ratio has none for, and one longer than the whole limit, so that both exceptions of
`PromptFitsWindow` occur. Three tool rounds give transcripts of up to
twelve messages against windows of four to seven messages or eight to twelve
tokens. Three invocations allow a resume of a resume.

*Fairness.* `WF` on the steps of a live invocation: a model call answers or
fails, as its timeout makes it.

## What a run shows: `EventStream`

LangGraph's events become frames (`format_stream_event`), and text passes
`StreamingContextScrubber`, which hides what stands between `<memory-context>`
and `</memory-context>`. Text is a sequence of pieces: words and the two halves of
each tag. A frame of text carries *positions* of the whole text, so that the
properties can say which text was shown.

| variable | code |
|---|---|
| `phase`, `node` | the producer (`api.py:352`, `cli.py:87`); the node under way |
| `fed` | the text of all models so far, with the node of each piece |
| `scrubber` | the scrubber of the stream and `_last_token_meta` |
| `frames` | what the producer yielded |

| action | code |
|---|---|
| `NodeStarts`, `NodeEnds`, `Token`, `Usage`, `Tool` | the cases of `format_stream_event`, `StreamEventFormatter.format` |
| `StreamEnds` | `flush` after the last event |
| `Starts`, `Finishes`, `Fails` | the frames around it; the run manager's `task_error` |

*Run* `events_text`. `ShownIsRedaction` compares what was shown with the redaction of
the *whole* text, a set of positions computed from the text alone by looking for tags;
that chunks and models cut it anywhere must not matter. Shown and held-back text
together are that set, in order and each once.
`TextPrecedesOutcome`: at the outcome all of it was sent.

*Bounds.* Texts of up to five pieces in chunks of up to three, all of them, in
up to four frames, `task_started` included, before the flush and the outcome: a
fence with something in it and something behind
it, each cut in each place. `NoRole` nodes write text too (the supervisor).

## The evaluation harness: `Evaluation`

`run_matrix` runs each task under each variant, in a sandbox of its own. A call of
a tool is a thread of the executor. When a timeout cancels the coroutine that
awaits it, the thread goes on.

| variable | code |
|---|---|
| `pc`, `at`, `local` | where `run_pair` is, for which pair, with which locals |
| `sandbox` | `CodingTask._sandbox`, one attribute that all variants share |
| `disk`, `hidden`, `code` | directories, those with the hidden tests, how good their code is |
| `threads`, `exposed` | calls under way; sandboxes where one met the hidden tests |
| `records`, `summary` | `RunRecord`s; what was written in the end |

| action | code |
|---|---|
| `Bind`, `Setup`, `Build` | `bindings_factory`, `task.setup`, the graph builder |
| `ToolStarts`, `ToolEnds` | a call of `write_text` or `shell` begins, takes effect and ends |
| `RunReturns`, `ResumeReturns`, `RunFails` | the two awaits of `run_pair` and its handlers |
| `Verify`, `TestEnds` | both oracles: hidden tests written and run, or `escalated` compared |
| `Teardown`, `Unwind` | the `finally`, with a record or with an exception |
| `Report` | `evals/run.py` writes what `run_matrix` returned |

*Run* `eval_matrix`:

| property | says |
|---|---|
| `SandboxesAreRemoved` | a pair that ended without an error leaves no sandbox |
| `PassedIsEarned` | a coding record that passed without an error belongs to code that passes the hidden tests |
| `EscalationsAreTrue` | a record without an error says "escalated" exactly when the run halted for its user; only then it has a follow-up |
| `HiddenTestsUnseen` | no call of a pair that ended without an error met the hidden tests |

All of them speak of pairs without an error: a run that timed out may have a call
that goes on, leaves files behind, changes the code under the oracle's eyes or meets
the hidden tests. Proved besides: what is written has one record per pair, in
order, or is not written (`SummaryIsWhole`).

*Bounds.* Two variants, so that a sandbox attribute is used twice; a coding task
and a behavioural one with a follow-up; one thread, so that a call that goes on
holds up those of the next pairs.
There is at least one pair: filters that leave no task or no variant
(`evals/run.py:147`) write an empty summary, and are left out.

Deadlock is not checked in any run: a settled task, a server whose requests are
answered, a page that nobody clicks, a matrix or a stream that is over may stop.

## Where code and docs disagree

Each is a run that TLC refutes, stating what the quoted line says.

| run | the doc says | the code does |
|---|---|---|
| `task_directives` | `service.py:249`: the next developer pass reads the user's directive | a tool-using developer with a transcript never renders it |
| `task_approval` | `SECURITY.md:39`: an approval halt is resumed by `POST /tasks/{id}/resume` | the route always resumes at the reviewer; the call gets no verdict |
| `web_started` | `api.ts:80`: a dropped connection is reconnected | not before some event after `task_started` arrived: that frame carries the id, but the client skips it |
| `server_graph` | `api.py:425`: a resume uses the task's own graph | it compiles the server's default graph |

Smaller ones, met while modelling and without a run of their own:

- `service.py:41` says that LangGraph's limit never fires before the app's budgets;
  50 iterations with 16 re-plans and 8 tool rounds each pay for 934 supersteps, and
  the limit is 928: with `MaxDevRounds` 8, an oracle that fails and a supervisor that
  re-plans, TLC finds the run that ends in `RecursionError`. It is a limit for up to 49
  iterations (`ShippedLimitHolds`).
- `api.py:403` and `api.ts:152` take a 409 to a cancel for "nothing is running"; a
  task that is driven inside a request (create, resume, legacy) is running and
  answers 409.
- `service.py:231` says that a resume at the reviewer goes back to the developer;
  with the revision budget spent it ends the task as failed.
- `service.py:89` says that "running" means mid-flight; presets without a
  delivery node return as "running".
- `runs.py:95` says that a cancel emits a terminal frame; a run cancelled
  before its first step has none.
- `docs/context.md:107` promises a legal message list for any window; with
  `protect_first_n` of four or more the head may end inside a batch of results,
  since only a call at its very end is taken back.
- `engine.py:225` and `docs/context.md:314` say that a token window lands well under
  its limit, so that the next call is not compressed again (`engine.py:166`,
  `docs/context.md:251`). Nothing bounds the marker, a sentence (`engine.py:257`) or a
  summary (`summary.py:162`): with a limit of 8 and
  nothing protected, messages of 1, 6, 1 and 1 tokens become a
  summary of 15 and the last two, 17 tokens, and the next call summarises
  again. Head and newest message can exceed the limit alone too, and `target_ratio` 1.0
  leaves the marker nothing. `WindowWithRoomFits` says when the promise holds.
- `budget.py:36` speaks of a ceiling per task; every resume compiles the graph with a
  fresh tracker, so it is one per invocation, exceeded by up to one call in each
  (`SpendingIsBounded`).
- `docs/context.md:90` speaks of exactly `first + 1 + last` messages;
  realignment makes it fewer.
- `service.py:242` says that one verdict answers every pending call of a batch.
  LangGraph gives it to the first call without an answer, and re-runs the
  approved ones before it, which `_approval.py:19` does describe.
- `_approval.py:11` counts an omitted decision as an approval; the code denies it.
- `guardrail.py:80` says that nodes do not catch a trip; without approvals the
  tool node turns one at `tool_call` into a message for the model.
- `docs/v1.0-vue-ui-reconciliation.md:23` has a resume continue an
  `awaiting_user` task; the page offers it with the reviewer's frame, before the
  run has stopped (`App.tsx:218`).
- `graph.py:213` says that the approval wrapper makes its own error messages; a
  tool that raises under it takes the invocation down, with its call unanswered.
- `task.py:69` says that a behavioural task scores whether the run parked; a
  follow-up that fails overwrites `escalated` with what the task came to later
  (`runner.py:156`).
- `coding.py:47` says that the developer never sees the hidden tests; a call of a run
  that timed out goes on while they are in its sandbox.
- `runner.py:153` says that the harness records and never raises; a snapshot, an
  oracle or a closing graph that raises after a failed run ends the matrix, and its
  records are lost.
- `events.py:7` says that each event carries its role; text held back from one model
  comes out under the next one's (`events.py:214`).
- `spec.py:50` and `docs/graph-spec.md:63` say that an unknown variant raises when the
  graph is built; a verifier's variant is never looked at (`graph.py:132`).
- ADR-0008 and `spec.py:5` say that a bad spec fails at load; a router's signal without
  a branch fails the run when it comes.
- `graph.py:9` says that a node with tools gets a loop with a tool node; not without an
  edge (`graph.py:231`): its calls are never carried out.
- `task.py:53` says that teardown is always called; an error in `setup` itself
  (`runner.py:131`) leaves the directory it had made, and so would any teardown,
  since `_sandbox` is set last (`coding.py:75`).
- `docs/graph-spec.md:63` lists four roles; there are six.
- A fence that a model opens and does not close silences all later models of the
  stream, as the test of the scrubber intends for one text.

## Proofs

Every safety property of the passing runs, both refinements and nine more
properties are theorems:
proved by TLAPS for every value of the constants that the named assumptions of
the modules allow (any sets of tasks, tenants, subscribers, presets, budgets,
settings and answers; transcripts, scripts and buffers of any length), with or
without faults. Where a theorem has a hypothesis of its own, the table names it.

| module | theorem | states |
|---|---|---|
| `TaskRunProofs` | `TypeCorrect` | `TypeOK` |
| | `DeliveryIsJudged` | `OnlyJudgedCodeIsDelivered` |
| | `BudgetsHold` | `BudgetsRespected` |
| | `SupervisorIsPaced` | `SupervisorPaced` |
| | `LimitNeverFires` | no run ends by the recursion limit, if `EnoughSupersteps` |
| | `ShippedLimitHolds` | nor with the shipped limit and up to 10 revisions and 49 iterations |
| | `DeveloperIsTold` | `DeveloperIsNeverBlind`, for any client |
| | `TranscriptsStayWhole` | `ToolCallsAnswered`, if `DocumentedClient` |
| | `ReturnsAreSettled` | `ReturnedRunIsSettled`, if `SensibleClient` and `NoBlankText` |
| | `RunIsALifecycle` | `ImplementsLifecycle`, if `DocumentedClient` and `NoBlankText` |
| `RunManagerProofs` | `ManagerIsAnEventLog` | `ImplementsEventLog` |
| | `TypeCorrect`, `ReplayIsComplete`, `CancelIsAnnounced` | the three invariants of `run_streams` |
| | `StreamsAreOrdered`, `StreamsEndWithTheRun`, `EvictionSparesLiveRuns` | `FramesInOrder`, `StreamEndsWithTerminalFrame`, `LiveRunsAreKept` |
| `ServerProofs` | `TypeCorrect`, `PoolOpensOnce`, `TenantsAreIsolated`, `RunsStayListed`, `TasksStayFound` | the five invariants of `server_tasks` |
| `ContextWindowProofs` | `WindowFits` | a window of any transcript with a marker of any size keeps a limit in messages, and exceeds one in tokens only as `PromptFitsWindow` says |
| | `WindowWithRoomFits` | where the ratio leaves the marker room, and the head leaves it and the newest message room, the window keeps its limit and is not compressed again |
| | `WindowIsLegal` | a window of any legal transcript is legal |
| `AgentLoopProofs` | `TypeCorrect`, `PromptsStaySound`, `PoisonIsHeldBack`, `SpendingHasACeiling`, `ToolsActWithLeave` | the five invariants of `agent_turns` |
| | `PromptsStayLegal` | `PromptsAreLegal` |
| | `PromptsFit`, `ResultsAreSeen`, `RetriesAreBounded` | `PromptFitsWindow`, `ResultsReachModel`, `StructuredRetriesAreBounded` |
| | `DroppedIsFetchable` | its action property `DroppedResultsAreSpilled` |
| `WebClientProofs` | `TypeCorrect`, `FramesAreAppliedOnce`, `ReturnedStreamHasOutcome`, `LiveIsStreaming` | four invariants of `web_flows` |
| | `CompletedIsSo` | `CompletedIsTrue` |
| `EvaluationProofs` | `TypeCorrect`, `RecordsTellOfParking`, `NoSandboxIsLeft`, `HiddenTestsStayHidden`, `PassedWasEarned` | the five invariants of `eval_matrix` |
| | `ReportIsWhole` | `SummaryIsWhole` |
| `EventStreamProofs` | `StreamTyped`, `RedactionShown`, `TextFirst` | the three invariants of `events_text` |

The argument is the same everywhere: a strengthening that holds initially, that
every action keeps (one step of the proof per action) and that implies what is
to be shown. Few of the properties are inductive by themselves. TLC checked the
stronger ones on the runs' instances before they were proved.

**Task runs.** Each role maps a task state to a task state (`FieldType` and the
lemmas after it), and `After` leads to a node of the preset's graph or to the
end.

*Types.* `TypeOK` alone is not inductive: in a preset without tools, a
transcript whose newest message calls tools would send the developer's edge to
a node that the graph lacks. `TypeInv` adds `ToollessTranscript`: such a preset's
transcript stays empty.

*Delivery.* The router sends a run to delivery on an approval or a pass, and
the update of the same step stamped it with the current code; only the
developer makes a new version, and after it comes never the delivery node. The
proof goes by the node that ran. `resume` needs care: it rewrites the review,
then takes the node's own edge, which for a reviewer or a planner is never
delivery.

*Budgets.* `BudgetInv` strengthens the budgets with `RoundsLeft`: where a round
is about to be run, there is one left. A loop's router checks its counter
*before* the pass that increments it, so the bound is a fact about the position
in the graph, and an answer of the user puts the run back to a position with
one directive more. `SupervisorDue` does the same for the supervisor: at it,
one consultation is due.

*Supersteps.* `Left` is a potential: the supersteps that a run about to execute a node
may still take. It adds what is left of the developer's pass and its checks, a whole
pass for each return that the budgets still allow (`Returns`), two supersteps for each
detour (`DetoursLeft`) and the delivery. Every superstep spends one of it: a failed
oracle run or a review that leads back to the developer pays a pass out of the budget
it has just used (`FailurePays`, `ReviewPays`), every third failure a detour besides. So
`StepsPaid`, steps taken and potential together within `Supersteps`, is kept by each
superstep, and a resume starts a new invocation at a node that `Supersteps` pays for
(`StartPays`). Two facts are needed besides: a task with an oracle is never reviewed
(`OracleDecides`), and a call awaits its answer only before the tool node
(`CallIsPending`). Since a node that is still to run has a potential of at least one,
a limit that pays for every request is never the one that ends a run
(`LimitNeverFires`); its hypothesis holds for the constants of `task_documented`, and
with those the code ships for up to 49 iterations.

*What the developer knows.* A failed check is pushed into a transcript by the
role that found it, and a transcript is opened by the developer from the state.
So `Told` says of an open transcript that it holds everything the developer must
be told, and `DeveloperCameFirst` that nothing is judged before there is one.

*Clients.* `ClientInv` adds, for a client that answers only what awaits its
user: a gate is open only at the tool node (`GateInv`), pending calls are
followed by the tool node (`CallsInv`), and a task at work has a node to run
whose status is "running" (`GoingInv`). A client that resumes elsewhere breaks
each of them, which is `task_approval`. `SettledInv` follows the position
instead: at the end of a preset that delivers, the status is final (`EndInv`).

*Lifecycle.* With both invariants each action is matched to an action of
`TaskLifecycle`: a node that ends or halts the work is `Conclude`, one that does
not is a stutter, `Raise` and `RecursionError` are `BreakOff`, an answer is
`Answer`.

**Run manager.** `ManagerInv` has for each run that its buffer is consecutive
from `base_seq` and that a finished one ends with its terminal frame, and for
each subscriber that the frames it copied are consecutive, end before its index,
and that the next one it will send skips nothing still kept (`Follows`). The
copied slice outlives the buffer it was taken from, so this is stated of the
frames in hand and survives every trim (`Evolves...`). The refinement maps each
step to a step of `EventLog` or to a stutter.

**Server.** A handler is a list of awaits, so an invariant has to say what it has
established by each of them: `Reached` (the tenant's database is open, the row
is written, ...), next to `Onward` (what it has left is the end of its list). Lock
and pool go together (`LockInv`): whoever is between the look and the opening
holds the lock, and no entry of its tenant is there. `ThreadsInv` says who may
have written a checkpoint.

**Context windows.** Sums over transcripts are recursive functions. The
induction theorems of the library take an operator, which the provers cannot
instantiate, so the facts about sums are proved by a least counterexample
(`LeastNat`). The marker is any message of any size, so nothing rests on
how long a summary is: `WindowFits` splits on whether the tail is the newest message,
taken at any size, or was collected within `target_ratio` of what the head leaves (`Share`).
`WindowIsLegal` follows how realignment moves both cuts to the
border of a batch.

**Developer's loop.** `TranscriptInv`: each batch of the transcript is answered
call by call, is pending at the end, or was passed over by a tool node that
raised, and a profile's batches stay together; with `WindowIsLegal` this gives
legal prompts. `SpendInv`: the invocation under way is under its ceilings up to one
call, and each earlier one cost at most that. `PermitInv`: what the wrapper
showed to the user is what was allowed to act. `BlockInv`: a result that trips
the guardrail is among the newest ones, which are scanned before they are sent.

**Web client.** `TypeInv` ties flows to the server's frames: no stream is at a
frame its run has not sent. `ControlInv` says who is under way and who is aborted
by the next click. For `CompletedIsTrue`, `Calm` collects all that may be old:
as long as no click overlapped another and no answer overtook its run, nothing
in the store, in the cache, in an answer under way or on the wire says
"completed" of a task that is not, and a question the page shows is still asked.

**Evaluation.** Everything is said of records, but what makes it true was done to
a sandbox long before. `SandboxInv`: a task's attribute names the pair at hand or
nothing. `OrderInv`: the records are those of the pairs before `at`. With it, a pair
is `Known` (recorded), under way, or to come, and `CustodyInv` says what each may
have: a recorded pair without an error has no call under way, since a graph that
returns has awaited its calls, so nobody touches its directory any more; `Doomed`
is the pair at hand once its run broke off. `LocalInv` ties the locals of
`run_pair` to the step it is at, `VerdictInv` a recorded pass to the code.

**Event stream.** Whether a piece is shown depends on a tag that may have come any number
of chunks ago. `Within` says of each prefix of the text that a fence is open after it,
`HeldAfter` what the scrubber must be holding, `Released` what it must have let out; each
grows by one piece the way the scrubber's `step` does (`WithinStep`, `ReleasedGrows`,
`StepReads`). A chunk is a fold of `step`, so that the state after it is the one these
three give is shown by a least counterexample over its pieces (`FeedReads`), as
sums are above. The invariant then says that the scrubber has read the text so far
(`Scrubbed`), that frames come in order, and what holds once the stream was flushed
(`Told`). `RedactedIs` closes the gap to the property: the text without its fences is
what was released, but for a half that is held back at the end.

**Only model-checked.** Liveness (`EveryTaskConcludes`, `StreamsEnd`,
`ClientComesToRest`, `RequestsEnd`, `InvocationsEnd`): TLAPS has no
support for liveness under fairness or for `ENABLED`. The violations are TLC's too,
and that the bound on supersteps is reached.

## Not modelled

`PROJECT.json` gives the reason for each part.

- *External, modelled from their use:* LangGraph's superstep loop, checkpointer
  and interrupts, the asyncio event loop, SSE, React's scheduling, the snapshot
  query's cache, and the memory package, whose sources are not in the repository.
- *Two invocations on one checkpoint thread at a time.* `Server` shows that
  they can happen (nothing in `resume` looks whether the task is driven); their
  outcome is decided inside LangGraph.
- *Pure functions that no running task meets:* parsing of configuration, the table
  of context windows by model name, the validation of a user's own graph
  (`spec.py`); the shipped presets are modelled as they load.
- *I/O and formatting:* CLI, logging, tracing, previews in event frames, file,
  shell and MCP tools, the hashes and previews of spilled results, prompt wording,
  the tables and token sums of the evaluation, the server-rendered pages, what the
  web page draws.

## Plan

Modelled: every component but those above. Proved: every safety property that a run
checks. What is left:

1. Graphs of a user's own: that what `build_uncompiled_from_spec` makes of any valid
   specification walks along its edges, with the tool loops in between.
2. A question asked in the last revision round (`routers.py:43`): a property that
   says what an answer may come to, next to `TaskLifecycle`.
3. Two invocations on one checkpoint thread: it needs LangGraph's checkpointing.
