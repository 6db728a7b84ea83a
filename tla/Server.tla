------------------------------- MODULE Server -------------------------------
(***************************************************************************)
(* The HTTP server around the service: agent_room/server/api.py, the       *)
(* legacy session routes of compat_v1.py, the session rows of sessions.py, *)
(* the per-tenant databases of tenancy.py and the restart of the process.  *)
(*                                                                         *)
(* A handler is a sequence of steps, one per await: between two of them    *)
(* other handlers run, a step may raise, and the process may restart, which*)
(* leaves only what is in the databases.  What happens inside a run is     *)
(* TaskRun's, its frames are RunManager's; here a run is somebody driving  *)
(* a checkpoint thread.  A request that is rejected before its first await *)
(* (input guardrail, graph allowlist, blank names) changes nothing and is  *)
(* left out; so are the read-only listings.                                *)
(***************************************************************************)
EXTENDS Naturals, Sequences, FiniteSets

CONSTANTS
  Tenants,       \* tenant ids
  Default,       \* DEFAULT_TENANT_ID
  Tasks,         \* task ids, drawn fresh by new_task_id
  Sessions,      \* ids of sessions made by the legacy route
  Graphs,        \* USER_SELECTABLE_GRAPHS
  DefaultGraph,  \* settings.graph_preset
  None,          \* no tenant, task, session or graph
  MaxRequests,   \* bound: HTTP requests, one handler call each
  MaxFaults      \* bound: steps that raise, and restarts

\* The handlers whose task is new.
Makers == {"create", "stream", "session_task"}

ASSUME ServerAssumption ==
  /\ Default \in Tenants
  /\ DefaultGraph \in Graphs
  /\ Tasks \cap Sessions = {}
  /\ None \notin Tenants \cup Tasks \cup Sessions \cup Graphs \cup Makers
  /\ MaxRequests \in Nat /\ MaxFaults \in Nat

VARIABLES
  rows,       \* agent_room_sessions: the tenant of each session id
  links,      \* agent_room_session_tasks
  db,         \* per tenant, the graph each checkpoint thread was last written by
  pool,       \* TenantCheckpointerPool: _entries, connections open, _lock's holder
  background, \* the run manager's runs: who drives in the background
  req,        \* the handler calls, in the order the requests arrive
  made,       \* who asked for each task, and how
  deleted,    \* tasks that a deleted session held
  faults

vars == <<rows, links, db, pool, background, req, made, deleted, faults>>

Requests == 1..Len(req)

Ids == Tasks \cup Sessions

\* A handler's awaits, in order.
Handlers_start_first ==
  [create |-> <<"record", "find", "link", "open", "run", "drive">>,
   stream |-> <<"open", "start", "record", "find", "link">>,
   events |-> <<"check", "has">>,
   cancel |-> <<"check", "cancel">>,
   get |-> <<"check", "open", "snapshot", "known">>,
   resume |-> <<"check", "open", "resume", "drive">>,
   session_create |-> <<"record">>,
   session_delete |-> <<"delete">>,
   session_task |-> <<"exists", "find", "link", "run", "drive">>,
   session_resume |-> <<"exists", "resume", "drive">>]

Handlers ==
  [create |-> <<"record", "find", "link", "open", "run", "drive">>,
   stream |-> <<"open", "record", "find", "link", "start">>,
   events |-> <<"check", "has">>,
   cancel |-> <<"check", "cancel">>,
   get |-> <<"check", "open", "snapshot", "known">>,
   resume |-> <<"check", "open", "resume", "drive">>,
   session_create |-> <<"record">>,
   session_delete |-> <<"delete">>,
   session_task |-> <<"exists", "find", "link", "run", "drive">>,
   session_resume |-> <<"exists", "resume", "drive">>]

Kinds == DOMAIN Handlers

Steps == {"record", "find", "link", "open", "waiting", "opening", "run", "start", "drive",
          "check", "has", "cancel", "snapshot", "known", "resume", "delete", "exists"}

\* `session` is the id the request names or, for a new task, the task's own.
Calls ==
  [kind : Kinds, todo : Seq(Steps), tenant : Tenants, task : Tasks \cup {None},
   session : Ids \cup {None}, graph : Graphs, answer : {0, 200, 404, 409, 500}]

TypeOK ==
  /\ rows \in [Ids -> Tenants \cup {None}]
  /\ links \subseteq { l \in Ids \X Tasks : rows[l[1]] # None }
  /\ db \in [Tenants -> [Tasks -> Graphs \cup {None}]]
  /\ pool \in [entries : SUBSET Tenants, open : [Tenants -> Nat], lock : 0..Len(req)]
  /\ background \in [Tasks -> {"none", "live", "done"}]
  /\ req \in Seq(Calls) /\ Len(req) <= MaxRequests
  /\ made \in [Tasks -> [by : Makers \cup {None}, tenant : Tenants, graph : Graphs]]
  /\ deleted \subseteq Tasks
  /\ faults \in 0..MaxFaults

\* The lifespan opens the default tenant's database and compiles the shared service.
Booted == [entries |-> {Default}, open |-> [n \in Tenants |-> IF n = Default THEN 1 ELSE 0],
           lock |-> 0]

Init ==
  /\ rows = [i \in Ids |-> None]
  /\ links = {}
  /\ db = [n \in Tenants |-> [t \in Tasks |-> None]]
  /\ pool = Booted
  /\ background = [t \in Tasks |-> "none"]
  /\ req = <<>>
  /\ made = [t \in Tasks |-> [by |-> None, tenant |-> Default, graph |-> DefaultGraph]]
  /\ deleted = {}
  /\ faults = 0

-----------------------------------------------------------------------------
(***************************************************************************)
(* Requests.                                                               *)
(***************************************************************************)

At(r, step) == req[r].todo # <<>> /\ Head(req[r].todo) = step

Answered(r, code) == [req EXCEPT ![r] = [@ EXCEPT !.todo = <<>>, !.answer = code,
                                                  !.graph = DefaultGraph]]

\* The next await, or the response after the last one.
Moved(r) == IF Len(req[r].todo) = 1 THEN Answered(r, 200)
            ELSE [req EXCEPT ![r].todo = Tail(@)]

Became(r, step) == [req EXCEPT ![r].todo = [@ EXCEPT ![1] = step]]

Known(t) == rows[t] # None \/ \E n \in Tenants : db[n][t] # None

Call(kind, n, t, s, g) ==
  req' = Append(req, [kind |-> kind, todo |-> Handlers[kind], tenant |-> n, task |-> t,
                      session |-> s, graph |-> g, answer |-> 0])

Send == Len(req) < MaxRequests /\ UNCHANGED <<rows, links, db, pool, background, deleted, faults>>

\* A new task, under a fresh id; the legacy route knows neither tenants nor graphs.
SendNew ==
  /\ Send
  /\ \E t \in Tasks : made[t].by = None
  /\ LET t == CHOOSE u \in Tasks : made[u].by = None IN
       \/ \E kind \in {"create", "stream"}, n \in Tenants, g \in Graphs :
            /\ Call(kind, n, t, t, g)
            /\ made' = [made EXCEPT ![t] = [by |-> kind, tenant |-> n, graph |-> g]]
       \/ \E s \in Ids :
            /\ rows[s] # None
            /\ Call("session_task", Default, t, s, DefaultGraph)
            /\ made' = [made EXCEPT ![t] = [by |-> "session_task", tenant |-> Default,
                                             graph |-> DefaultGraph]]

\* A client names ids that a response or a listing showed it, and any tenant.
SendKnown ==
  /\ Send
  /\ UNCHANGED made
  /\ \/ \E kind \in {"events", "cancel", "get", "resume"}, n \in Tenants, t \in Tasks :
          Known(t) /\ Call(kind, n, t, None, DefaultGraph)
     \/ \E s \in Ids, t \in Tasks :
          rows[s] # None /\ Known(t) /\ Call("session_resume", Default, t, s, DefaultGraph)
     \/ \E s \in Sessions :
          /\ \A q \in Requests : ~(req[q].kind = "session_create" /\ req[q].session = s)
          /\ Call("session_create", Default, None, s, DefaultGraph)
     \/ \E s \in Ids :
          rows[s] # None /\ Call("session_delete", Default, None, s, DefaultGraph)

-----------------------------------------------------------------------------
(***************************************************************************)
(* SessionStore.                                                           *)
(***************************************************************************)

record(r) ==
  /\ At(r, "record")
  /\ rows' = [rows EXCEPT ![req[r].session] = req[r].tenant]
  /\ req' = Moved(r)
  /\ UNCHANGED <<links, db, pool, background, made, deleted, faults>>

\* attach_task's SELECT: without a row it returns False, which no route looks at.
find(r) ==
  /\ At(r, "find")
  /\ req' = IF rows[req[r].session] # None THEN Moved(r)
            ELSE [req EXCEPT ![r].todo = Tail(Tail(@))]
  /\ UNCHANGED <<rows, links, db, pool, background, made, deleted, faults>>

\* attach_task's INSERT: the foreign key fails when the row is gone by now.
link(r) ==
  /\ At(r, "link")
  /\ IF rows[req[r].session] # None
     THEN links' = links \cup {<<req[r].session, req[r].task>>} /\ req' = Moved(r)
     ELSE UNCHANGED links /\ req' = Answered(r, 500)
  /\ UNCHANGED <<rows, db, pool, background, made, deleted, faults>>

\* The foreign key does not cascade.
cascade_not(s) == links

\* The foreign key of the links, ON DELETE CASCADE.
cascade(s) == { l \in links : l[1] # s }

\* The row's links go with it; the checkpoints stay.
delete(r) ==
  LET s == req[r].session IN
  /\ At(r, "delete")
  /\ req' = IF rows[s] = None THEN Answered(r, 404) ELSE Moved(r)
  /\ rows' = [rows EXCEPT ![s] = None]
  /\ links' = cascade(s)
  /\ deleted' = deleted \cup { t \in Tasks : t = s \/ <<s, t>> \in links
                                 \/ \E q \in Requests : /\ req[q].kind \in Makers
                                                        /\ req[q].session = s /\ req[q].task = t }
  /\ UNCHANGED <<db, pool, background, made, faults>>

exists(r) ==
  /\ At(r, "exists")
  /\ req' = IF rows[req[r].session] # None THEN Moved(r) ELSE Answered(r, 404)
  /\ UNCHANGED <<rows, links, db, pool, background, made, deleted, faults>>

\* The check passes any tenant.
check_exists_only(r) ==
  /\ At(r, "check")
  /\ req' = Moved(r)
  /\ UNCHANGED <<rows, links, db, pool, background, made, deleted, faults>>

\* _check_tenant_owns_task: a task without a row of its own belongs to everyone.
check(r) ==
  /\ At(r, "check")
  /\ req' = IF rows[req[r].task] \in {None, req[r].tenant} THEN Moved(r) ELSE Answered(r, 404)
  /\ UNCHANGED <<rows, links, db, pool, background, made, deleted, faults>>

-----------------------------------------------------------------------------
(***************************************************************************)
(* TenantCheckpointerPool.get.                                             *)
(***************************************************************************)

PoolOnly == UNCHANGED <<rows, links, db, background, made, deleted, faults>>

open(r) ==
  /\ At(r, "open")
  /\ IF req[r].tenant \in pool.entries THEN req' = Moved(r) /\ UNCHANGED pool
     ELSE IF pool.lock = 0 THEN req' = Became(r, "opening") /\ pool' = [pool EXCEPT !.lock = r]
     ELSE req' = Became(r, "waiting") /\ UNCHANGED pool
  /\ PoolOnly

\* The lock's next holder opens a database, whatever was opened meanwhile.
waited_unchecked(r) ==
  /\ At(r, "waiting")
  /\ pool.lock = 0
  /\ req' = Became(r, "opening")
  /\ pool' = [pool EXCEPT !.lock = r]
  /\ PoolOnly

waited(r) ==
  /\ At(r, "waiting")
  /\ pool.lock = 0
  /\ IF req[r].tenant \in pool.entries THEN req' = Moved(r) /\ UNCHANGED pool
     ELSE req' = Became(r, "opening") /\ pool' = [pool EXCEPT !.lock = r]
  /\ PoolOnly

\* open_checkpointer: a connection more, whatever is open already.
opened(n) == [pool.open EXCEPT ![n] = @ + 1]

opening(r) ==
  /\ At(r, "opening")
  /\ pool' = [entries |-> pool.entries \cup {req[r].tenant},
              open |-> opened(req[r].tenant),
              lock |-> 0]
  /\ req' = Moved(r)
  /\ PoolOnly

-----------------------------------------------------------------------------
(***************************************************************************)
(* Runs.                                                                   *)
(***************************************************************************)

\* The requests and background runs that drive a task's thread.
Drivers(t) == { r \in Requests : req[r].task = t /\ At(r, "drive") }

Driven(t) == background[t] = "live" \/ Drivers(t) # {}

Written(r) == [db EXCEPT ![req[r].tenant][req[r].task] = req[r].graph]

\* service.run and service.resume write the thread and drive it inside the request.
run(r) ==
  /\ At(r, "run") \/ At(r, "resume")
  /\ db' = Written(r)
  /\ req' = Moved(r)
  /\ UNCHANGED <<rows, links, pool, background, made, deleted, faults>>

drive(r) ==
  /\ At(r, "drive")
  /\ req' = Moved(r)
  /\ UNCHANGED <<rows, links, db, pool, background, made, deleted, faults>>

\* stream_task hands the run to the run manager and answers at once.
start(r) ==
  /\ At(r, "start")
  /\ db' = Written(r)
  /\ background' = [background EXCEPT ![req[r].task] = "live"]
  /\ req' = Moved(r)
  /\ UNCHANGED <<rows, links, pool, made, deleted, faults>>

BackgroundEnds(t) ==
  /\ background[t] = "live"
  /\ background' = [background EXCEPT ![t] = "done"]
  /\ UNCHANGED <<rows, links, db, pool, req, made, deleted, faults>>

\* A finished run may have been evicted.
has(r) ==
  /\ At(r, "has")
  /\ \E code \in {200, 409} :
       /\ background[req[r].task] = "live" => code = 200
       /\ background[req[r].task] = "none" => code = 409
       /\ req' = Answered(r, code)
  /\ UNCHANGED <<rows, links, db, pool, background, made, deleted, faults>>

cancel(r) ==
  /\ At(r, "cancel")
  /\ IF background[req[r].task] = "live"
     THEN background' = [background EXCEPT ![req[r].task] = "done"] /\ req' = Answered(r, 200)
     ELSE UNCHANGED background /\ req' = Answered(r, 409)
  /\ UNCHANGED <<rows, links, db, pool, made, deleted, faults>>

\* A thread whose first node has not ended has an empty snapshot too.
snapshot(r) ==
  /\ At(r, "snapshot")
  /\ \/ db[req[r].tenant][req[r].task] # None /\ req' = Answered(r, 200)
     \/ req' = Moved(r)
  /\ UNCHANGED <<rows, links, db, pool, background, made, deleted, faults>>

\* An empty snapshot is a 404, whether or not the task has a row.
known_by_snapshot(r) ==
  /\ At(r, "known")
  /\ req' = Answered(r, 404)
  /\ UNCHANGED <<rows, links, db, pool, background, made, deleted, faults>>

known(r) ==
  /\ At(r, "known")
  /\ req' = Answered(r, IF rows[req[r].task] = None THEN 404 ELSE 200)
  /\ UNCHANGED <<rows, links, db, pool, background, made, deleted, faults>>

-----------------------------------------------------------------------------
(***************************************************************************)
(* Faults.                                                                 *)
(***************************************************************************)

\* The opening that raised leaves the lock taken.
Raises_locked(r) ==
  /\ faults < MaxFaults
  /\ req[r].todo # <<>>
  /\ req' = Answered(r, 500)
  /\ faults' = faults + 1
  /\ UNCHANGED <<rows, links, db, pool, background, made, deleted>>

\* A step raises: a database is locked, a model call fails.  `async with` frees the lock.
Raises(r) ==
  /\ faults < MaxFaults
  /\ req[r].todo # <<>>
  /\ req' = Answered(r, 500)
  /\ pool' = [pool EXCEPT !.lock = IF @ = r THEN 0 ELSE @]
  /\ faults' = faults + 1
  /\ UNCHANGED <<rows, links, db, background, made, deleted>>

\* The process ends, at any point, and is started again.
Restart ==
  /\ faults < MaxFaults
  /\ req' = [r \in Requests |-> IF req[r].todo = <<>> THEN req[r] ELSE Answered(r, 500)[r]]
  /\ pool' = Booted
  /\ background' = [t \in Tasks |-> "none"]
  /\ faults' = faults + 1
  /\ UNCHANGED <<rows, links, db, made, deleted>>

-----------------------------------------------------------------------------

Serve(r) ==
  \/ record(r) \/ find(r) \/ link(r) \/ delete(r) \/ exists(r) \/ check(r)
  \/ open(r) \/ waited(r) \/ opening(r)
  \/ run(r) \/ drive(r) \/ start(r) \/ has(r) \/ cancel(r) \/ snapshot(r) \/ known(r)

Next ==
  \/ SendNew \/ SendKnown
  \/ \E r \in Requests : Serve(r) \/ Raises(r)
  \/ \E t \in Tasks : BackgroundEnds(t)
  \/ Restart

Spec == Init /\ [][Next]_vars

\* The event loop runs what is ready, databases answer and runs end.
FairSpec == Spec /\ \A r \in 1..MaxRequests : WF_vars(r \in Requests /\ Serve(r))

-----------------------------------------------------------------------------
(***************************************************************************)
(* Properties.                                                             *)
(***************************************************************************)

\* A tenant's database is opened once, however many first requests race for it
\* (tenancy.py:94), and what is open is what the pool will hand out and close.
OneConnectionPerTenant ==
  \A n \in Tenants : pool.open[n] = IF n \in pool.entries THEN 1 ELSE 0

\* A task's checkpoints are in the database of the tenant that asked for it and in
\* no other, whatever tenant later requests name, as long as its row exists and no
\* legacy route touches it.
TenantsStayApart ==
  \A t \in Tasks, n \in Tenants :
    db[n][t] # None /\ n # made[t].tenant =>
      \/ t \in deleted
      \/ made[t].by = "session_task"
      \/ n = Default /\ \E r \in Requests : req[r].kind = "session_resume" /\ req[r].task = t

\* Every run can be found from the list of sessions, also after a crash between any
\* two steps, unless the session it belongs to was deleted.
RunsAreListed ==
  \A t \in Tasks : (\E n \in Tenants : db[n][t] # None) =>
    t \in deleted \/ rows[t] # None \/ \E s \in Ids : <<s, t>> \in links

\* get_task never denies a task of the tenant that asks, not before its first
\* checkpoint and not after a crash: only the legacy route makes tasks without a row.
TasksAreFound ==
  \A r \in Requests :
    LET t == req[r].task IN
    req[r].kind = "get" /\ req[r].answer = 404 =>
      req[r].tenant # made[t].tenant \/ t \in deleted \/ made[t].by = "session_task"

\* Every request is answered: no handler is left waiting for the pool's lock.
RequestsEnd == <>[](\A r \in Requests : req[r].todo = <<>>)

(***************************************************************************)
(* Statements of the docs that the code does not keep.                     *)
(***************************************************************************)

\* api.py:425: POST /tasks/{id}/resume uses the task's own graph.
ResumesItsOwnGraph ==
  \A t \in Tasks, n \in Tenants :
    db[n][t] # None /\ n = made[t].tenant =>
      db[n][t] = made[t].graph \/ \E r \in Requests : req[r].kind = "session_resume"
=============================================================================
