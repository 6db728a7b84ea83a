----------------------------- MODULE RunManager -----------------------------
(***************************************************************************)
(* agent_room/server/runs.py: a task's run is detached from the request    *)
(* that started it.  A background task drives the producer and appends     *)
(* numbered frames to a bounded buffer; subscribers replay from a frame    *)
(* number and then follow; a cancel stops the run and waits for it.        *)
(*                                                                         *)
(* Everything runs on one event loop.  No code holds a run's lock across a *)
(* suspension, so each critical section, and all that follows it up to the *)
(* next await that really suspends, is one step here.  A subscriber        *)
(* suspends at each frame it yields, a canceller while it waits for the    *)
(* background task, the background task inside the producer.               *)
(***************************************************************************)
EXTENDS Integers, Sequences, FiniteSets, SequencesExt

CONSTANTS
  Tasks,        \* task ids
  Subscribers,  \* SSE responses, one subscription each
  Cancellers,   \* POST /tasks/{id}/cancel requests, one call each
  MaxBuffer,    \* max_buffer
  KeepDone,     \* keep_done
  MaxFrames     \* bound: frames a producer yields before its last

ASSUME ManagerAssumption ==
  /\ MaxBuffer \in Nat \ {0}
  /\ KeepDone \in Nat
  /\ MaxFrames \in Nat \ {0}

VARIABLES
  runs,       \* the keys of _runs
  order,      \* the runs in starting order; _order is what of it is still in `runs`
  run,        \* the _Run objects; subscribers keep theirs after an eviction
  sub,        \* the subscribe() generators
  canceller,  \* the cancel() calls
  down        \* aclose() was called

vars == <<runs, order, run, sub, canceller, down>>

\* task_finished and task_error close a stream; any other frame is a "frame".
Terminal == {"finished", "error"}

Frames == [id : Nat, kind : {"frame"} \cup Terminal]

\* `drive` is the state of the asyncio task, `cancelled` its pending cancellation.
Runs == [events : Seq(Frames), base_seq : Nat, done : BOOLEAN,
         drive : {"none", "created", "running", "ended"}, cancelled : BOOLEAN]

\* `got` is what the response has sent, `last` the Last-Event-ID it was asked for.
Subscriptions ==
  [phase : {"idle", "attached", "reading", "yielding", "ended", "gone", "dropped"},
   task : Tasks, last : Nat \cup {-1}, idx : Nat, frames : Seq(Frames),
   done : BOOLEAN, got : Seq(Frames)]

Cancellations == [phase : {"idle", "waiting", "true", "false"}, task : Tasks]

TypeOK ==
  /\ runs \in SUBSET Tasks
  /\ order \in Seq(Tasks)
  /\ run \in [Tasks -> Runs]
  /\ sub \in [Subscribers -> Subscriptions]
  /\ canceller \in [Cancellers -> Cancellations]
  /\ down \in BOOLEAN

Init ==
  /\ runs = {}
  /\ order = <<>>
  /\ run = [t \in Tasks |-> [events |-> <<>>, base_seq |-> 0, done |-> FALSE,
                             drive |-> "none", cancelled |-> FALSE]]
  /\ \E t \in Tasks :
       /\ sub = [x \in Subscribers |->
                  [phase |-> "idle", task |-> t, last |-> -1, idx |-> 0,
                   frames |-> <<>>, done |-> FALSE, got |-> <<>>]]
       /\ canceller = [c \in Cancellers |-> [phase |-> "idle", task |-> t]]
  /\ down = FALSE

-----------------------------------------------------------------------------
(***************************************************************************)
(* The buffer.                                                             *)
(***************************************************************************)

\* The number of the newest frame, not of the one to come.
EndSeq_last(r) == r.base_seq + Len(r.events) - 1

EndSeq(r) == r.base_seq + Len(r.events)

append(r, kind) ==
  LET events == Append(r.events, [id |-> EndSeq(r), kind |-> kind])
      drop == IF Len(events) > MaxBuffer THEN Len(events) - MaxBuffer ELSE 0
  IN  [r EXCEPT !.events = SubSeq(events, drop + 1, Len(events)),
                !.base_seq = @ + drop]

\* A subscriber that fell behind the buffer's start replays from its index
\* into the buffer all the same.
unread_clamped(r, idx) ==
  SubSeq(r.events, (IF idx > Len(r.events) THEN Len(r.events) ELSE idx) + 1, Len(r.events))

unread(r, idx) ==
  IF idx >= r.base_seq
  THEN SubSeq(r.events, idx - r.base_seq + 1, Len(r.events))
  ELSE r.events

\* The places in `order` of the finished runs that are still kept.
done_ids == {i \in DOMAIN order : order[i] \in runs /\ run[order[i]].done}

\* The oldest finished runs beyond keep_done: those with keep_done newer ones.
victims ==
  {order[i] : i \in {j \in done_ids : Cardinality({k \in done_ids : k > j}) >= KeepDone}}

-----------------------------------------------------------------------------
(***************************************************************************)
(* start and the background task.                                          *)
(***************************************************************************)

start(t) ==
  /\ ~down
  /\ run[t].drive = "none"
  /\ runs' = (runs \ victims) \cup {t}
  /\ order' = Append(order, t)
  /\ run' = [run EXCEPT ![t].drive = "created"]
  /\ UNCHANGED <<sub, canceller, down>>

\* The first step runs to the producer's first suspension: task_started is out.
DriveBegins(t) ==
  /\ run[t].drive = "created"
  /\ ~run[t].cancelled
  /\ run' = [run EXCEPT ![t] = append([@ EXCEPT !.drive = "running"], "frame")]
  /\ UNCHANGED <<runs, order, sub, canceller, down>>

\* A coroutine cancelled before its first step never runs any of its code.
DriveNeverBegins(t) ==
  /\ run[t].drive = "created"
  /\ run[t].cancelled
  /\ run' = [run EXCEPT ![t].drive = "ended"]
  /\ UNCHANGED <<runs, order, sub, canceller, down>>

DriveAppends(t) ==
  /\ run[t].drive = "running"
  /\ ~run[t].cancelled
  /\ EndSeq(run[t]) < MaxFrames
  /\ run' = [run EXCEPT ![t] = append(@, "frame")]
  /\ UNCHANGED <<runs, order, sub, canceller, down>>

\* The cancellation is re-raised: no terminal frame, and nobody is told.
DriveEnds_reraised(t) ==
  /\ run[t].drive = "running"
  /\ \E kind \in Terminal :
       /\ run[t].cancelled => kind = "error"
       /\ run' = [run EXCEPT ![t] = IF @.cancelled
                                   THEN [@ EXCEPT !.drive = "ended"]
                                   ELSE [append(@, kind) EXCEPT !.done = TRUE,
                                                                !.drive = "ended"]]
  /\ UNCHANGED <<runs, order, sub, canceller, down>>

\* The producer returns (its last frame is task_finished) or raises, or the
\* cancellation reaches it; the terminal frame and `done` come in one step.
DriveEnds(t) ==
  /\ run[t].drive = "running"
  /\ \E kind \in Terminal :
       /\ run[t].cancelled => kind = "error"
       /\ run' = [run EXCEPT ![t] = [append(@, kind) EXCEPT !.done = TRUE,
                                                            !.drive = "ended"]]
  /\ UNCHANGED <<runs, order, sub, canceller, down>>

-----------------------------------------------------------------------------
(***************************************************************************)
(* cancel and aclose.                                                      *)
(***************************************************************************)

\* cancel() up to the point where it waits for the background task.
cancel(c, t) ==
  /\ canceller[c].phase = "idle"
  /\ \/ /\ t \notin runs \/ run[t].done
        /\ canceller' = [canceller EXCEPT ![c] = [phase |-> "false", task |-> t]]
        /\ UNCHANGED run
     \/ /\ t \in runs
        /\ ~run[t].done
        /\ run[t].drive \in {"created", "running"}
        /\ run' = [run EXCEPT ![t].cancelled = TRUE]
        /\ canceller' = [canceller EXCEPT ![c] = [phase |-> "waiting", task |-> t]]
     \/ /\ t \in runs
        /\ ~run[t].done
        /\ run[t].drive = "ended"
        /\ canceller' = [canceller EXCEPT ![c] = [phase |-> "true", task |-> t]]
        /\ UNCHANGED run
  /\ UNCHANGED <<runs, order, sub, down>>

\* cancel() answers at once, without waiting for the run to stop.
CancelReturns_at_once(c) ==
  /\ canceller[c].phase = "waiting"
  /\ canceller' = [canceller EXCEPT ![c].phase = "true"]
  /\ UNCHANGED <<runs, order, run, sub, down>>

CancelReturns(c) ==
  /\ canceller[c].phase = "waiting"
  /\ run[canceller[c].task].drive = "ended"
  /\ canceller' = [canceller EXCEPT ![c].phase = "true"]
  /\ UNCHANGED <<runs, order, run, sub, down>>

\* The server's lifespan ends: every unfinished run is cancelled.
aclose ==
  /\ ~down
  /\ down' = TRUE
  /\ run' = [t \in Tasks |-> [run[t] EXCEPT !.cancelled =
                                @ \/ (t \in runs /\ run[t].drive # "ended")]]
  /\ UNCHANGED <<runs, order, sub, canceller>>

-----------------------------------------------------------------------------
(***************************************************************************)
(* subscribe.                                                              *)
(***************************************************************************)

Advance(x, fields) ==
  /\ sub' = [sub EXCEPT ![x] = fields]
  /\ UNCHANGED <<runs, order, run, canceller, down>>

\* The handler saw has(t) and returned the response; the generator has not run.
Attach(x, t, last) ==
  /\ ~down
  /\ sub[x].phase = "idle"
  /\ t \in runs
  /\ Advance(x, [sub[x] EXCEPT !.phase = "attached", !.task = t, !.last = last])

\* The buffer is replayed whatever the client holds of it.
Begin_at_base(x) ==
  /\ sub[x].phase = "attached"
  /\ LET r == run[sub[x].task]
     IN  Advance(x, IF sub[x].task \in runs
                    THEN [sub[x] EXCEPT !.phase = "reading", !.idx = r.base_seq]
                    ELSE [sub[x] EXCEPT !.phase = "gone"])

\* The first step of the generator looks the run up again.
Begin(x) ==
  /\ sub[x].phase = "attached"
  /\ LET r == run[sub[x].task]
         from == sub[x].last + 1
     IN  Advance(x, IF sub[x].task \in runs
                    THEN [sub[x] EXCEPT !.phase = "reading",
                                        !.idx = IF from < r.base_seq THEN r.base_seq ELSE from]
                    ELSE [sub[x] EXCEPT !.phase = "gone"])

\* One critical section: wait for news, copy the unread frames, note `done`.
Read(x) ==
  /\ sub[x].phase = "reading"
  /\ LET r == run[sub[x].task]
     IN  /\ sub[x].idx < EndSeq(r) \/ r.done
         /\ Advance(x, [sub[x] EXCEPT !.phase = "yielding",
                                      !.frames = unread(r, sub[x].idx),
                                      !.done = r.done,
                                      !.idx = EndSeq(r)])

Yield(x) ==
  /\ sub[x].phase = "yielding"
  /\ sub[x].frames # <<>>
  /\ Advance(x, [sub[x] EXCEPT !.got = Append(@, Head(sub[x].frames)),
                               !.frames = Tail(@)])

Yielded(x) ==
  /\ sub[x].phase = "yielding"
  /\ sub[x].frames = <<>>
  /\ Advance(x, [sub[x] EXCEPT !.phase = IF sub[x].done THEN "ended" ELSE "reading"])

\* The client disconnects: the generator is closed, the run goes on.
Disconnect(x) ==
  /\ sub[x].phase \in {"attached", "reading", "yielding"}
  /\ Advance(x, [sub[x] EXCEPT !.phase = "dropped"])

-----------------------------------------------------------------------------

Drive(t) == DriveBegins(t) \/ DriveNeverBegins(t) \/ DriveAppends(t) \/ DriveEnds(t)

Subscriber(x) == Begin(x) \/ Read(x) \/ Yield(x) \/ Yielded(x)

Next ==
  \/ \E t \in Tasks : start(t) \/ Drive(t)
  \/ \E c \in Cancellers : CancelReturns(c) \/ \E t \in Tasks : cancel(c, t)
  \/ aclose
  \/ \E x \in Subscribers :
       \/ Subscriber(x)
       \/ Disconnect(x)
       \/ \E t \in Tasks, last \in -1..MaxFrames : Attach(x, t, last)

Spec == Init /\ [][Next]_vars

\* The event loop runs what is ready, a producer comes to its end, and a client
\* that stays connected takes the frames it is sent.
FairSpec ==
  /\ Spec
  /\ \A t \in Tasks : WF_vars(DriveBegins(t) \/ DriveNeverBegins(t)) /\ WF_vars(DriveEnds(t))
  /\ \A c \in Cancellers : WF_vars(CancelReturns(c))
  /\ \A x \in Subscribers : WF_vars(Subscriber(x))

-----------------------------------------------------------------------------
(***************************************************************************)
(* Properties.                                                             *)
(***************************************************************************)

\* A stream sends frames after the Last-Event-ID it was given, in order and
\* none twice, however the buffer is trimmed while it is suspended.
FramesInOrder ==
  \A x \in Subscribers :
    LET got == sub[x].got IN
    /\ got # <<>> => got[1].id > sub[x].last
    /\ \A i \in 1..Len(got) - 1 : got[i].id < got[i + 1].id

\* A stream skips a frame only if the buffer had dropped it before it was read.
OnlyTrimmedFramesAreSkipped ==
  \A x \in Subscribers :
    LET got == sub[x].got
        base == run[sub[x].task].base_seq
    IN  /\ got # <<>> => got[1].id = sub[x].last + 1 \/ got[1].id <= base
        /\ \A i \in 1..Len(got) - 1 : got[i + 1].id = got[i].id + 1 \/ got[i + 1].id <= base

\* A stream that closes by itself has sent the run's terminal frame, unless its
\* client had told it that it holds that frame already.
StreamEndsWithTerminalFrame ==
  \A x \in Subscribers :
    LET s == sub[x]
        r == run[s.task]
    IN  s.phase = "ended" /\ s.last < EndSeq(r) - 1
          => s.got # <<>> /\ Last(s.got).kind \in Terminal /\ Last(s.got).id = EndSeq(r) - 1

\* The background task was cancelled before it took its first step.
NeverBegan(t) == run[t].drive = "ended" /\ EndSeq(run[t]) = 0

\* Once cancel() has answered true, a run that had begun has stopped and its last
\* frame is the task_error that tells its subscribers so (runs.py:95).
CancelTellsSubscribers ==
  \A c \in Cancellers :
    LET t == canceller[c].task IN
    canceller[c].phase = "true" /\ ~NeverBegan(t) =>
      /\ run[t].drive = "ended"
      /\ run[t].done
      /\ Last(run[t].events).kind = "error"

\* Only finished runs are evicted: a live run can always be followed and cancelled.
LiveRunsAreKept == \A t \in Tasks : run[t].drive \in {"created", "running"} => t \in runs

\* The stream of a client that stays connected comes to its end, however many
\* runs are started, evicted and cancelled meanwhile.
StreamsEnd ==
  \A x \in Subscribers :
    sub[x].phase = "attached" ~>
      sub[x].phase \in {"ended", "gone", "dropped"} \/ NeverBegan(sub[x].task)

-----------------------------------------------------------------------------
(***************************************************************************)
(* Refinement: to its clients the manager is an EventLog.                  *)
(***************************************************************************)

ReaderState(phase) ==
  CASE phase = "idle" -> "idle"
    [] phase \in {"attached", "reading", "yielding"} -> "following"
    [] phase = "ended" -> "ended"
    [] phase \in {"gone", "dropped"} -> "left"

\* The frame after the last one sent, or after the Last-Event-ID.
Position(s) == (IF s.got = <<>> THEN s.last ELSE Last(s.got).id) + 1

\* What a client sees of a stream.
View(s) == [state |-> ReaderState(s.phase), of |-> s.task, at |-> Position(s)]

Log ==
  INSTANCE EventLog WITH
    Runs <- Tasks, Readers <- Subscribers, Positions <- 0..MaxFrames + 1,
    length <- [t \in Tasks |-> EndSeq(run[t])],
    dropped <- [t \in Tasks |-> run[t].base_seq],
    closed <- [t \in Tasks |-> run[t].done],
    reader <- [x \in Subscribers |-> View(sub[x])]

\* Every step of the manager is a step of the log or invisible to its clients: no
\* interleaving of trims, evictions, cancels and suspended streams shows through.
ImplementsEventLog == Log!Spec
=============================================================================
