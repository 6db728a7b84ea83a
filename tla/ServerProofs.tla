---------------------------- MODULE ServerProofs ----------------------------
(***************************************************************************)
(* Proofs about Server: for any tenants, tasks, sessions and graphs, any   *)
(* number of requests, faults and restarts, in any interleaving of their   *)
(* awaits.  The inductive invariant ServerInv says, for every handler, what*)
(* it has established by the await it is at; who holds the pool's lock; and*)
(* which threads a tenant's database may hold.                             *)
(***************************************************************************)
EXTENDS Server, SequenceTheorems, TLAPS

\* A handler is somewhere in its list of awaits: what is left to do is the end of that
\* list, except that opening a database passes through two steps of its own.
Onward(c) ==
  LET H == Handlers[c.kind]
      done == Len(H) - Len(c.todo) IN
  /\ Len(c.todo) <= Len(H)
  /\ \A i \in 1..Len(c.todo) :
       \/ c.todo[i] = H[done + i]
       \/ i = 1 /\ H[done + i] = "open" /\ c.todo[i] \in {"waiting", "opening"}

\* What a request names fits its kind; who asked for a new task, and as what tenant, is
\* on record from the moment the request arrives.
Names(c) ==
  /\ c.kind \in {"create", "stream"} =>
       /\ c.task \in Tasks /\ c.session = c.task
       /\ made[c.task].by = c.kind /\ made[c.task].tenant = c.tenant
  /\ c.kind = "session_task" =>
       /\ c.task \in Tasks /\ c.session \in Ids
       /\ made[c.task].by = c.kind /\ c.tenant = Default
  /\ c.kind \in {"events", "cancel", "get", "resume", "session_resume"} => c.task \in Tasks
  /\ c.kind = "session_resume" => c.tenant = Default /\ c.session \in Ids
  /\ c.kind = "session_create" => c.session \in Sessions
  /\ c.kind = "session_delete" => c.session \in Ids

\* The task has a row of its own, or had one that was deleted.
Rowed(t) == t \in deleted \/ rows[t] # None

\* The list of sessions shows the task, or showed it until its session was deleted.
Listed(t) == Rowed(t) \/ \E s \in Ids : <<s, t>> \in links

\* A task that others may know of: it was asked for, it is listed, and only the legacy
\* route leaves it without a row of its own.
Placed(t) ==
  /\ made[t].by \in Makers
  /\ Listed(t)
  /\ made[t].by = "session_task" \/ Rowed(t)

\* The tenant may have the task's checkpoints: it asked for them, or the task is one
\* that is not checked.
Entitled(n, t) == n = made[t].tenant \/ t \in deleted \/ made[t].by = "session_task"

\* What a handler has established by the time it is at a given await.
Reached(c) ==
  LET left == Len(c.todo) IN
  /\ c.kind = "create" /\ left \in 1..5 => Rowed(c.task)
  /\ c.kind = "stream" /\ left \in 1..3 => Rowed(c.task)
  /\ c.kind = "session_task" /\ left \in 1..4 => (c.task \in deleted \/ rows[c.session] # None)
  /\ c.kind = "session_task" /\ left \in 1..2 => Listed(c.task)
  /\ c.kind \in {"events", "cancel", "get", "resume", "session_resume"} => Placed(c.task)
  /\ c.kind \in {"get", "resume"} /\ left \in 1..3 => Entitled(c.tenant, c.task)
  /\ c.kind = "get" /\ c.answer = 404 =>
       c.tenant # made[c.task].tenant \/ c.task \in deleted \/ made[c.task].by = "session_task"

RequestsInv == \A r \in Requests : Onward(req[r]) /\ Names(req[r]) /\ Reached(req[r])

\* A row under a task's id is its tenant's.
RowsInv ==
  \A t \in Tasks : rows[t] # None =>
    made[t].by \in {"create", "stream"} /\ rows[t] = made[t].tenant

\* Who opens a database holds the pool's lock and found no connection of that tenant.
LockInv ==
  \A r \in Requests : At(r, "opening") => pool.lock = r /\ req[r].tenant \notin pool.entries

\* A legacy answer resumed the task under the default tenant.
ResumedByLegacy(t) == \E r \in Requests : req[r].kind = "session_resume" /\ req[r].task = t

ThreadsInv ==
  \A n \in Tenants, t \in Tasks : db[n][t] # None =>
    Placed(t) /\ (Entitled(n, t) \/ (n = Default /\ ResumedByLegacy(t)))

ServerInv ==
  TypeOK /\ OneConnectionPerTenant /\ LockInv /\ RequestsInv /\ RowsInv /\ ThreadsInv

-----------------------------------------------------------------------------
(***************************************************************************)
(* Where a handler is.                                                     *)
(***************************************************************************)

\* The number of awaits of each handler.
LEMMA HandlerLengths ==
  /\ Len(Handlers["create"]) = 6 /\ Len(Handlers["stream"]) = 5
  /\ Len(Handlers["events"]) = 2 /\ Len(Handlers["cancel"]) = 2
  /\ Len(Handlers["get"]) = 4 /\ Len(Handlers["resume"]) = 4
  /\ Len(Handlers["session_create"]) = 1 /\ Len(Handlers["session_delete"]) = 1
  /\ Len(Handlers["session_task"]) = 5 /\ Len(Handlers["session_resume"]) = 3
  BY DEF Handlers

\* The ten handlers.
LEMMA KindNames ==
  Kinds = {"create", "stream", "events", "cancel", "get", "resume", "session_create",
           "session_delete", "session_task", "session_resume"}
  BY DEF Kinds, Handlers

LEMMA HandlersAreSequences == \A k \in Kinds : Handlers[k] \in Seq(Steps) /\ Len(Handlers[k]) \in 1..6
<1>1. SUFFICES ASSUME NEW k \in Kinds PROVE Handlers[k] \in Seq(Steps)
  BY HandlerLengths, KindNames
<1>2. Handlers["create"] \in Seq(Steps)
  BY DEF Handlers, Steps
<1>3. Handlers["stream"] \in Seq(Steps)
  BY DEF Handlers, Steps
<1>4. Handlers["events"] \in Seq(Steps)
  BY DEF Handlers, Steps
<1>5. Handlers["cancel"] \in Seq(Steps)
  BY DEF Handlers, Steps
<1>6. Handlers["get"] \in Seq(Steps)
  BY DEF Handlers, Steps
<1>7. Handlers["resume"] \in Seq(Steps)
  BY DEF Handlers, Steps
<1>8. Handlers["session_create"] \in Seq(Steps)
  BY DEF Handlers, Steps
<1>9. Handlers["session_delete"] \in Seq(Steps)
  BY DEF Handlers, Steps
<1>10. Handlers["session_task"] \in Seq(Steps)
  BY DEF Handlers, Steps
<1>11. Handlers["session_resume"] \in Seq(Steps)
  BY DEF Handlers, Steps
<1> QED
  BY <1>1, <1>2, <1>3, <1>4, <1>5, <1>6, <1>7, <1>8, <1>9, <1>10, <1>11, KindNames

\* Which handlers take a step, and how many awaits they have left when they do.
Fits(k, step, left) ==
  /\ step = "record" => \/ k = "create" /\ left = 6
                        \/ k = "stream" /\ left = 4
                        \/ k = "session_create" /\ left = 1
  /\ step = "find" => \/ k = "create" /\ left = 5
                      \/ k = "stream" /\ left = 3
                      \/ k = "session_task" /\ left = 4
  /\ step = "link" => \/ k = "create" /\ left = 4
                      \/ k = "stream" /\ left = 2
                      \/ k = "session_task" /\ left = 3
  /\ step \in {"open", "waiting", "opening"} => \/ k = "create" /\ left = 3
                                                \/ k = "stream" /\ left = 5
                                                \/ k \in {"get", "resume"} /\ left = 3
  /\ step = "run" => k \in {"create", "session_task"} /\ left = 2
  /\ step = "resume" => k \in {"resume", "session_resume"} /\ left = 2
  /\ step = "start" => k = "stream" /\ left = 1
  /\ step = "drive" => k \in {"create", "resume", "session_task", "session_resume"} /\ left = 1
  /\ step = "check" => \/ k \in {"events", "cancel"} /\ left = 2
                       \/ k \in {"get", "resume"} /\ left = 4
  /\ step = "has" => k = "events" /\ left = 1
  /\ step = "cancel" => k = "cancel" /\ left = 1
  /\ step = "snapshot" => k = "get" /\ left = 2
  /\ step = "known" => k = "get" /\ left = 1
  /\ step = "exists" => \/ k = "session_task" /\ left = 5
                        \/ k = "session_resume" /\ left = 3
  /\ step = "delete" => k = "session_delete" /\ left = 1

LEMMA WhereSteps ==
  ASSUME NEW k \in Kinds, NEW i \in 1..Len(Handlers[k])
  PROVE  /\ Fits(k, Handlers[k][i], Len(Handlers[k]) - i + 1)
         /\ Handlers[k][i] \notin {"waiting", "opening"}
<1>1. CASE k = "create"
  <2>1. i \in {1, 2, 3, 4, 5, 6}
    BY <1>1, HandlerLengths
  <2> QED
    BY <1>1, <2>1 DEF Handlers, Fits
<1>2. CASE k = "stream"
  <2>1. i \in {1, 2, 3, 4, 5}
    BY <1>2, HandlerLengths
  <2> QED
    BY <1>2, <2>1 DEF Handlers, Fits
<1>3. CASE k = "session_task"
  <2>1. i \in {1, 2, 3, 4, 5}
    BY <1>3, HandlerLengths
  <2> QED
    BY <1>3, <2>1 DEF Handlers, Fits
<1>4. CASE k = "get"
  <2>1. i \in {1, 2, 3, 4}
    BY <1>4, HandlerLengths
  <2> QED
    BY <1>4, <2>1 DEF Handlers, Fits
<1>5. CASE k = "resume"
  <2>1. i \in {1, 2, 3, 4}
    BY <1>5, HandlerLengths
  <2> QED
    BY <1>5, <2>1 DEF Handlers, Fits
<1>6. CASE k = "session_resume"
  <2>1. i \in {1, 2, 3}
    BY <1>6, HandlerLengths
  <2> QED
    BY <1>6, <2>1 DEF Handlers, Fits
<1>7. CASE k = "events"
  <2>1. i \in {1, 2}
    BY <1>7, HandlerLengths
  <2> QED
    BY <1>7, <2>1 DEF Handlers, Fits
<1>8. CASE k = "cancel"
  <2>1. i \in {1, 2}
    BY <1>8, HandlerLengths
  <2> QED
    BY <1>8, <2>1 DEF Handlers, Fits
<1>9. CASE k = "session_create"
  <2>1. i \in {1}
    BY <1>9, HandlerLengths
  <2> QED
    BY <1>9, <2>1 DEF Handlers, Fits
<1>10. CASE k = "session_delete"
  <2>1. i \in {1}
    BY <1>10, HandlerLengths
  <2> QED
    BY <1>10, <2>1 DEF Handlers, Fits
<1> QED
  BY <1>1, <1>2, <1>3, <1>4, <1>5, <1>6, <1>7, <1>8, <1>9, <1>10, KindNames

LEMMA HeadFits ==
  ASSUME NEW c \in Calls, Onward(c), c.todo # <<>>
  PROVE  /\ Fits(c.kind, Head(c.todo), Len(c.todo))
         /\ Len(c.todo) \in 1..6
         /\ Head(c.todo) \in {"waiting", "opening"} => Fits(c.kind, "open", Len(c.todo))
<1> DEFINE H == Handlers[c.kind]
           i == Len(H) - Len(c.todo) + 1
<1>1. c.kind \in Kinds /\ c.todo \in Seq(Steps)
  BY DEF Calls
<1>2. Len(H) \in 1..6 /\ Len(c.todo) \in Nat /\ Len(c.todo) # 0
  BY <1>1, HandlersAreSequences
<1>3. Len(c.todo) <= Len(H)
  BY DEF Onward
<1>4. i \in 1..Len(H) /\ Len(c.todo) = Len(H) - i + 1 /\ Len(c.todo) \in 1..6
  <2> DEFINE h == Len(H)
             l == Len(c.todo)
  <2>1. h \in 1..6 /\ l \in Nat /\ l # 0 /\ l <= h
    BY <1>2, <1>3
  <2> HIDE DEF h, l
  <2>2. h - l + 1 \in 1..h /\ l = h - (h - l + 1) + 1 /\ l \in 1..6
    BY <2>1
  <2> QED
    BY <2>2 DEF h, l
<1> HIDE DEF H
<1>5. Head(c.todo) = c.todo[1]
  BY <1>1
<1>6. \/ c.todo[1] = H[i]
      \/ H[i] = "open" /\ c.todo[1] \in {"waiting", "opening"}
  <2>1. 1 \in 1..Len(c.todo)
    BY <1>4
  <2>2. Len(H) - Len(c.todo) + 1 = i
    OBVIOUS
  <2> QED
    BY <2>1, <2>2 DEF Onward, H
<1>7. /\ Fits(c.kind, H[i], Len(H) - i + 1)
      /\ H[i] \notin {"waiting", "opening"}
  BY <1>1, <1>4, WhereSteps DEF H
<1> HIDE DEF i
<1>8. Fits(c.kind, H[i], Len(c.todo))
  BY <1>4, <1>7
<1>9. CASE c.todo[1] = H[i]
  BY <1>4, <1>5, <1>7, <1>8, <1>9
<1>10. CASE H[i] = "open" /\ c.todo[1] \in {"waiting", "opening"}
  <2>1. Fits(c.kind, "open", Len(c.todo))
    BY <1>8, <1>10
  <2>2. Fits(c.kind, c.todo[1], Len(c.todo))
    BY <2>1, <1>10 DEF Fits
  <2> QED
    BY <2>1, <2>2, <1>4, <1>5
<1> QED
  BY <1>6, <1>9, <1>10

\* A handler that goes on to its next await is on its list, at an await of the list.
LEMMA TailOnward ==
  ASSUME NEW c \in Calls, Onward(c), c.todo # <<>>,
         NEW d \in Calls, d.kind = c.kind, d.todo = Tail(c.todo)
  PROVE  /\ Onward(d)
         /\ Len(d.todo) = Len(c.todo) - 1
         /\ d.todo # <<>> => Head(d.todo) \notin {"waiting", "opening"}
<1> DEFINE H == Handlers[c.kind]
           j == Len(H) - Len(c.todo)
<1>1. c.kind \in Kinds /\ c.todo \in Seq(Steps) /\ d.todo \in Seq(Steps)
  BY DEF Calls
<1>2. Len(H) \in 1..6 /\ Len(c.todo) \in Nat /\ Len(c.todo) # 0 /\ Len(c.todo) <= Len(H)
  BY <1>1, HandlersAreSequences DEF Onward
<1>3. Len(d.todo) = Len(c.todo) - 1 /\ \A i \in 1..Len(d.todo) : d.todo[i] = c.todo[i + 1]
  BY <1>1
<1>4. \A i \in 1..Len(c.todo) :
        \/ c.todo[i] = H[j + i]
        \/ i = 1 /\ H[j + i] = "open" /\ c.todo[i] \in {"waiting", "opening"}
  BY DEF Onward
<1> DEFINE h == Len(H)
           l == Len(c.todo)
           m == Len(d.todo)
<1>n. h \in 1..6 /\ l \in 1..h /\ m = l - 1 /\ j = h - l
  <2>1. h \in 1..6 /\ l \in Nat /\ l # 0 /\ l <= h /\ m = l - 1 /\ j = h - l
    BY <1>2, <1>3
  <2> HIDE DEF h, l, m, j
  <2> QED
    BY <2>1
<1>5. Len(Handlers[d.kind]) - Len(d.todo) = j + 1
  <2>1. h - m = j + 1
    <3> HIDE DEF h, l, m, j
    <3> QED
      BY <1>n
  <2> QED
    BY <2>1
<1>6. ASSUME NEW i \in 1..Len(d.todo)
      PROVE  d.todo[i] = H[j + 1 + i] /\ j + 1 + i \in 1..Len(H)
  <2>1. i + 1 \in 1..Len(c.todo) /\ i + 1 # 1 /\ j + (i + 1) = j + 1 + i /\ j + 1 + i \in 1..Len(H)
    <3>1. i \in 1..m
      OBVIOUS
    <3>2. i + 1 \in 1..l /\ i + 1 # 1 /\ j + (i + 1) = j + 1 + i /\ j + 1 + i \in 1..h
      <4> HIDE DEF h, l, m, j
      <4> QED
        BY <3>1, <1>n
    <3> QED
      BY <3>2
  <2>2. c.todo[i + 1] = H[j + (i + 1)]
    BY <1>4, <2>1
  <2> QED
    BY <1>3, <2>1, <2>2
<1>7. Onward(d)
  <2>1. Len(d.todo) <= Len(Handlers[d.kind])
    BY <1>2, <1>3
  <2> QED
    BY <2>1, <1>5, <1>6 DEF Onward
<1>8. ASSUME d.todo # <<>> PROVE Head(d.todo) \notin {"waiting", "opening"}
  <2>1. 1 \in 1..Len(d.todo) /\ Head(d.todo) = d.todo[1]
    BY <1>1, <1>8, <1>3, <1>2
  <2>2. d.todo[1] = H[j + 1 + 1] /\ j + 1 + 1 \in 1..Len(H)
    BY <1>6, <2>1
  <2> QED
    BY <2>1, <2>2, <1>1, WhereSteps
<1> QED
  BY <1>3, <1>7, <1>8

\* A handler that opens a database, or waits for the lock, is where it was.
LEMMA BecameOnward ==
  ASSUME NEW c \in Calls, Onward(c), c.todo # <<>>, Head(c.todo) \in {"open", "waiting"},
         NEW step \in {"waiting", "opening"},
         NEW d \in Calls, d.kind = c.kind, d.todo = [c.todo EXCEPT ![1] = step]
  PROVE  /\ Onward(d)
         /\ Len(d.todo) = Len(c.todo)
         /\ d.todo # <<>> /\ Head(d.todo) = step
<1>1. c.todo \in Seq(Steps) /\ d.todo \in Seq(Steps) /\ step \in Steps
  BY DEF Calls, Steps
<1>2. 1 \in 1..Len(c.todo) /\ Head(c.todo) = c.todo[1]
  BY <1>1
<1>3. Len(d.todo) = Len(c.todo) /\ d.todo[1] = step
      /\ \A i \in 1..Len(c.todo) : i # 1 => d.todo[i] = c.todo[i]
  BY <1>1, <1>2, ExceptSeq
<1>4. d.todo # <<>> /\ Head(d.todo) = step
  BY <1>1, <1>2, <1>3
<1> DEFINE H == Handlers[c.kind]
           j == Len(H) - Len(c.todo)
<1>5. H[j + 1] = "open"
  <2>1. j + 1 \in 1..Len(H) /\ c.kind \in Kinds
    <3> DEFINE h == Len(H)
               l == Len(c.todo)
    <3>1. h \in Nat /\ l \in 1..h /\ c.kind \in Kinds
      BY <1>1, <1>2, HandlersAreSequences DEF Onward, Calls
    <3> HIDE DEF h, l
    <3>2. h - l + 1 \in 1..h
      BY <3>1
    <3> QED
      BY <3>1, <3>2 DEF h, l
  <2>2. H[j + 1] \notin {"waiting", "opening"}
    BY <2>1, WhereSteps
  <2>3. c.todo[1] = H[j + 1] \/ H[j + 1] = "open"
    BY <1>2 DEF Onward
  <2> QED
    BY <2>2, <2>3, <1>2
<1>6. Onward(d)
  <2>1. Len(d.todo) <= Len(Handlers[d.kind]) /\ Len(Handlers[d.kind]) - Len(d.todo) = j
    BY <1>3 DEF Onward
  <2>2. ASSUME NEW i \in 1..Len(d.todo)
        PROVE  \/ d.todo[i] = H[j + i]
               \/ i = 1 /\ H[j + i] = "open" /\ d.todo[i] \in {"waiting", "opening"}
    <3>1. CASE i = 1
      BY <1>3, <1>5, <3>1
    <3>2. CASE i # 1
      <4>1. i \in 1..Len(c.todo) /\ d.todo[i] = c.todo[i]
        BY <1>3, <3>2
      <4> QED
        BY <4>1, <3>2 DEF Onward
    <3> QED
      BY <3>1, <3>2
  <2> QED
    BY <2>1, <2>2 DEF Onward
<1> QED
  BY <1>3, <1>4, <1>6

-----------------------------------------------------------------------------
(***************************************************************************)
(* What a step does to the request it serves.                              *)
(***************************************************************************)

\* The same request, further on.
SameCall(d, c) ==
  d.kind = c.kind /\ d.tenant = c.tenant /\ d.task = c.task /\ d.session = c.session

LEMMA RequestTypes ==
  ASSUME TypeOK, NEW r \in Requests
  PROVE  /\ req[r] \in Calls
         /\ req[r].kind \in Kinds /\ req[r].todo \in Seq(Steps) /\ req[r].tenant \in Tenants
         /\ req[r].task \in Tasks \cup {None} /\ req[r].session \in Ids \cup {None}
         /\ req[r].graph \in Graphs /\ req[r].answer \in {0, 200, 404, 409, 500}
<1>1. req[r] \in Calls
  BY ElementOfSeq DEF TypeOK, Requests
<1> QED
  BY <1>1 DEF Calls

\* A request with nothing left to do and its answer.
Closed(c, code) == [c EXCEPT !.todo = <<>>, !.answer = code, !.graph = DefaultGraph]

LEMMA ClosedCall ==
  ASSUME NEW c \in Calls, NEW code \in {200, 404, 409, 500}
  PROVE  /\ Closed(c, code) \in Calls
         /\ SameCall(Closed(c, code), c)
         /\ Closed(c, code).todo = <<>> /\ Closed(c, code).answer = code
<1> DEFINE K == Kinds
           Q == Seq(Steps)
           N == Tenants
           T == Tasks \cup {None}
           S == Ids \cup {None}
           A == {0, 200, 404, 409, 500}
<1>1. Calls = [kind : K, todo : Q, tenant : N, task : T, session : S, graph : Graphs, answer : A]
  BY DEF Calls
<1>2. <<>> \in Q /\ code \in A /\ DefaultGraph \in Graphs
  BY ServerAssumption
<1> HIDE DEF K, Q, N, T, S, A
<1>3. Closed(c, code) \in Calls
  BY <1>1, <1>2 DEF Closed
<1> QED
  BY <1>1, <1>3 DEF Closed, SameCall

\* The request after an answer.
LEMMA AnsweredCall ==
  ASSUME TypeOK, NEW r \in Requests, NEW code \in {200, 404, 409, 500}
  PROVE  \E d \in Calls : /\ Answered(r, code) = [req EXCEPT ![r] = d]
                          /\ SameCall(d, req[r])
                          /\ d.todo = <<>> /\ d.answer = code
<1>1. req[r] \in Calls
  BY RequestTypes
<1>2. Answered(r, code) = [req EXCEPT ![r] = Closed(req[r], code)]
  BY DEF Answered, Closed
<1> DEFINE d == Closed(req[r], code)
<1>3. d \in Calls /\ SameCall(d, req[r]) /\ d.todo = <<>> /\ d.answer = code
  BY <1>1, ClosedCall
<1> HIDE DEF d
<1>4. Answered(r, code) = [req EXCEPT ![r] = d]
  BY <1>2 DEF d
<1> QED
  BY <1>3, <1>4

\* The request at another step.
LEMMA TodoCall ==
  ASSUME TypeOK, NEW r \in Requests, NEW q \in Seq(Steps)
  PROVE  LET d == [req[r] EXCEPT !.todo = q] IN
         d \in Calls /\ SameCall(d, req[r]) /\ d.todo = q /\ d.answer = req[r].answer
<1> DEFINE c == req[r]
<1>1. c \in Calls
  BY RequestTypes
<1> HIDE DEF c
<1>2. LET d == [c EXCEPT !.todo = q] IN
      d \in Calls /\ SameCall(d, c) /\ d.todo = q /\ d.answer = c.answer
  BY <1>1 DEF Calls, SameCall
<1> QED
  BY <1>2 DEF c

\* The request after an await: it has one step less to do, or its answer.
LEMMA MovedCall ==
  ASSUME TypeOK, NEW r \in Requests, req[r].todo # <<>>, Onward(req[r])
  PROVE  \E d \in Calls : /\ Moved(r) = [req EXCEPT ![r] = d]
                          /\ SameCall(d, req[r])
                          /\ d.todo = Tail(req[r].todo)
                          /\ d.answer \in {200, req[r].answer}
                          /\ Onward(d)
                          /\ Len(d.todo) = Len(req[r].todo) - 1
                          /\ d.todo # <<>> => Head(d.todo) \notin {"waiting", "opening"}
<1> DEFINE q == req[r].todo
<1>1. req[r] \in Calls /\ q \in Seq(Steps)
  BY RequestTypes
<1>2. Tail(q) \in Seq(Steps) /\ (Len(q) = 1 => Tail(q) = <<>>)
  <2>1. Tail(q) \in Seq(Steps) /\ Len(Tail(q)) = Len(q) - 1
    BY <1>1, HeadTailProperties
  <2>2. Len(q) = 1 => Len(Tail(q)) = 0
    BY <2>1
  <2> QED
    BY <2>1, <2>2, EmptySeq
<1>3. SUFFICES \E d \in Calls : /\ Moved(r) = [req EXCEPT ![r] = d]
                                /\ SameCall(d, req[r])
                                /\ d.todo = Tail(q)
                                /\ d.answer \in {200, req[r].answer}
  BY <1>1, TailOnward DEF SameCall
<1>4. CASE Len(q) = 1
  <2>1. Moved(r) = Answered(r, 200)
    BY <1>4 DEF Moved
  <2>2. PICK d \in Calls : /\ Answered(r, 200) = [req EXCEPT ![r] = d]
                           /\ SameCall(d, req[r])
                           /\ d.todo = <<>> /\ d.answer = 200
    BY AnsweredCall
  <2>3. d.todo = Tail(q) /\ d.answer \in {200, req[r].answer}
    BY <2>2, <1>2, <1>4
  <2> QED
    BY <2>1, <2>2, <2>3
<1>5. CASE Len(q) # 1
  <2> DEFINE d == [req[r] EXCEPT !.todo = Tail(q)]
  <2>1. Moved(r) = [req EXCEPT ![r] = d]
    BY <1>5 DEF Moved
  <2>2. d \in Calls /\ SameCall(d, req[r]) /\ d.todo = Tail(q) /\ d.answer = req[r].answer
    BY <1>2, TodoCall
  <2> HIDE DEF d
  <2> QED
    BY <2>1, <2>2
<1> QED
  BY <1>4, <1>5

\* attach_task without a row: the insert is left out.
LEMMA SkippedCall ==
  ASSUME TypeOK, NEW r \in Requests, req[r].todo # <<>>, Onward(req[r]),
         Len(req[r].todo) >= 3
  PROVE  \E d \in Calls : /\ [req EXCEPT ![r].todo = Tail(Tail(@))] = [req EXCEPT ![r] = d]
                          /\ SameCall(d, req[r])
                          /\ d.answer = req[r].answer
                          /\ Onward(d)
                          /\ Len(d.todo) = Len(req[r].todo) - 2
                          /\ d.todo # <<>> => Head(d.todo) \notin {"waiting", "opening"}
<1> DEFINE q == req[r].todo
           e == [req[r] EXCEPT !.todo = Tail(q)]
           d == [req[r] EXCEPT !.todo = Tail(Tail(q))]
<1>1. req[r] \in Calls /\ q \in Seq(Steps)
  BY RequestTypes
<1>2. Tail(q) \in Seq(Steps) /\ Tail(q) # <<>> /\ Tail(Tail(q)) \in Seq(Steps)
  <2>1. Tail(q) \in Seq(Steps) /\ Len(Tail(q)) = Len(q) - 1 /\ Len(q) >= 3 /\ Len(q) \in Nat
    BY <1>1, HeadTailProperties
  <2>2. Len(Tail(q)) # 0
    <3> DEFINE l == Len(q)
               m == Len(Tail(q))
    <3>1. m = l - 1 /\ l >= 3 /\ l \in Nat
      BY <2>1
    <3> HIDE DEF l, m
    <3>2. m # 0
      BY <3>1
    <3> QED
      BY <3>2 DEF m
  <2>3. Tail(q) # <<>>
    BY <2>2, <2>1, EmptySeq
  <2> QED
    BY <2>1, <2>3, HeadTailProperties
<1>3. e \in Calls /\ SameCall(e, req[r]) /\ e.todo = Tail(q)
  BY <1>2, TodoCall
<1>4. d \in Calls /\ SameCall(d, req[r]) /\ d.todo = Tail(Tail(q)) /\ d.answer = req[r].answer
  BY <1>2, TodoCall
<1>5. [req EXCEPT ![r].todo = Tail(Tail(@))] = [req EXCEPT ![r] = d]
  OBVIOUS
<1> HIDE DEF e, d
<1>6. Onward(e) /\ Len(e.todo) = Len(q) - 1
  BY <1>1, <1>3, TailOnward DEF SameCall
<1>7. /\ Onward(d) /\ Len(d.todo) = Len(e.todo) - 1
      /\ d.todo # <<>> => Head(d.todo) \notin {"waiting", "opening"}
  BY <1>2, <1>3, <1>4, <1>6, TailOnward DEF SameCall
<1>8. Len(d.todo) = Len(q) - 2
  <2> DEFINE l == Len(q)
             m == Len(e.todo)
             n == Len(d.todo)
  <2>1. l \in Nat /\ m = l - 1 /\ n = m - 1
    BY <1>1, <1>6, <1>7
  <2> HIDE DEF l, m, n
  <2>2. n = l - 2
    BY <2>1
  <2> QED
    BY <2>2 DEF l, n
<1> QED
  BY <1>4, <1>5, <1>7, <1>8

\* A request in the pool's hands.
LEMMA BecameCall ==
  ASSUME TypeOK, NEW r \in Requests, req[r].todo # <<>>, Onward(req[r]),
         Head(req[r].todo) \in {"open", "waiting"}, NEW step \in {"waiting", "opening"}
  PROVE  \E d \in Calls : /\ Became(r, step) = [req EXCEPT ![r] = d]
                          /\ SameCall(d, req[r])
                          /\ d.answer = req[r].answer
                          /\ Onward(d)
                          /\ Len(d.todo) = Len(req[r].todo)
                          /\ d.todo # <<>> /\ Head(d.todo) = step
<1> DEFINE q == req[r].todo
           p == [q EXCEPT ![1] = step]
           d == [req[r] EXCEPT !.todo = p]
<1>1. req[r] \in Calls /\ q \in Seq(Steps) /\ step \in Steps
  BY RequestTypes DEF Steps
<1>2. p \in Seq(Steps)
  <2>1. 1 \in 1..Len(q)
    BY <1>1
  <2> QED
    BY <1>1, <2>1, ExceptSeq
<1>3. d \in Calls /\ SameCall(d, req[r]) /\ d.todo = p /\ d.answer = req[r].answer
  BY <1>2, TodoCall
<1>4. Became(r, step) = [req EXCEPT ![r] = d]
  BY DEF Became
<1> HIDE DEF d
<1>5. Onward(d) /\ Len(d.todo) = Len(q) /\ d.todo # <<>> /\ Head(d.todo) = step
  BY <1>1, <1>3, BecameOnward DEF SameCall
<1> QED
  BY <1>3, <1>4, <1>5

\* Serving a request leaves the others, and what it names.
LEMMA ServedRequest ==
  ASSUME TypeOK, NEW r \in Requests, NEW d \in Calls, SameCall(d, req[r]),
         req' = [req EXCEPT ![r] = d]
  PROVE  /\ req' \in Seq(Calls) /\ Len(req') = Len(req) /\ Requests' = Requests
         /\ req'[r] = d
         /\ \A q \in Requests : q # r => req'[q] = req[q]
         /\ \A q \in Requests : SameCall(req'[q], req[q])
<1>1. req \in Seq(Calls) /\ r \in 1..Len(req)
  BY DEF TypeOK, Requests
<1>2. /\ req' \in Seq(Calls) /\ Len(req') = Len(req) /\ req'[r] = d
      /\ \A q \in 1..Len(req) : q # r => req'[q] = req[q]
  BY <1>1, ExceptSeq
<1> QED
  BY <1>2 DEF Requests, SameCall

-----------------------------------------------------------------------------
(***************************************************************************)
(* What no step undoes.                                                    *)
(***************************************************************************)

\* What was asked for stays asked for, what was deleted stays deleted, and what had a
\* row or was listed either still is or was deleted.
Stable ==
  /\ \A t \in Tasks : made[t].by \in Makers => made'[t] = made[t]
  /\ \A t \in Tasks : t \in deleted => t \in deleted'
  /\ \A t \in Tasks : Rowed(t) => Rowed(t)'
  /\ \A t \in Tasks : Listed(t) => Listed(t)'
  /\ \A q \in Requests : req[q].kind = "session_task" /\ rows[req[q].session] # None =>
       rows'[req[q].session] # None \/ req[q].task \in deleted'

LEMMA QuietIsStable ==
  ASSUME UNCHANGED <<rows, links, made, deleted>>
  PROVE  Stable
  BY DEF Stable, Rowed, Listed

LEMMA PlacedStays ==
  ASSUME Stable, NEW t \in Tasks, Placed(t)
  PROVE  Placed(t)' /\ made'[t] = made[t]
  BY DEF Stable, Placed

\* The facts a handler relies on stay facts while it waits.
LEMMA OthersStay ==
  ASSUME Stable, NEW q \in Requests, NEW c \in Calls, c = req[q], Names(c), Reached(c)
  PROVE  Names(c)' /\ Reached(c)'
<1>1. Makers = {"create", "stream", "session_task"}
  BY DEF Makers
<1>2. Names(c)'
  <2>1. c.kind \in {"create", "stream", "session_task"} => made'[c.task] = made[c.task]
    BY <1>1 DEF Names, Stable
  <2> QED
    BY <2>1 DEF Names
<1>3. CASE c.kind \in {"create", "stream", "session_task"}
  <2>1. c.task \in Tasks
    BY <1>3 DEF Names
  <2>2. /\ c.kind = "create" /\ Len(c.todo) \in 1..5 => Rowed(c.task)'
        /\ c.kind = "stream" /\ Len(c.todo) \in 1..3 => Rowed(c.task)'
        /\ c.kind = "session_task" /\ Len(c.todo) \in 1..2 => Listed(c.task)'
    BY <2>1 DEF Stable, Reached
  <2>3. c.kind = "session_task" /\ Len(c.todo) \in 1..4 =>
          c.task \in deleted' \/ rows'[c.session] # None
    BY <2>1 DEF Stable, Reached
  <2> QED
    BY <1>2, <1>3, <2>2, <2>3 DEF Reached
<1>4. CASE c.kind \in {"events", "cancel", "get", "resume", "session_resume"}
  <2>1. c.task \in Tasks
    BY <1>4 DEF Names
  <2>2. Placed(c.task)
    BY <1>4 DEF Reached
  <2>3. Placed(c.task)' /\ made'[c.task] = made[c.task]
    BY <2>1, <2>2, PlacedStays
  <2>4. c.task \in deleted => c.task \in deleted'
    BY <2>1 DEF Stable
  <2> QED
    BY <1>2, <1>4, <2>3, <2>4 DEF Reached, Entitled
<1>5. CASE c.kind \in {"session_create", "session_delete"}
  BY <1>2, <1>5 DEF Reached
<1>6. c.kind \in Kinds
  BY DEF Calls
<1> QED
  BY <1>2, <1>3, <1>4, <1>5, <1>6, KindNames

\* The step of one request keeps what is known of all of them.
LEMMA RequestsKept ==
  ASSUME TypeOK, RequestsInv, Stable, NEW r \in Requests, NEW d \in Calls,
         SameCall(d, req[r]), req' = [req EXCEPT ![r] = d], Onward(d), Reached(d)'
  PROVE  RequestsInv'
<1>1. /\ Requests' = Requests /\ req'[r] = d
      /\ \A q \in Requests : q # r => req'[q] = req[q]
  BY ServedRequest
<1>2. SUFFICES ASSUME NEW q \in Requests
               PROVE  Onward(req'[q]) /\ Names(req[q])' /\ Reached(req[q])'
  BY <1>1 DEF RequestsInv, Onward
<1>3. Onward(req[q]) /\ Names(req[q]) /\ Reached(req[q]) /\ req[q] \in Calls
  BY RequestTypes DEF RequestsInv
<1>4. PICK c \in Calls : c = req[q]
  BY <1>3
<1>5. Names(c)' /\ Reached(c)'
  BY <1>3, <1>4, OthersStay
<1>6. CASE q # r
  <2>1. req'[q] = c
    BY <1>1, <1>4, <1>6
  <2> QED
    BY <2>1, <1>3, <1>4, <1>5 DEF Names, Reached
<1>7. CASE q = r
  <2>1. req'[q] = d
    BY <1>1, <1>7
  <2>2. Names(d)'
    BY <1>4, <1>5, <1>7 DEF Names, SameCall
  <2> QED
    BY <2>1, <2>2 DEF Names, Reached
<1> QED
  BY <1>6, <1>7

\* Checkpoints that stay where they were belong there for the reason they did.
LEMMA ThreadsKept ==
  ASSUME ThreadsInv, Stable, UNCHANGED db, Requests \subseteq Requests',
         \A q \in Requests : req'[q].kind = req[q].kind /\ req'[q].task = req[q].task
  PROVE  ThreadsInv'
<1>1. SUFFICES ASSUME NEW n \in Tenants, NEW t \in Tasks, db[n][t] # None
               PROVE  Placed(t)' /\ (Entitled(n, t)' \/ (n = Default /\ ResumedByLegacy(t)'))
  BY DEF ThreadsInv
<1>2. Placed(t) /\ (Entitled(n, t) \/ (n = Default /\ ResumedByLegacy(t)))
  BY <1>1 DEF ThreadsInv
<1>3. Placed(t)' /\ made'[t] = made[t]
  BY <1>2, PlacedStays
<1>4. Entitled(n, t) => Entitled(n, t)'
  BY <1>3 DEF Entitled, Stable
<1>5. ResumedByLegacy(t) => ResumedByLegacy(t)'
  BY DEF ResumedByLegacy
<1> QED
  BY <1>2, <1>3, <1>4, <1>5

\* A step that opens nothing leaves the pool as it was.
LEMMA PoolKept ==
  ASSUME TypeOK, OneConnectionPerTenant, LockInv, UNCHANGED pool,
         NEW r \in Requests, NEW d \in Calls, SameCall(d, req[r]), req' = [req EXCEPT ![r] = d],
         d.todo = <<>> \/ Head(d.todo) # "opening"
  PROVE  OneConnectionPerTenant' /\ LockInv'
<1>1. /\ Requests' = Requests /\ req'[r] = d
      /\ \A q \in Requests : q # r => req'[q] = req[q]
  BY ServedRequest
<1>2. OneConnectionPerTenant'
  BY DEF OneConnectionPerTenant
<1>3. LockInv'
  BY <1>1 DEF LockInv, At
<1> QED
  BY <1>2, <1>3

-----------------------------------------------------------------------------
(***************************************************************************)
(* The steps, by what they change.                                         *)
(***************************************************************************)

\* A step that only moves its request on.
LEMMA QuietStep ==
  ASSUME ServerInv, NEW r \in Requests, NEW d \in Calls, SameCall(d, req[r]),
         req' = [req EXCEPT ![r] = d], Onward(d), Reached(d),
         d.todo = <<>> \/ Head(d.todo) # "opening",
         UNCHANGED <<rows, links, db, pool, background, made, deleted, faults>>
  PROVE  ServerInv'
<1>1. /\ req' \in Seq(Calls) /\ Len(req') = Len(req) /\ Requests' = Requests
      /\ \A q \in Requests : SameCall(req'[q], req[q])
  BY ServedRequest DEF ServerInv
<1>2. Stable
  BY QuietIsStable
<1>3. Reached(d)'
  BY DEF Reached, Rowed, Listed, Placed, Entitled
<1>4. TypeOK'
  BY <1>1 DEF ServerInv, TypeOK
<1>5. OneConnectionPerTenant' /\ LockInv'
  BY PoolKept DEF ServerInv
<1>6. RequestsInv'
  BY <1>2, <1>3, RequestsKept DEF ServerInv
<1>7. RowsInv'
  BY DEF ServerInv, RowsInv
<1>8. ThreadsInv'
  BY <1>1, <1>2, ThreadsKept DEF ServerInv, SameCall
<1> QED
  BY <1>4, <1>5, <1>6, <1>7, <1>8 DEF ServerInv

\* Where a request is, and what its handler has established by then.
LEMMA AtStep ==
  ASSUME ServerInv, NEW r \in Requests, NEW step, At(r, step)
  PROVE  /\ TypeOK
         /\ req[r] \in Calls /\ Onward(req[r]) /\ Names(req[r]) /\ Reached(req[r])
         /\ req[r].todo # <<>> /\ Head(req[r].todo) = step
         /\ Len(req[r].todo) \in 1..6
         /\ Fits(req[r].kind, step, Len(req[r].todo))
         /\ step \in {"waiting", "opening"} => Fits(req[r].kind, "open", Len(req[r].todo))
<1>1. /\ TypeOK /\ req[r] \in Calls /\ Onward(req[r]) /\ Names(req[r]) /\ Reached(req[r])
      /\ req[r].todo # <<>> /\ Head(req[r].todo) = step
  BY RequestTypes DEF ServerInv, RequestsInv, At
<1> QED
  BY <1>1, HeadFits

\* A handler that is done is on no list and relies on little.
LEMMA DoneCall ==
  ASSUME NEW c \in Calls, Reached(c), NEW d \in Calls, SameCall(d, c), d.todo = <<>>,
         d.answer # 404
  PROVE  Onward(d) /\ Reached(d)
<1>1. Len(d.todo) = 0 /\ d.kind \in Kinds /\ Len(Handlers[d.kind]) \in 1..6
  BY HandlersAreSequences DEF Calls
<1>2. Onward(d)
  BY <1>1 DEF Onward
<1>3. Reached(d)
  BY <1>1 DEF Reached, SameCall
<1> QED
  BY <1>2, <1>3

LEMMA FindKeeps ==
  ASSUME ServerInv, NEW r \in Requests, find(r)
  PROVE  ServerInv'
<1> DEFINE c == req[r]
           n == Len(c.todo)
<1>1. /\ TypeOK /\ c \in Calls /\ Onward(c) /\ Names(c) /\ Reached(c) /\ c.todo # <<>>
      /\ Fits(c.kind, "find", n)
  BY AtStep DEF find
<1>2. \/ c.kind = "create" /\ n = 5
      \/ c.kind = "stream" /\ n = 3
      \/ c.kind = "session_task" /\ n = 4
  BY <1>1 DEF Fits
<1>e. /\ c.kind \in {"create", "stream"} => Rowed(c.task)
      /\ c.kind = "session_task" => c.task \in deleted \/ rows[c.session] # None
      /\ n >= 3
  <2>1. n >= 3 /\ (c.kind = "create" => n \in 1..5) /\ (c.kind = "stream" => n \in 1..3)
        /\ (c.kind = "session_task" => n \in 1..4)
    <3> HIDE DEF n
    <3> QED
      BY <1>2
  <2> QED
    BY <1>1, <2>1 DEF Reached
<1>3. CASE rows[c.session] # None
  <2>1. PICK d \in Calls : /\ Moved(r) = [req EXCEPT ![r] = d]
                           /\ SameCall(d, c) /\ Onward(d) /\ Len(d.todo) = n - 1
                           /\ d.todo # <<>> => Head(d.todo) \notin {"waiting", "opening"}
    BY <1>1, MovedCall
  <2> DEFINE m == Len(d.todo)
  <2>2. \/ d.kind = "create" /\ n = 5 /\ m = 4
        \/ d.kind = "stream" /\ n = 3 /\ m = 2
        \/ d.kind = "session_task" /\ n = 4 /\ m = 3
    BY <1>2, <2>1 DEF SameCall
  <2>3. Reached(d)
    <3>1. /\ d.kind \in {"create", "stream", "session_task"}
          /\ d.kind = "session_task" => m \notin 1..2
      <4> HIDE DEF n, m
      <4> QED
        BY <2>2
    <3> QED
      BY <1>e, <2>1, <3>1 DEF Reached, SameCall
  <2> QED
    BY <1>3, <2>1, <2>3, QuietStep DEF find
<1>4. CASE rows[c.session] = None
  <2>1. PICK d \in Calls : /\ [req EXCEPT ![r].todo = Tail(Tail(@))] = [req EXCEPT ![r] = d]
                           /\ SameCall(d, c) /\ Onward(d) /\ Len(d.todo) = n - 2
                           /\ d.todo # <<>> => Head(d.todo) \notin {"waiting", "opening"}
    BY <1>1, <1>e, SkippedCall
  <2> DEFINE m == Len(d.todo)
  <2>2. \/ d.kind = "create" /\ n = 5 /\ m = 3
        \/ d.kind = "stream" /\ n = 3 /\ m = 1
        \/ d.kind = "session_task" /\ n = 4 /\ m = 2
    BY <1>2, <2>1 DEF SameCall
  <2>3. Reached(d)
    BY <1>e, <1>4, <2>1, <2>2 DEF Reached, SameCall, Listed, Rowed
  <2> QED
    BY <1>4, <2>1, <2>3, QuietStep DEF find
<1> QED
  BY <1>3, <1>4

LEMMA ExistsKeeps ==
  ASSUME ServerInv, NEW r \in Requests, exists(r)
  PROVE  ServerInv'
<1> DEFINE c == req[r]
           n == Len(c.todo)
<1>1. /\ TypeOK /\ c \in Calls /\ Onward(c) /\ Names(c) /\ Reached(c) /\ c.todo # <<>>
      /\ Fits(c.kind, "exists", n)
  BY AtStep DEF exists
<1>2. \/ c.kind = "session_task" /\ n = 5
      \/ c.kind = "session_resume" /\ n = 3
  BY <1>1 DEF Fits
<1>e. c.kind = "session_resume" => Placed(c.task)
  BY <1>1 DEF Reached
<1>3. CASE rows[c.session] # None
  <2>1. PICK d \in Calls : /\ Moved(r) = [req EXCEPT ![r] = d]
                           /\ SameCall(d, c) /\ Onward(d) /\ Len(d.todo) = n - 1
                           /\ d.todo # <<>> => Head(d.todo) \notin {"waiting", "opening"}
    BY <1>1, MovedCall
  <2> DEFINE m == Len(d.todo)
  <2>2. \/ d.kind = "session_task" /\ n = 5 /\ m = 4
        \/ d.kind = "session_resume" /\ n = 3 /\ m = 2
    BY <1>2, <2>1 DEF SameCall
  <2>3. Reached(d)
    <3>1. /\ d.kind \in {"session_task", "session_resume"}
          /\ d.kind = "session_task" => m \notin 1..2
      <4> HIDE DEF n, m
      <4> QED
        BY <2>2
    <3> QED
      BY <1>e, <1>3, <2>1, <3>1 DEF Reached, SameCall
  <2> QED
    BY <1>3, <2>1, <2>3, QuietStep DEF exists
<1>4. CASE rows[c.session] = None
  <2>1. PICK d \in Calls : /\ Answered(r, 404) = [req EXCEPT ![r] = d]
                           /\ SameCall(d, c) /\ d.todo = <<>>
    BY <1>1, AnsweredCall
  <2>2. Onward(d) /\ Len(d.todo) = 0
    BY HandlersAreSequences, <2>1 DEF Onward, Calls
  <2>3. Reached(d)
    BY <1>1, <1>2, <2>1, <2>2 DEF Reached, SameCall
  <2> QED
    BY <1>4, <2>1, <2>2, <2>3, QuietStep DEF exists
<1> QED
  BY <1>3, <1>4

\* _check_tenant_owns_task lets a tenant through to a task that has no row only when the
\* row was deleted or never written; it turns away only from another tenant's row.
LEMMA CheckKeeps ==
  ASSUME ServerInv, NEW r \in Requests, check(r)
  PROVE  ServerInv'
<1> DEFINE c == req[r]
           n == Len(c.todo)
           t == c.task
<1>1. /\ TypeOK /\ c \in Calls /\ Onward(c) /\ Names(c) /\ Reached(c) /\ c.todo # <<>>
      /\ Fits(c.kind, "check", n)
  BY AtStep DEF check
<1>2. \/ c.kind \in {"events", "cancel"} /\ n = 2
      \/ c.kind \in {"get", "resume"} /\ n = 4
  BY <1>1 DEF Fits
<1>3. t \in Tasks /\ Placed(t) /\ c.tenant \in Tenants
  BY <1>1, <1>2 DEF Names, Reached, Calls
<1>4. rows[t] # None => rows[t] = made[t].tenant
  BY <1>3 DEF ServerInv, RowsInv
<1>5. CASE rows[t] \in {None, c.tenant}
  <2>1. PICK d \in Calls : /\ Moved(r) = [req EXCEPT ![r] = d]
                           /\ SameCall(d, c) /\ Onward(d) /\ Len(d.todo) = n - 1
                           /\ d.answer \in {200, c.answer}
                           /\ d.todo # <<>> => Head(d.todo) \notin {"waiting", "opening"}
    BY <1>1, MovedCall
  <2> DEFINE m == Len(d.todo)
  <2>2. \/ d.kind \in {"events", "cancel"} /\ m = 1
        \/ d.kind \in {"get", "resume"} /\ m = 3
    BY <1>2, <2>1 DEF SameCall
  <2>3. Entitled(c.tenant, t)
    BY <1>3, <1>4, <1>5 DEF Entitled, Placed, Rowed
  <2>4. Reached(d)
    BY <1>1, <1>3, <2>1, <2>2, <2>3 DEF Reached, SameCall
  <2> QED
    BY <1>5, <2>1, <2>4, QuietStep DEF check
<1>6. CASE rows[t] \notin {None, c.tenant}
  <2>1. PICK d \in Calls : /\ Answered(r, 404) = [req EXCEPT ![r] = d]
                           /\ SameCall(d, c) /\ d.todo = <<>>
    BY <1>1, AnsweredCall
  <2>2. Onward(d) /\ Len(d.todo) = 0
    BY HandlersAreSequences, <2>1 DEF Onward, Calls
  <2>3. c.tenant # made[t].tenant
    BY <1>4, <1>6
  <2>4. Reached(d)
    BY <1>2, <1>3, <2>1, <2>2, <2>3 DEF Reached, SameCall
  <2> QED
    BY <1>6, <2>1, <2>2, <2>4, QuietStep DEF check
<1> QED
  BY <1>5, <1>6

\* A handler with nothing left to do, of a kind whose answer is no promise.
LEMMA EndedCall ==
  ASSUME NEW c \in Calls, Reached(c), NEW d \in Calls, SameCall(d, c), Len(d.todo) = 0,
         d.kind # "get" \/ d.answer # 404
  PROVE  Onward(d) /\ Reached(d)
<1>1. d.kind \in Kinds /\ Len(Handlers[d.kind]) \in 1..6
  BY HandlersAreSequences DEF Calls
<1>2. Onward(d)
  BY <1>1 DEF Onward
<1>3. d.kind \in {"events", "cancel", "get", "resume", "session_resume"} => Placed(d.task)
  BY DEF Reached, SameCall
<1>4. Reached(d)
  BY <1>3 DEF Reached
<1> QED
  BY <1>2, <1>4

LEMMA DriveKeeps ==
  ASSUME ServerInv, NEW r \in Requests, drive(r)
  PROVE  ServerInv'
<1> DEFINE c == req[r]
           n == Len(c.todo)
<1>1. /\ TypeOK /\ c \in Calls /\ Onward(c) /\ Reached(c) /\ c.todo # <<>>
      /\ Fits(c.kind, "drive", n)
  BY AtStep DEF drive
<1>2. c.kind \in {"create", "resume", "session_task", "session_resume"} /\ n = 1
  BY <1>1 DEF Fits
<1>3. PICK d \in Calls : /\ Moved(r) = [req EXCEPT ![r] = d]
                         /\ SameCall(d, c) /\ Onward(d) /\ Len(d.todo) = n - 1
                         /\ d.todo # <<>> => Head(d.todo) \notin {"waiting", "opening"}
  BY <1>1, MovedCall
<1>4. Len(d.todo) = 0 /\ d.kind # "get"
  BY <1>2, <1>3 DEF SameCall
<1>5. Reached(d)
  BY <1>1, <1>3, <1>4, EndedCall
<1> QED
  BY <1>3, <1>5, QuietStep DEF drive

LEMMA HasKeeps ==
  ASSUME ServerInv, NEW r \in Requests, has(r)
  PROVE  ServerInv'
<1> DEFINE c == req[r]
<1>1. /\ TypeOK /\ c \in Calls /\ Reached(c) /\ Fits(c.kind, "has", Len(c.todo))
  BY AtStep DEF has
<1>2. c.kind = "events"
  BY <1>1 DEF Fits
<1>3. CASE req' = Answered(r, 200)
  <2>1. PICK d \in Calls : /\ Answered(r, 200) = [req EXCEPT ![r] = d]
                           /\ SameCall(d, c) /\ d.todo = <<>>
    BY <1>1, AnsweredCall
  <2>2. Len(d.todo) = 0 /\ d.kind # "get"
    BY <1>2, <2>1 DEF SameCall
  <2>3. Onward(d) /\ Reached(d)
    BY <1>1, <2>1, <2>2, EndedCall
  <2> QED
    BY <1>3, <2>1, <2>3, QuietStep DEF has
<1>4. CASE req' = Answered(r, 409)
  <2>1. PICK d \in Calls : /\ Answered(r, 409) = [req EXCEPT ![r] = d]
                           /\ SameCall(d, c) /\ d.todo = <<>>
    BY <1>1, AnsweredCall
  <2>2. Len(d.todo) = 0 /\ d.kind # "get"
    BY <1>2, <2>1 DEF SameCall
  <2>3. Onward(d) /\ Reached(d)
    BY <1>1, <2>1, <2>2, EndedCall
  <2> QED
    BY <1>4, <2>1, <2>3, QuietStep DEF has
<1> QED
  BY <1>3, <1>4 DEF has

LEMMA SnapshotKeeps ==
  ASSUME ServerInv, NEW r \in Requests, snapshot(r)
  PROVE  ServerInv'
<1> DEFINE c == req[r]
           n == Len(c.todo)
<1>1. /\ TypeOK /\ c \in Calls /\ Onward(c) /\ Reached(c) /\ c.todo # <<>>
      /\ Fits(c.kind, "snapshot", n)
  BY AtStep DEF snapshot
<1>2. c.kind = "get" /\ n = 2
  BY <1>1 DEF Fits
<1>3. CASE req' = Answered(r, 200)
  <2>1. PICK d \in Calls : /\ Answered(r, 200) = [req EXCEPT ![r] = d]
                           /\ SameCall(d, c) /\ d.todo = <<>> /\ d.answer = 200
    BY <1>1, AnsweredCall
  <2>2. Onward(d) /\ Reached(d)
    BY <1>1, <2>1, EndedCall
  <2> QED
    BY <1>3, <2>1, <2>2, QuietStep DEF snapshot
<1>4. CASE req' = Moved(r)
  <2>1. PICK d \in Calls : /\ Moved(r) = [req EXCEPT ![r] = d]
                           /\ SameCall(d, c) /\ Onward(d) /\ Len(d.todo) = n - 1
                           /\ d.answer \in {200, c.answer}
                           /\ d.todo # <<>> => Head(d.todo) \notin {"waiting", "opening"}
    BY <1>1, MovedCall
  <2>2. d.kind = "get" /\ Placed(d.task) /\ Entitled(d.tenant, d.task)
    <3>1. n \in 1..3
      BY <1>2
    <3> QED
      BY <1>1, <1>2, <2>1, <3>1 DEF Reached, SameCall
  <2>3. d.answer = 404 => c.answer = 404
    BY <2>1
  <2>4. Reached(d)
    BY <1>1, <1>2, <2>1, <2>2, <2>3 DEF Reached, SameCall
  <2> QED
    BY <1>4, <2>1, <2>4, QuietStep DEF snapshot
<1> QED
  BY <1>3, <1>4 DEF snapshot

\* get_task denies a task only when it has no row: it was deleted, or a legacy one.
LEMMA KnownKeeps ==
  ASSUME ServerInv, NEW r \in Requests, known(r)
  PROVE  ServerInv'
<1> DEFINE c == req[r]
           code == IF rows[c.task] = None THEN 404 ELSE 200
<1>1. /\ TypeOK /\ c \in Calls /\ Reached(c) /\ Fits(c.kind, "known", Len(c.todo))
  BY AtStep DEF known
<1>a. code \in {200, 404, 409, 500}
  OBVIOUS
<1> HIDE DEF code
<1>2. PICK d \in Calls : /\ Answered(r, code) = [req EXCEPT ![r] = d]
                         /\ SameCall(d, c) /\ d.todo = <<>> /\ d.answer = code
  BY <1>1, <1>a, AnsweredCall
<1>3. c.kind = "get" /\ d.kind = "get" /\ Placed(d.task) /\ d.task = c.task
  BY <1>1, <1>2 DEF Reached, SameCall, Fits
<1>4. Onward(d) /\ Len(d.todo) = 0
  BY HandlersAreSequences, <1>2 DEF Onward, Calls
<1>5. Reached(d)
  <2>1. d.answer = 404 => d.task \in deleted \/ made[d.task].by = "session_task"
    BY <1>2, <1>3 DEF Placed, Rowed, code
  <2> QED
    BY <1>3, <1>4, <2>1 DEF Reached
<1> QED
  BY <1>2, <1>4, <1>5, QuietStep DEF known, code

\* A step that touches neither the session store nor what was asked for.
LEMMA StoreKept ==
  ASSUME ServerInv, NEW r \in Requests, NEW d \in Calls, SameCall(d, req[r]),
         req' = [req EXCEPT ![r] = d], Onward(d), Reached(d),
         UNCHANGED <<rows, links, made, deleted>>
  PROVE  /\ RequestsInv' /\ RowsInv'
         /\ UNCHANGED db => ThreadsInv'
         /\ /\ db' \in [Tenants -> [Tasks -> Graphs \cup {None}]]
            /\ pool' \in [entries : SUBSET Tenants, open : [Tenants -> Nat], lock : 0..Len(req)]
            /\ background' \in [Tasks -> {"none", "live", "done"}]
            /\ faults' \in 0..MaxFaults
            => TypeOK'
<1>1. /\ req' \in Seq(Calls) /\ Len(req') = Len(req) /\ Requests' = Requests
      /\ \A q \in Requests : SameCall(req'[q], req[q])
  BY ServedRequest DEF ServerInv
<1>2. Stable
  BY QuietIsStable
<1>3. Reached(d)'
  BY DEF Reached, Rowed, Listed, Placed, Entitled
<1>4. RequestsInv'
  BY <1>2, <1>3, RequestsKept DEF ServerInv
<1>5. RowsInv'
  BY DEF ServerInv, RowsInv
<1>6. UNCHANGED db => ThreadsInv'
  BY <1>1, <1>2, ThreadsKept DEF ServerInv, SameCall
<1>7. ASSUME /\ db' \in [Tenants -> [Tasks -> Graphs \cup {None}]]
             /\ pool' \in [entries : SUBSET Tenants, open : [Tenants -> Nat], lock : 0..Len(req)]
             /\ background' \in [Tasks -> {"none", "live", "done"}]
             /\ faults' \in 0..MaxFaults
      PROVE  TypeOK'
  BY <1>1, <1>7 DEF ServerInv, TypeOK
<1> QED
  BY <1>4, <1>5, <1>6, <1>7

\* Around the pool a handler has nothing to establish.
LEMMA ReachedAtPool ==
  ASSUME NEW c \in Calls, Reached(c), Fits(c.kind, "open", Len(c.todo)),
         NEW d \in Calls, SameCall(d, c), d.answer \in {200, c.answer},
         Len(d.todo) = Len(c.todo) \/ Len(d.todo) = Len(c.todo) - 1
  PROVE  Reached(d)
<1> DEFINE n == Len(c.todo)
           m == Len(d.todo)
<1>1. \/ c.kind = "create" /\ n = 3
      \/ c.kind = "stream" /\ n = 5
      \/ c.kind \in {"get", "resume"} /\ n = 3
  BY DEF Fits
<1>2. m = n \/ m = n - 1
  OBVIOUS
<1>3. /\ c.kind \in {"create", "stream", "get", "resume"}
      /\ c.kind \in {"get", "resume", "create"} => n \in 1..3 /\ n \in 1..5
      /\ c.kind = "stream" => m \notin 1..3
  <2> HIDE DEF n, m
  <2> QED
    BY <1>1, <1>2
<1>4. /\ c.kind = "create" => Rowed(c.task)
      /\ c.kind \in {"get", "resume"} => Placed(c.task) /\ Entitled(c.tenant, c.task)
      /\ c.kind = "get" /\ c.answer = 404 =>
           \/ c.tenant # made[c.task].tenant
           \/ c.task \in deleted \/ made[c.task].by = "session_task"
  BY <1>3 DEF Reached
<1>5. d.answer = 404 => c.answer = 404
  OBVIOUS
<1> QED
  BY <1>3, <1>4, <1>5 DEF Reached, SameCall

\* The pool's shape.
LEMMA PoolTypes ==
  ASSUME TypeOK
  PROVE  /\ pool.entries \in SUBSET Tenants /\ pool.open \in [Tenants -> Nat]
         /\ pool.lock \in 0..Len(req) /\ Len(req) \in Nat
         /\ \A r \in Requests : r \in 0..Len(req) /\ r # 0
         /\ \A r \in 0..Len(req) : [pool EXCEPT !.lock = r] \in
              [entries : SUBSET Tenants, open : [Tenants -> Nat], lock : 0..Len(req)]
         /\ \A r \in 0..Len(req) : LET p == [pool EXCEPT !.lock = r] IN
              p.entries = pool.entries /\ p.open = pool.open /\ p.lock = r
<1>1. req \in Seq(Calls)
  BY DEF TypeOK
<1>2. Len(req) \in Nat
  BY <1>1
<1> DEFINE L == 0..Len(req)
<1>3. pool \in [entries : SUBSET Tenants, open : [Tenants -> Nat], lock : L]
  BY DEF TypeOK
<1>4. \A r \in Requests : r \in L /\ r # 0
  BY <1>2 DEF Requests
<1> HIDE DEF L
<1>5. pool.entries \in SUBSET Tenants /\ pool.open \in [Tenants -> Nat] /\ pool.lock \in L
  BY <1>3
<1>6. ASSUME NEW r \in L
      PROVE  LET p == [pool EXCEPT !.lock = r] IN
             /\ p \in [entries : SUBSET Tenants, open : [Tenants -> Nat], lock : L]
             /\ p.entries = pool.entries /\ p.open = pool.open /\ p.lock = r
  BY <1>3
<1> QED
  BY <1>2, <1>4, <1>5, <1>6 DEF L

\* To take the lock when it is free, without a connection, is to be its only holder.
LEMMA LockTaken ==
  ASSUME ServerInv, NEW r \in Requests, At(r, "open") \/ At(r, "waiting"),
         pool.lock = 0, req[r].tenant \notin pool.entries,
         req' = Became(r, "opening"), pool' = [pool EXCEPT !.lock = r], PoolOnly
  PROVE  ServerInv'
<1> DEFINE c == req[r]
<1>1. /\ TypeOK /\ c \in Calls /\ Onward(c) /\ Reached(c) /\ c.todo # <<>>
      /\ Head(c.todo) \in {"open", "waiting"} /\ Fits(c.kind, "open", Len(c.todo))
  BY AtStep
<1>2. PICK d \in Calls : /\ Became(r, "opening") = [req EXCEPT ![r] = d]
                         /\ SameCall(d, c) /\ d.answer = c.answer /\ Onward(d)
                         /\ Len(d.todo) = Len(c.todo)
                         /\ d.todo # <<>> /\ Head(d.todo) = "opening"
  BY <1>1, BecameCall
<1>3. Reached(d)
  BY <1>1, <1>2, ReachedAtPool
<1>4. /\ pool' \in [entries : SUBSET Tenants, open : [Tenants -> Nat], lock : 0..Len(req)]
      /\ pool'.entries = pool.entries /\ pool'.open = pool.open /\ pool'.lock = r
  BY <1>1, PoolTypes
<1>5. RequestsInv' /\ RowsInv' /\ ThreadsInv' /\ TypeOK'
  BY <1>1, <1>2, <1>3, <1>4, StoreKept DEF PoolOnly, TypeOK
<1>6. OneConnectionPerTenant'
  BY <1>4 DEF ServerInv, OneConnectionPerTenant
<1>7. /\ Requests' = Requests /\ req'[r] = d
      /\ \A q \in Requests : q # r => req'[q] = req[q]
  BY <1>1, <1>2, ServedRequest
<1>8. \A q \in Requests : ~At(q, "opening")
  BY <1>1, PoolTypes DEF ServerInv, LockInv
<1>9. LockInv'
  BY <1>2, <1>4, <1>7, <1>8 DEF LockInv, At, SameCall
<1> QED
  BY <1>5, <1>6, <1>9 DEF ServerInv

\* A handler that finds the connection goes on with it.
LEMMA ConnectionFound ==
  ASSUME ServerInv, NEW r \in Requests, At(r, "open") \/ At(r, "waiting"),
         req' = Moved(r), UNCHANGED pool, PoolOnly
  PROVE  ServerInv'
<1> DEFINE c == req[r]
<1>1. /\ TypeOK /\ c \in Calls /\ Onward(c) /\ Reached(c) /\ c.todo # <<>>
      /\ Fits(c.kind, "open", Len(c.todo))
  BY AtStep
<1>2. PICK d \in Calls : /\ Moved(r) = [req EXCEPT ![r] = d]
                         /\ SameCall(d, c) /\ Onward(d) /\ Len(d.todo) = Len(c.todo) - 1
                         /\ d.answer \in {200, c.answer}
                         /\ d.todo # <<>> => Head(d.todo) \notin {"waiting", "opening"}
  BY <1>1, MovedCall
<1>3. Reached(d)
  BY <1>1, <1>2, ReachedAtPool
<1> QED
  BY <1>2, <1>3, QuietStep DEF PoolOnly

LEMMA OpenKeeps ==
  ASSUME ServerInv, NEW r \in Requests, open(r)
  PROVE  ServerInv'
<1> DEFINE c == req[r]
<1>1. CASE c.tenant \in pool.entries
  BY <1>1, ConnectionFound DEF open
<1>2. CASE c.tenant \notin pool.entries /\ pool.lock = 0
  BY <1>2, LockTaken DEF open
<1>3. CASE c.tenant \notin pool.entries /\ pool.lock # 0
  <2>1. /\ TypeOK /\ c \in Calls /\ Onward(c) /\ Reached(c) /\ c.todo # <<>>
        /\ Head(c.todo) = "open" /\ Fits(c.kind, "open", Len(c.todo))
    BY AtStep DEF open
  <2>2. PICK d \in Calls : /\ Became(r, "waiting") = [req EXCEPT ![r] = d]
                           /\ SameCall(d, c) /\ d.answer = c.answer /\ Onward(d)
                           /\ Len(d.todo) = Len(c.todo)
                           /\ d.todo # <<>> /\ Head(d.todo) = "waiting"
    BY <2>1, BecameCall
  <2>3. Reached(d)
    BY <2>1, <2>2, ReachedAtPool
  <2>4. req' = Became(r, "waiting") /\ UNCHANGED <<rows, links, db, pool, background, made, deleted, faults>>
    BY <1>3 DEF open, PoolOnly
  <2> QED
    BY <2>2, <2>3, <2>4, QuietStep
<1> QED
  BY <1>1, <1>2, <1>3

\* The lock's next holder looks again before it opens.
LEMMA WaitedKeeps ==
  ASSUME ServerInv, NEW r \in Requests, waited(r)
  PROVE  ServerInv'
<1>1. CASE req[r].tenant \in pool.entries
  BY <1>1, ConnectionFound DEF waited
<1>2. CASE req[r].tenant \notin pool.entries
  BY <1>2, LockTaken DEF waited
<1> QED
  BY <1>1, <1>2

\* The database is opened by the one that holds the lock.
LEMMA OpeningKeeps ==
  ASSUME ServerInv, NEW r \in Requests, opening(r)
  PROVE  ServerInv'
<1> DEFINE c == req[r]
<1>1. /\ TypeOK /\ c \in Calls /\ Onward(c) /\ Reached(c) /\ c.todo # <<>>
      /\ Fits(c.kind, "open", Len(c.todo)) /\ At(r, "opening")
  BY AtStep DEF opening
<1>2. PICK d \in Calls : /\ Moved(r) = [req EXCEPT ![r] = d]
                         /\ SameCall(d, c) /\ Onward(d) /\ Len(d.todo) = Len(c.todo) - 1
                         /\ d.answer \in {200, c.answer}
                         /\ d.todo # <<>> => Head(d.todo) \notin {"waiting", "opening"}
  BY <1>1, MovedCall
<1>3. Reached(d)
  BY <1>1, <1>2, ReachedAtPool
<1>4. c.tenant \in Tenants /\ c.tenant \notin pool.entries /\ pool.lock = r
  BY <1>1 DEF Calls, ServerInv, LockInv
<1>5. /\ pool'.entries = pool.entries \cup {c.tenant}
      /\ pool'.open = opened(c.tenant) /\ pool'.lock = 0
      /\ pool' \in [entries : SUBSET Tenants, open : [Tenants -> Nat], lock : 0..Len(req)]
  BY <1>1, <1>4, PoolTypes DEF opening, opened
<1>6. RequestsInv' /\ RowsInv' /\ ThreadsInv' /\ TypeOK'
  BY <1>1, <1>2, <1>3, <1>5, StoreKept DEF PoolOnly, opening, TypeOK
<1>7. OneConnectionPerTenant'
  BY <1>1, <1>4, <1>5, PoolTypes DEF ServerInv, OneConnectionPerTenant, opened
<1>8. /\ Requests' = Requests /\ req'[r] = d
      /\ \A q \in Requests : q # r => req'[q] = req[q]
  BY <1>1, <1>2, ServedRequest DEF opening
<1>9. \A q \in Requests : q # r => ~At(q, "opening")
  BY <1>4 DEF ServerInv, LockInv
<1>10. LockInv'
  BY <1>2, <1>8, <1>9 DEF LockInv, At
<1> QED
  BY <1>6, <1>7, <1>10 DEF ServerInv

\* A step that raises answers its request, and `async with` frees the lock it held.
LEMMA RaisesKeeps ==
  ASSUME ServerInv, NEW r \in Requests, Raises(r)
  PROVE  ServerInv'
<1> DEFINE c == req[r]
           lock == IF pool.lock = r THEN 0 ELSE pool.lock
<1>1. TypeOK /\ c \in Calls /\ Reached(c) /\ c.todo # <<>>
  BY RequestTypes DEF ServerInv, RequestsInv, Raises
<1>2. PICK d \in Calls : /\ Answered(r, 500) = [req EXCEPT ![r] = d]
                         /\ SameCall(d, c) /\ d.todo = <<>> /\ d.answer = 500
  BY <1>1, AnsweredCall
<1>3. Onward(d) /\ Reached(d)
  BY <1>1, <1>2, DoneCall
<1>4. pool' = [pool EXCEPT !.lock = lock]
  BY DEF Raises
<1>5. lock \in 0..Len(req)
  BY <1>1, PoolTypes
<1>6. \A q \in Requests : q # r /\ pool.lock = q => lock = q
  OBVIOUS
<1> HIDE DEF lock
<1>7. /\ pool' \in [entries : SUBSET Tenants, open : [Tenants -> Nat], lock : 0..Len(req)]
      /\ pool'.entries = pool.entries /\ pool'.open = pool.open /\ pool'.lock = lock
  BY <1>1, <1>4, <1>5, PoolTypes
<1>8. faults' \in 0..MaxFaults
  BY <1>1, ServerAssumption DEF Raises, TypeOK
<1>9. RequestsInv' /\ RowsInv' /\ ThreadsInv' /\ TypeOK'
  <2>1. /\ db' \in [Tenants -> [Tasks -> Graphs \cup {None}]]
        /\ background' \in [Tasks -> {"none", "live", "done"}]
    BY <1>1 DEF Raises, TypeOK
  <2>2. UNCHANGED <<rows, links, made, deleted>> /\ UNCHANGED db
    BY DEF Raises
  <2>3. req' = [req EXCEPT ![r] = d]
    BY <1>2 DEF Raises
  <2>4. SameCall(d, req[r])
    BY <1>2
  <2>5. /\ RequestsInv' /\ RowsInv' /\ ThreadsInv'
        /\ /\ db' \in [Tenants -> [Tasks -> Graphs \cup {None}]]
           /\ pool' \in [entries : SUBSET Tenants, open : [Tenants -> Nat], lock : 0..Len(req)]
           /\ background' \in [Tasks -> {"none", "live", "done"}]
           /\ faults' \in 0..MaxFaults
           => TypeOK'
    BY <1>3, <2>2, <2>3, <2>4, StoreKept
  <2> QED
    BY <1>7, <1>8, <2>1, <2>5
<1>10. OneConnectionPerTenant'
  BY <1>7 DEF ServerInv, OneConnectionPerTenant
<1>11. /\ Requests' = Requests /\ req'[r] = d
       /\ \A q \in Requests : q # r => req'[q] = req[q]
  BY <1>1, <1>2, ServedRequest DEF Raises
<1>12. LockInv'
  <2>1. SUFFICES ASSUME NEW q \in Requests, At(q, "opening")'
                 PROVE  pool'.lock = q /\ req'[q].tenant \notin pool'.entries
    BY <1>11 DEF LockInv
  <2>2. q # r
    BY <2>1, <1>2, <1>11 DEF At
  <2>3. At(q, "opening") /\ req'[q] = req[q]
    BY <2>1, <2>2, <1>11 DEF At
  <2>4. pool.lock = q /\ req[q].tenant \notin pool.entries
    BY <2>3 DEF ServerInv, LockInv
  <2> QED
    BY <2>2, <2>3, <2>4, <1>6, <1>7
<1> QED
  BY <1>9, <1>10, <1>12 DEF ServerInv

-----------------------------------------------------------------------------
(***************************************************************************)
(* The steps that write a checkpoint.                                      *)
(***************************************************************************)

\* Who may write a thread: the tenant that asked for the task, or a legacy route.
LEMMA WriteIsEntitled ==
  ASSUME ServerInv, NEW r \in Requests, NEW c \in Calls, c = req[r],
         c.task \in Tasks, Placed(c.task),
         Entitled(c.tenant, c.task) \/ (c.tenant = Default /\ c.kind = "session_resume"),
         db' = Written(r), UNCHANGED <<rows, links, made, deleted>>,
         NEW d \in Calls, SameCall(d, c), req' = [req EXCEPT ![r] = d]
  PROVE  ThreadsInv' /\ db' \in [Tenants -> [Tasks -> Graphs \cup {None}]]
<1>1. TypeOK /\ c.tenant \in Tenants /\ c.graph \in Graphs
  BY DEF ServerInv, Calls
<1>2. /\ Requests' = Requests
      /\ \A q \in Requests : SameCall(req'[q], req[q])
  BY <1>1, ServedRequest
<1>3. db' = [db EXCEPT ![c.tenant][c.task] = c.graph]
  BY DEF Written
<1>4. db \in [Tenants -> [Tasks -> Graphs \cup {None}]]
  BY <1>1 DEF TypeOK
<1>5. db' \in [Tenants -> [Tasks -> Graphs \cup {None}]]
  BY <1>1, <1>3, <1>4
<1>6. \A n \in Tenants, t \in Tasks : (n = c.tenant /\ t = c.task) \/ db'[n][t] = db[n][t]
  BY <1>1, <1>3, <1>4
<1>7. \A t \in Tasks : /\ ResumedByLegacy(t) => ResumedByLegacy(t)'
                       /\ Placed(t) => Placed(t)'
                       /\ \A n \in Tenants : Entitled(n, t) => Entitled(n, t)'
  BY <1>2 DEF ResumedByLegacy, SameCall, Placed, Listed, Rowed, Entitled
<1>8. c.kind = "session_resume" => ResumedByLegacy(c.task)
  BY DEF ResumedByLegacy
<1>9. SUFFICES ASSUME NEW n \in Tenants, NEW t \in Tasks, db'[n][t] # None
               PROVE  Placed(t)' /\ (Entitled(n, t)' \/ (n = Default /\ ResumedByLegacy(t)'))
  BY <1>5 DEF ThreadsInv
<1>10. CASE n = c.tenant /\ t = c.task
  BY <1>7, <1>8, <1>10
<1>11. CASE db'[n][t] = db[n][t]
  BY <1>7, <1>9, <1>11 DEF ServerInv, ThreadsInv
<1> QED
  BY <1>6, <1>10, <1>11

\* A step that leaves the pool to the others.
LEMMA PoolUntouched ==
  ASSUME ServerInv, NEW r \in Requests, NEW d \in Calls, SameCall(d, req[r]),
         req' = [req EXCEPT ![r] = d], UNCHANGED pool,
         d.todo = <<>> \/ Head(d.todo) # "opening"
  PROVE  OneConnectionPerTenant' /\ LockInv'
         /\ pool' \in [entries : SUBSET Tenants, open : [Tenants -> Nat], lock : 0..Len(req)]
  BY PoolKept DEF ServerInv, TypeOK

LEMMA RunKeeps ==
  ASSUME ServerInv, NEW r \in Requests, run(r)
  PROVE  ServerInv'
<1>0. PICK c \in Calls : c = req[r]
  BY RequestTypes DEF ServerInv
<1> DEFINE n == Len(c.todo)
<1>1. /\ TypeOK /\ Onward(c) /\ Names(c) /\ Reached(c) /\ c.todo # <<>>
      /\ Fits(c.kind, "run", n) \/ Fits(c.kind, "resume", n)
      /\ Head(c.todo) \in {"run", "resume"} /\ Fits(c.kind, Head(c.todo), n)
  BY <1>0, AtStep DEF run
<1>2. c.kind \in {"create", "session_task", "resume", "session_resume"} /\ n = 2
  BY <1>1 DEF Fits
<1>3. PICK d \in Calls : /\ Moved(r) = [req EXCEPT ![r] = d]
                         /\ SameCall(d, c) /\ Onward(d) /\ Len(d.todo) = n - 1
                         /\ d.todo # <<>> => Head(d.todo) \notin {"waiting", "opening"}
  BY <1>0, <1>1, MovedCall
<1>4. /\ n \in 1..5 /\ n \in 1..4 /\ n \in 1..3 /\ n \in 1..2
      /\ Len(d.todo) = 1
  BY <1>2, <1>3
<1>5. c.task \in Tasks
  BY <1>1, <1>2 DEF Names
<1>6. /\ c.kind = "create" => Rowed(c.task) /\ made[c.task].by = "create"
                              /\ made[c.task].tenant = c.tenant
      /\ c.kind = "session_task" =>
           /\ c.task \in deleted \/ rows[c.session] # None
           /\ Listed(c.task) /\ made[c.task].by = "session_task"
      /\ c.kind \in {"resume", "session_resume"} => Placed(c.task)
      /\ c.kind = "resume" => Entitled(c.tenant, c.task)
      /\ c.kind = "session_resume" => c.tenant = Default
  BY <1>1, <1>4 DEF Names, Reached
<1>7. Placed(c.task)
  BY <1>2, <1>6 DEF Placed, Listed, Makers
<1>8. Entitled(c.tenant, c.task) \/ (c.tenant = Default /\ c.kind = "session_resume")
  BY <1>2, <1>6 DEF Entitled
<1>9. Reached(d)
  BY <1>2, <1>3, <1>4, <1>6 DEF Reached, SameCall
<1>10. ThreadsInv' /\ db' \in [Tenants -> [Tasks -> Graphs \cup {None}]]
  BY <1>0, <1>3, <1>5, <1>7, <1>8, WriteIsEntitled DEF run
<1>11. OneConnectionPerTenant' /\ LockInv'
       /\ pool' \in [entries : SUBSET Tenants, open : [Tenants -> Nat], lock : 0..Len(req)]
  BY <1>0, <1>3, PoolUntouched DEF run
<1>12. RequestsInv' /\ RowsInv' /\ TypeOK'
  BY <1>0, <1>1, <1>3, <1>9, <1>10, <1>11, StoreKept DEF run, TypeOK
<1> QED
  BY <1>10, <1>11, <1>12 DEF ServerInv

\* Only the tenant that asked for a streamed task starts it.
LEMMA StartKeeps ==
  ASSUME ServerInv, NEW r \in Requests, start(r)
  PROVE  ServerInv'
<1>0. PICK c \in Calls : c = req[r]
  BY RequestTypes DEF ServerInv
<1> DEFINE n == Len(c.todo)
<1>1. /\ TypeOK /\ Onward(c) /\ Names(c) /\ Reached(c) /\ c.todo # <<>> /\ Fits(c.kind, "start", n)
  BY <1>0, AtStep DEF start
<1>2. c.kind = "stream" /\ n = 1
  BY <1>1 DEF Fits
<1>3. PICK d \in Calls : /\ Moved(r) = [req EXCEPT ![r] = d]
                         /\ SameCall(d, c) /\ Onward(d) /\ Len(d.todo) = n - 1
                         /\ d.todo # <<>> => Head(d.todo) \notin {"waiting", "opening"}
  BY <1>0, <1>1, MovedCall
<1>4. n \in 1..3 /\ Len(d.todo) = 0 /\ d.kind = "stream"
  BY <1>2, <1>3 DEF SameCall
<1>5. /\ c.task \in Tasks /\ Rowed(c.task) /\ made[c.task].by = "stream"
      /\ made[c.task].tenant = c.tenant
  BY <1>1, <1>2, <1>4 DEF Names, Reached
<1>6. Placed(c.task) /\ Entitled(c.tenant, c.task)
  BY <1>5 DEF Placed, Listed, Makers, Entitled
<1>7. Reached(d)
  BY <1>1, <1>3, <1>4, EndedCall
<1>8. ThreadsInv' /\ db' \in [Tenants -> [Tasks -> Graphs \cup {None}]]
  BY <1>0, <1>3, <1>5, <1>6, WriteIsEntitled DEF start
<1>9. OneConnectionPerTenant' /\ LockInv'
      /\ pool' \in [entries : SUBSET Tenants, open : [Tenants -> Nat], lock : 0..Len(req)]
  BY <1>0, <1>3, PoolUntouched DEF start
<1>10. background' \in [Tasks -> {"none", "live", "done"}]
  BY <1>0, <1>1, <1>5 DEF start, TypeOK
<1>11. RequestsInv' /\ RowsInv' /\ TypeOK'
  BY <1>0, <1>1, <1>3, <1>7, <1>8, <1>9, <1>10, StoreKept DEF start, TypeOK
<1> QED
  BY <1>8, <1>9, <1>11 DEF ServerInv

LEMMA CancelKeeps ==
  ASSUME ServerInv, NEW r \in Requests, cancel(r)
  PROVE  ServerInv'
<1>0. PICK c \in Calls : c = req[r]
  BY RequestTypes DEF ServerInv
<1>1. TypeOK /\ Reached(c) /\ Fits(c.kind, "cancel", Len(c.todo)) /\ Names(c)
  BY <1>0, AtStep DEF cancel
<1>2. c.kind = "cancel" /\ c.task \in Tasks
  BY <1>1 DEF Fits, Names
<1>3. background' \in [Tasks -> {"none", "live", "done"}]
  BY <1>0, <1>1, <1>2 DEF cancel, TypeOK
<1>4. CASE req' = Answered(r, 200)
  <2>1. PICK d \in Calls : /\ Answered(r, 200) = [req EXCEPT ![r] = d]
                           /\ SameCall(d, c) /\ d.todo = <<>> /\ d.answer = 200
    BY <1>0, <1>1, AnsweredCall
  <2>2. Onward(d) /\ Reached(d)
    BY <1>1, <2>1, DoneCall
  <2>3. OneConnectionPerTenant' /\ LockInv'
        /\ pool' \in [entries : SUBSET Tenants, open : [Tenants -> Nat], lock : 0..Len(req)]
    BY <1>0, <1>4, <2>1, PoolUntouched DEF cancel
  <2>4. RequestsInv' /\ RowsInv' /\ ThreadsInv' /\ TypeOK'
    <3>1. /\ db' \in [Tenants -> [Tasks -> Graphs \cup {None}]]
          /\ faults' \in 0..MaxFaults
      BY <1>1 DEF cancel, TypeOK
    <3>2. UNCHANGED <<rows, links, made, deleted>> /\ UNCHANGED db
      BY DEF cancel
    <3> QED
      BY <1>0, <1>3, <1>4, <2>1, <2>2, <2>3, <3>1, <3>2, StoreKept
  <2> QED
    BY <2>3, <2>4 DEF ServerInv
<1>5. CASE req' = Answered(r, 409)
  <2>1. PICK d \in Calls : /\ Answered(r, 409) = [req EXCEPT ![r] = d]
                           /\ SameCall(d, c) /\ d.todo = <<>> /\ d.answer = 409
    BY <1>0, <1>1, AnsweredCall
  <2>2. Onward(d) /\ Reached(d)
    BY <1>1, <2>1, DoneCall
  <2>3. OneConnectionPerTenant' /\ LockInv'
        /\ pool' \in [entries : SUBSET Tenants, open : [Tenants -> Nat], lock : 0..Len(req)]
    BY <1>0, <1>5, <2>1, PoolUntouched DEF cancel
  <2>4. RequestsInv' /\ RowsInv' /\ ThreadsInv' /\ TypeOK'
    <3>1. /\ db' \in [Tenants -> [Tasks -> Graphs \cup {None}]]
          /\ faults' \in 0..MaxFaults
      BY <1>1 DEF cancel, TypeOK
    <3>2. UNCHANGED <<rows, links, made, deleted>> /\ UNCHANGED db
      BY DEF cancel
    <3> QED
      BY <1>0, <1>3, <1>5, <2>1, <2>2, <2>3, <3>1, <3>2, StoreKept
  <2> QED
    BY <2>3, <2>4 DEF ServerInv
<1> QED
  BY <1>4, <1>5 DEF cancel

-----------------------------------------------------------------------------
(***************************************************************************)
(* The steps that change the session store.                                *)
(***************************************************************************)

LEMMA StoreStep ==
  ASSUME ServerInv, NEW r \in Requests, NEW d \in Calls, SameCall(d, req[r]),
         req' = [req EXCEPT ![r] = d], Onward(d), Reached(d)',
         d.todo = <<>> \/ Head(d.todo) # "opening",
         Stable, UNCHANGED <<db, pool, background, made, faults>>, RowsInv',
         rows' \in [Ids -> Tenants \cup {None}],
         links' \subseteq { l \in Ids \X Tasks : rows'[l[1]] # None },
         deleted' \subseteq Tasks
  PROVE  ServerInv'
<1>1. /\ req' \in Seq(Calls) /\ Len(req') = Len(req) /\ Requests' = Requests
      /\ \A q \in Requests : SameCall(req'[q], req[q])
  BY ServedRequest DEF ServerInv
<1>2. TypeOK'
  BY <1>1 DEF ServerInv, TypeOK
<1>3. OneConnectionPerTenant' /\ LockInv'
  BY PoolKept DEF ServerInv
<1>4. RequestsInv'
  BY RequestsKept DEF ServerInv
<1>5. ThreadsInv'
  BY <1>1, ThreadsKept DEF ServerInv, SameCall
<1> QED
  BY <1>2, <1>3, <1>4, <1>5 DEF ServerInv

\* A row under a task's id is written by the task's own request.
LEMMA RecordKeeps ==
  ASSUME ServerInv, NEW r \in Requests, record(r)
  PROVE  ServerInv'
<1>0. PICK c \in Calls : c = req[r]
  BY RequestTypes DEF ServerInv
<1> DEFINE n == Len(c.todo)
<1>1. /\ TypeOK /\ Onward(c) /\ Names(c) /\ Reached(c) /\ c.todo # <<>> /\ Fits(c.kind, "record", n)
  BY <1>0, AtStep DEF record
<1>2. \/ c.kind = "create" /\ n = 6
      \/ c.kind = "stream" /\ n = 4
      \/ c.kind = "session_create" /\ n = 1
  BY <1>1 DEF Fits
<1>3. PICK d \in Calls : /\ Moved(r) = [req EXCEPT ![r] = d]
                         /\ SameCall(d, c) /\ Onward(d) /\ Len(d.todo) = n - 1
                         /\ d.todo # <<>> => Head(d.todo) \notin {"waiting", "opening"}
  BY <1>0, <1>1, MovedCall
<1>4. /\ c.session \in Ids /\ c.tenant \in Tenants /\ c.tenant # None
      /\ rows \in [Ids -> Tenants \cup {None}]
  BY <1>1, <1>2, ServerAssumption DEF Names, Calls, Ids, TypeOK
<1>5. /\ rows' = [rows EXCEPT ![c.session] = c.tenant]
      /\ UNCHANGED <<links, db, pool, background, made, deleted, faults>>
      /\ req' = [req EXCEPT ![r] = d]
  BY <1>0, <1>3 DEF record
<1>6. /\ rows' \in [Ids -> Tenants \cup {None}]
      /\ rows'[c.session] = c.tenant
      /\ \A i \in Ids : i # c.session => rows'[i] = rows[i]
      /\ \A i \in Ids : rows[i] # None => rows'[i] # None
  BY <1>4, <1>5
<1>7. Tasks \subseteq Ids
  BY DEF Ids
<1>8. Stable
  <2>1. \A t \in Tasks : (Rowed(t) => Rowed(t)') /\ (Listed(t) => Listed(t)')
    BY <1>5, <1>6, <1>7 DEF Rowed, Listed
  <2>2. ASSUME NEW q \in Requests, req[q].kind = "session_task", rows[req[q].session] # None
        PROVE  rows'[req[q].session] # None
    <3>1. req[q].session \in Ids
      BY <2>2 DEF ServerInv, RequestsInv, Names
    <3> QED
      BY <2>2, <3>1, <1>6
  <2> QED
    BY <1>5, <2>1, <2>2 DEF Stable
<1>9. ASSUME NEW t \in Tasks, rows'[t] # None
      PROVE  made'[t].by \in {"create", "stream"} /\ rows'[t] = made'[t].tenant
  <2>1. CASE t = c.session
    <3>1. c.kind # "session_create"
      BY <1>1, <2>1, ServerAssumption DEF Names
    <3> QED
      BY <1>1, <1>2, <1>5, <1>6, <2>1, <3>1 DEF Names
  <2>2. CASE t # c.session
    BY <1>5, <1>6, <1>7, <1>9, <2>2 DEF ServerInv, RowsInv
  <2> QED
    BY <2>1, <2>2
<1>10. RowsInv'
  BY <1>9 DEF RowsInv
<1>11. links' \subseteq { l \in Ids \X Tasks : rows'[l[1]] # None }
  BY <1>1, <1>5, <1>6 DEF TypeOK
<1>12. Reached(d)'
  <2>1. c.kind \in {"create", "stream"} => Rowed(c.task)'
    BY <1>1, <1>4, <1>6 DEF Names, Rowed
  <2> QED
    BY <1>2, <1>3, <2>1 DEF Reached, SameCall
<1>13. deleted' \subseteq Tasks
  BY <1>1, <1>5 DEF TypeOK
<1> QED
  BY <1>0, <1>3, <1>5, <1>6, <1>8, <1>10, <1>11, <1>12, <1>13, StoreStep

\* The INSERT finds the row, and the list shows the task; or the handler fails.
LEMMA LinkKeeps ==
  ASSUME ServerInv, NEW r \in Requests, link(r)
  PROVE  ServerInv'
<1>0. PICK c \in Calls : c = req[r]
  BY RequestTypes DEF ServerInv
<1> DEFINE n == Len(c.todo)
<1>1. /\ TypeOK /\ Onward(c) /\ Names(c) /\ Reached(c) /\ c.todo # <<>> /\ Fits(c.kind, "link", n)
  BY <1>0, AtStep DEF link
<1>2. \/ c.kind = "create" /\ n = 4
      \/ c.kind = "stream" /\ n = 2
      \/ c.kind = "session_task" /\ n = 3
  BY <1>1 DEF Fits
<1>3. UNCHANGED <<rows, db, pool, background, made, deleted, faults>>
  BY DEF link
<1>4. CASE rows[c.session] = None
  <2>1. PICK d \in Calls : /\ Answered(r, 500) = [req EXCEPT ![r] = d]
                           /\ SameCall(d, c) /\ d.todo = <<>> /\ d.answer = 500
    BY <1>0, <1>1, AnsweredCall
  <2>2. Onward(d) /\ Reached(d)
    BY <1>1, <2>1, DoneCall
  <2> QED
    BY <1>0, <1>4, <2>1, <2>2, QuietStep DEF link
<1>5. CASE rows[c.session] # None
  <2>1. PICK d \in Calls : /\ Moved(r) = [req EXCEPT ![r] = d]
                           /\ SameCall(d, c) /\ Onward(d) /\ Len(d.todo) = n - 1
                           /\ d.todo # <<>> => Head(d.todo) \notin {"waiting", "opening"}
    BY <1>0, <1>1, MovedCall
  <2>2. links' = links \cup {<<c.session, c.task>>} /\ req' = [req EXCEPT ![r] = d]
    BY <1>0, <1>5, <2>1 DEF link
  <2>3. c.session \in Ids /\ c.task \in Tasks
    BY <1>1, <1>2 DEF Names, Ids
  <2>4. links' \subseteq { l \in Ids \X Tasks : rows'[l[1]] # None }
    BY <1>1, <1>3, <1>5, <2>2, <2>3 DEF TypeOK
  <2>5. \A t \in Tasks : (Rowed(t) <=> Rowed(t)') /\ (Listed(t) => Listed(t)')
    BY <1>3, <2>2 DEF Rowed, Listed
  <2>6. Stable
    BY <1>3, <2>5 DEF Stable
  <2>7. Listed(c.task)'
    BY <2>2, <2>3 DEF Listed
  <2>8. /\ c.kind \in {"create", "stream"} => Rowed(c.task)
        /\ c.kind = "session_task" => c.task \in deleted \/ rows[c.session] # None
    <3>1. /\ c.kind = "create" => n \in 1..5
          /\ c.kind = "stream" => n \in 1..3
          /\ c.kind = "session_task" => n \in 1..4
      BY <1>2
    <3> QED
      BY <1>1, <1>2, <3>1 DEF Reached
  <2>9. Reached(d)'
    BY <1>2, <1>3, <2>1, <2>3, <2>5, <2>7, <2>8 DEF Reached, SameCall
  <2>10. RowsInv'
    BY <1>3 DEF ServerInv, RowsInv
  <2>11. rows' \in [Ids -> Tenants \cup {None}] /\ deleted' \subseteq Tasks
    BY <1>1, <1>3 DEF TypeOK
  <2> QED
    BY <1>0, <1>3, <2>1, <2>2, <2>4, <2>6, <2>9, <2>10, <2>11, StoreStep
<1> QED
  BY <1>4, <1>5

\* A deleted session takes its links along; its tasks are on record as deleted.
LEMMA DeleteKeeps ==
  ASSUME ServerInv, NEW r \in Requests, delete(r)
  PROVE  ServerInv'
<1>0. PICK c \in Calls : c = req[r]
  BY RequestTypes DEF ServerInv
<1> DEFINE n == Len(c.todo)
           s == c.session
<1>1. /\ TypeOK /\ Onward(c) /\ Names(c) /\ Reached(c) /\ c.todo # <<>> /\ Fits(c.kind, "delete", n)
  BY <1>0, AtStep DEF delete
<1>2. c.kind = "session_delete" /\ n = 1 /\ s \in Ids
  BY <1>1 DEF Fits, Names
<1>3. /\ rows' = [rows EXCEPT ![s] = None] /\ links' = cascade(s)
      /\ UNCHANGED <<db, pool, background, made, faults>>
      /\ req' = Answered(r, 404) \/ req' = Moved(r)
      /\ deleted' = deleted \cup { t \in Tasks : t = s \/ <<s, t>> \in links
                                     \/ \E q \in Requests : /\ req[q].kind \in Makers
                                                            /\ req[q].session = s /\ req[q].task = t }
  BY <1>0 DEF delete
<1>4. /\ rows \in [Ids -> Tenants \cup {None}] /\ deleted \subseteq Tasks
      /\ links \subseteq { l \in Ids \X Tasks : rows[l[1]] # None } /\ Tasks \subseteq Ids
  BY <1>1 DEF TypeOK, Ids
<1>5. /\ rows' \in [Ids -> Tenants \cup {None}] /\ rows'[s] = None
      /\ \A i \in Ids : i # s => rows'[i] = rows[i]
  BY <1>2, <1>3, <1>4
<1>6. links' \subseteq { l \in Ids \X Tasks : rows'[l[1]] # None }
  BY <1>3, <1>4, <1>5 DEF cascade
<1>7. deleted' \subseteq Tasks
  BY <1>3, <1>4
<1>8. \A t \in Tasks : Rowed(t) => Rowed(t)'
  BY <1>3, <1>4, <1>5 DEF Rowed
<1>9. \A t \in Tasks : Listed(t) => Listed(t)'
  <2>1. SUFFICES ASSUME NEW t \in Tasks, NEW i \in Ids, <<i, t>> \in links
                 PROVE  t \in deleted' \/ <<i, t>> \in links'
    BY <1>8 DEF Listed, Rowed
  <2>2. CASE i = s
    BY <1>3, <2>1, <2>2
  <2>3. CASE i # s
    BY <1>3, <2>1, <2>3 DEF cascade
  <2> QED
    BY <2>2, <2>3
<1>10. ASSUME NEW q \in Requests, req[q].kind = "session_task", rows[req[q].session] # None
       PROVE  rows'[req[q].session] # None \/ req[q].task \in deleted'
  <2>1. req[q].session \in Ids /\ req[q].task \in Tasks
    BY <1>10 DEF ServerInv, RequestsInv, Names
  <2>2. CASE req[q].session = s
    BY <1>3, <1>10, <2>1, <2>2 DEF Makers
  <2>3. CASE req[q].session # s
    BY <1>5, <1>10, <2>1, <2>3
  <2> QED
    BY <2>2, <2>3
<1>11. Stable
  BY <1>3, <1>8, <1>9, <1>10 DEF Stable
<1>12. RowsInv'
  BY <1>3, <1>4, <1>5 DEF ServerInv, RowsInv
<1>13. PICK d \in Calls : req' = [req EXCEPT ![r] = d] /\ SameCall(d, c) /\ d.todo = <<>>
  <2>1. CASE req' = Answered(r, 404)
    BY <1>0, <1>1, <2>1, AnsweredCall
  <2>2. CASE req' = Moved(r)
    <3>1. Moved(r) = Answered(r, 200)
      BY <1>0, <1>2 DEF Moved
    <3> QED
      BY <1>0, <1>1, <2>2, <3>1, AnsweredCall
  <2> QED
    BY <1>3, <2>1, <2>2
<1>14. Onward(d)
  BY <1>13, HandlersAreSequences DEF Onward, Calls
<1>15. Reached(d)'
  BY <1>2, <1>13 DEF Reached, SameCall
<1> QED
  BY <1>0, <1>3, <1>5, <1>6, <1>7, <1>11, <1>12, <1>13, <1>14, <1>15, StoreStep

-----------------------------------------------------------------------------
(***************************************************************************)
(* Requests arrive, runs end, the process restarts.                        *)
(***************************************************************************)

LEMMA SendStep ==
  ASSUME ServerInv, Send, NEW c \in Calls, req' = Append(req, c), c.todo = Handlers[c.kind],
         made' \in [Tasks -> [by : Makers \cup {None}, tenant : Tenants, graph : Graphs]],
         \A t \in Tasks : made[t].by \in Makers => made'[t] = made[t],
         Names(c)', Reached(c)'
  PROVE  ServerInv'
<1>1. /\ UNCHANGED <<rows, links, db, pool, background, deleted, faults>>
      /\ Len(req) < MaxRequests
  BY DEF Send
<1>2. req \in Seq(Calls) /\ Len(req) \in Nat /\ MaxRequests \in Nat
  BY ServerAssumption DEF ServerInv, TypeOK
<1>3. /\ req' \in Seq(Calls) /\ Len(req') = Len(req) + 1
      /\ req'[Len(req) + 1] = c
      /\ \A q \in 1..Len(req) : req'[q] = req[q]
  BY <1>2
<1>4. /\ Requests \subseteq Requests' /\ Requests' = Requests \cup {Len(req) + 1}
      /\ \A q \in Requests : req'[q] = req[q]
      /\ Len(req') <= MaxRequests
      /\ \A n \in 0..Len(req) : n \in 0..Len(req')
  BY <1>1, <1>2, <1>3 DEF Requests
<1>5. Stable
  BY <1>1 DEF Stable, Rowed, Listed
<1>6. TypeOK'
  <2>1. pool' \in [entries : SUBSET Tenants, open : [Tenants -> Nat], lock : 0..Len(req')]
    <3>1. pool \in [entries : SUBSET Tenants, open : [Tenants -> Nat], lock : 0..Len(req)]
      BY DEF ServerInv, TypeOK
    <3> QED
      BY <1>1, <1>4, <3>1
  <2> QED
    BY <1>1, <1>3, <1>4, <2>1 DEF ServerInv, TypeOK
<1>7. OneConnectionPerTenant'
  BY <1>1 DEF ServerInv, OneConnectionPerTenant
<1>8. c.kind \in Kinds /\ Handlers[c.kind] \in Seq(Steps) /\ Len(Handlers[c.kind]) \in 1..6
  BY HandlersAreSequences DEF Calls
<1>9. Head(c.todo) = Handlers[c.kind][1] /\ Handlers[c.kind][1] \notin {"waiting", "opening"}
  <2>1. 1 \in 1..Len(Handlers[c.kind])
    <3> DEFINE h == Len(Handlers[c.kind])
    <3>1. h \in 1..6
      BY <1>8
    <3> HIDE DEF h
    <3>2. 1 \in 1..h
      BY <3>1
    <3> QED
      BY <3>2 DEF h
  <2>2. Handlers[c.kind][1] \notin {"waiting", "opening"}
    BY <1>8, <2>1, WhereSteps
  <2>3. c.todo \in Seq(Steps) /\ Len(c.todo) \in 1..6 /\ c.todo[1] = Handlers[c.kind][1]
    BY <1>8
  <2>4. Head(c.todo) = c.todo[1]
    BY <2>3
  <2> QED
    BY <2>2, <2>3, <2>4
<1>10. LockInv'
  <2>1. SUFFICES ASSUME NEW q \in Requests', At(q, "opening")'
                 PROVE  pool'.lock = q /\ req'[q].tenant \notin pool'.entries
    BY DEF LockInv
  <2>2. q # Len(req) + 1
    BY <1>3, <1>9, <2>1 DEF At
  <2>3. q \in Requests /\ req'[q] = req[q]
    BY <1>4, <2>1, <2>2
  <2>4. At(q, "opening")
    BY <2>1, <2>3 DEF At
  <2> QED
    BY <1>1, <2>3, <2>4 DEF ServerInv, LockInv
<1>11. Onward(c)
  <2>1. Len(c.todo) = Len(Handlers[c.kind]) /\ Len(c.todo) \in Nat
    BY <1>8
  <2>2. Len(Handlers[c.kind]) - Len(c.todo) = 0
    BY <2>1
  <2>3. \A i \in 1..Len(c.todo) : 0 + i = i
    BY <2>1
  <2> QED
    BY <2>1, <2>2, <2>3 DEF Onward
<1>12. RequestsInv'
  <2>1. SUFFICES ASSUME NEW q \in Requests'
                 PROVE  Onward(req'[q]) /\ Names(req[q])' /\ Reached(req[q])'
    BY DEF RequestsInv, Onward
  <2>2. CASE q \in Requests
    <3>1. Onward(req[q]) /\ Names(req[q]) /\ Reached(req[q]) /\ req[q] \in Calls
      BY <2>2, RequestTypes DEF ServerInv, RequestsInv
    <3>2. PICK e \in Calls : e = req[q]
      BY <3>1
    <3>3. Names(e)' /\ Reached(e)' /\ Onward(e)
      BY <1>5, <2>2, <3>1, <3>2, OthersStay
    <3>4. req'[q] = e
      BY <1>4, <2>2, <3>2
    <3> QED
      BY <3>3, <3>4 DEF Names, Reached
  <2>3. CASE q = Len(req) + 1
    <3>1. req'[q] = c
      BY <1>3, <2>3
    <3> QED
      BY <3>1, <1>11 DEF Names, Reached
  <2> QED
    BY <1>4, <2>1, <2>2, <2>3
<1>13. RowsInv'
  BY <1>1 DEF ServerInv, RowsInv, Makers
<1>14. ThreadsInv'
  BY <1>1, <1>4, <1>5, ThreadsKept DEF ServerInv
<1> QED
  BY <1>6, <1>7, <1>10, <1>12, <1>13, <1>14 DEF ServerInv

\* A handler is its list of awaits.
LEMMA NewCall ==
  ASSUME NEW kind \in Kinds, NEW n \in Tenants, NEW t \in Tasks \cup {None},
         NEW s \in Ids \cup {None}, NEW g \in Graphs
  PROVE  [kind |-> kind, todo |-> Handlers[kind], tenant |-> n, task |-> t,
          session |-> s, graph |-> g, answer |-> 0] \in Calls
<1>1. Handlers[kind] \in Seq(Steps)
  BY HandlersAreSequences
<1> QED
  BY <1>1 DEF Calls

\* A new task's request, with the task on record as asked for.
LEMMA SendNewKeeps ==
  ASSUME ServerInv, SendNew
  PROVE  ServerInv'
<1>1. PICK t \in Tasks : /\ made[t].by = None
                         /\ \/ \E kind \in {"create", "stream"}, n \in Tenants, g \in Graphs :
                                 /\ Call(kind, n, t, t, g)
                                 /\ made' = [made EXCEPT ![t] = [by |-> kind, tenant |-> n, graph |-> g]]
                            \/ \E s \in Ids :
                                 /\ rows[s] # None
                                 /\ Call("session_task", Default, t, s, DefaultGraph)
                                 /\ made' = [made EXCEPT ![t] = [by |-> "session_task", tenant |-> Default,
                                                                  graph |-> DefaultGraph]]
  <2> DEFINE u == CHOOSE t \in Tasks : made[t].by = None
  <2>1. u \in Tasks /\ made[u].by = None
    BY DEF SendNew
  <2> HIDE DEF u
  <2>2. \/ \E kind \in {"create", "stream"}, n \in Tenants, g \in Graphs :
             /\ Call(kind, n, u, u, g)
             /\ made' = [made EXCEPT ![u] = [by |-> kind, tenant |-> n, graph |-> g]]
        \/ \E s \in Ids :
             /\ rows[s] # None
             /\ Call("session_task", Default, u, s, DefaultGraph)
             /\ made' = [made EXCEPT ![u] = [by |-> "session_task", tenant |-> Default,
                                              graph |-> DefaultGraph]]
    BY DEF SendNew, u
  <2> QED
    BY <2>1, <2>2
<1>2. Send
  BY DEF SendNew
<1>3. /\ made \in [Tasks -> [by : Makers \cup {None}, tenant : Tenants, graph : Graphs]]
      /\ Default \in Tenants /\ DefaultGraph \in Graphs /\ None \notin Makers
  BY ServerAssumption DEF ServerInv, TypeOK
<1>4. \A u \in Tasks : made[u].by \in Makers => u # t
  BY <1>1, <1>3
<1>5. Len(Handlers["create"]) = 6 /\ Len(Handlers["stream"]) = 5 /\ Len(Handlers["session_task"]) = 5
  BY HandlerLengths
<1>6. ASSUME NEW kind \in {"create", "stream"}, NEW n \in Tenants, NEW g \in Graphs,
             Call(kind, n, t, t, g),
             made' = [made EXCEPT ![t] = [by |-> kind, tenant |-> n, graph |-> g]]
      PROVE  ServerInv'
  <2> DEFINE c == [kind |-> kind, todo |-> Handlers[kind], tenant |-> n, task |-> t,
                   session |-> t, graph |-> g, answer |-> 0]
  <2>1. c \in Calls
    <3>1. kind \in Kinds /\ t \in Ids \cup {None}
      BY KindNames DEF Ids
    <3> QED
      BY <3>1, NewCall
  <2>2. /\ c.kind = kind /\ c.todo = Handlers[kind] /\ c.tenant = n /\ c.task = t
        /\ c.session = t /\ c.answer = 0
    OBVIOUS
  <2>3. req' = Append(req, c)
    BY <1>6 DEF Call
  <2> HIDE DEF c
  <2>4. /\ made' \in [Tasks -> [by : Makers \cup {None}, tenant : Tenants, graph : Graphs]]
        /\ made'[t].by = kind /\ made'[t].tenant = n
        /\ \A u \in Tasks : u # t => made'[u] = made[u]
    BY <1>3, <1>6 DEF Makers
  <2>5. Names(c)'
    BY <2>2, <2>4 DEF Names
  <2>6. Reached(c)'
    BY <2>2, <1>5 DEF Reached
  <2> QED
    BY <1>2, <1>4, <2>1, <2>2, <2>3, <2>4, <2>5, <2>6, SendStep
<1>7. ASSUME NEW s \in Ids,
             Call("session_task", Default, t, s, DefaultGraph),
             made' = [made EXCEPT ![t] = [by |-> "session_task", tenant |-> Default,
                                           graph |-> DefaultGraph]]
      PROVE  ServerInv'
  <2> DEFINE c == [kind |-> "session_task", todo |-> Handlers["session_task"], tenant |-> Default,
                   task |-> t, session |-> s, graph |-> DefaultGraph, answer |-> 0]
  <2>1. c \in Calls
    <3>1. "session_task" \in Kinds
      BY KindNames
    <3> QED
      BY <1>3, <3>1, NewCall
  <2>2. /\ c.kind = "session_task" /\ c.todo = Handlers["session_task"] /\ c.tenant = Default
        /\ c.task = t /\ c.session = s /\ c.answer = 0
    OBVIOUS
  <2>3. req' = Append(req, c)
    BY <1>7 DEF Call
  <2> HIDE DEF c
  <2>4. /\ made' \in [Tasks -> [by : Makers \cup {None}, tenant : Tenants, graph : Graphs]]
        /\ made'[t].by = "session_task"
        /\ \A u \in Tasks : u # t => made'[u] = made[u]
    BY <1>3, <1>7 DEF Makers
  <2>5. Names(c)'
    BY <2>2, <2>4 DEF Names
  <2>6. Reached(c)'
    BY <2>2, <1>5 DEF Reached
  <2> QED
    BY <1>2, <1>4, <2>1, <2>2, <2>3, <2>4, <2>5, <2>6, SendStep
<1> QED
  BY <1>1, <1>6, <1>7

\* A task that a client knows of was asked for and is in its place.
LEMMA KnownIsPlaced ==
  ASSUME ServerInv, NEW t \in Tasks, Known(t)
  PROVE  Placed(t)
<1>1. CASE rows[t] # None
  BY <1>1 DEF ServerInv, RowsInv, Placed, Listed, Rowed, Makers
<1>2. CASE \E n \in Tenants : db[n][t] # None
  BY <1>2 DEF ServerInv, ThreadsInv
<1> QED
  BY <1>1, <1>2 DEF Known

LEMMA SendKnownKeeps ==
  ASSUME ServerInv, SendKnown
  PROVE  ServerInv'
<1>1. /\ Send /\ UNCHANGED made /\ UNCHANGED <<rows, links, deleted>>
      /\ made \in [Tasks -> [by : Makers \cup {None}, tenant : Tenants, graph : Graphs]]
      /\ Default \in Tenants /\ DefaultGraph \in Graphs
  BY ServerAssumption DEF SendKnown, Send, ServerInv, TypeOK
<1>2. ASSUME NEW kind \in Kinds, NEW n \in Tenants, NEW t \in Tasks \cup {None},
             NEW s \in Ids \cup {None}, Call(kind, n, t, s, DefaultGraph),
             kind \notin {"create", "stream", "session_task"},
             kind \in {"events", "cancel", "get", "resume", "session_resume"} =>
               t \in Tasks /\ Known(t),
             kind = "session_resume" => n = Default /\ s \in Ids,
             kind = "session_create" => s \in Sessions,
             kind = "session_delete" => s \in Ids
      PROVE  ServerInv'
  <2> DEFINE c == [kind |-> kind, todo |-> Handlers[kind], tenant |-> n, task |-> t,
                   session |-> s, graph |-> DefaultGraph, answer |-> 0]
  <2>1. c \in Calls
    BY <1>1, NewCall
  <2>2. /\ c.kind = kind /\ c.todo = Handlers[kind] /\ c.tenant = n /\ c.task = t
        /\ c.session = s /\ c.answer = 0
    OBVIOUS
  <2>3. req' = Append(req, c)
    BY <1>2 DEF Call
  <2> HIDE DEF c
  <2>4. kind \in {"events", "cancel", "get", "resume", "session_resume"} => Placed(t)'
    <3>1. kind \in {"events", "cancel", "get", "resume", "session_resume"} => Placed(t)
      BY <1>2, KnownIsPlaced
    <3> QED
      BY <1>1, <3>1 DEF Placed, Listed, Rowed
  <2>5. Names(c)'
    BY <1>2, <2>2 DEF Names
  <2>6. Reached(c)'
    <3>1. kind \in {"get", "resume"} => Len(c.todo) = 4
      BY <2>2, HandlerLengths
    <3> QED
      BY <1>2, <2>2, <2>4, <3>1 DEF Reached
  <2> QED
    BY <1>1, <2>1, <2>2, <2>3, <2>5, <2>6, SendStep
<1>3. \/ \E kind \in {"events", "cancel", "get", "resume"}, n \in Tenants, t \in Tasks :
           Known(t) /\ Call(kind, n, t, None, DefaultGraph)
      \/ \E s \in Ids, t \in Tasks :
           Known(t) /\ Call("session_resume", Default, t, s, DefaultGraph)
      \/ \E s \in Sessions : Call("session_create", Default, None, s, DefaultGraph)
      \/ \E s \in Ids : Call("session_delete", Default, None, s, DefaultGraph)
  BY DEF SendKnown
<1>4. CASE \E kind \in {"events", "cancel", "get", "resume"}, n \in Tenants, t \in Tasks :
             Known(t) /\ Call(kind, n, t, None, DefaultGraph)
  BY <1>2, <1>4, KindNames
<1>5. CASE \E s \in Ids, t \in Tasks :
             Known(t) /\ Call("session_resume", Default, t, s, DefaultGraph)
  BY <1>1, <1>2, <1>5, KindNames
<1>6. CASE \E s \in Sessions : Call("session_create", Default, None, s, DefaultGraph)
  BY <1>1, <1>2, <1>6, KindNames DEF Ids
<1>7. CASE \E s \in Ids : Call("session_delete", Default, None, s, DefaultGraph)
  BY <1>1, <1>2, <1>7, KindNames
<1> QED
  BY <1>3, <1>4, <1>5, <1>6, <1>7

LEMMA BackgroundEndsKeeps ==
  ASSUME ServerInv, NEW t \in Tasks, BackgroundEnds(t)
  PROVE  ServerInv'
<1>1. UNCHANGED <<rows, links, db, pool, req, made, deleted, faults>>
  BY DEF BackgroundEnds
<1>2. TypeOK'
  BY <1>1 DEF ServerInv, TypeOK, BackgroundEnds, Requests
<1>3. OneConnectionPerTenant' /\ LockInv' /\ RowsInv'
  BY <1>1 DEF ServerInv, OneConnectionPerTenant, LockInv, RowsInv, Requests, At
<1>4. RequestsInv'
  <2>1. Requests' = Requests
    BY <1>1 DEF Requests
  <2>2. SUFFICES ASSUME NEW r \in Requests
                 PROVE  Onward(req[r])' /\ Names(req[r])' /\ Reached(req[r])'
    BY <2>1 DEF RequestsInv
  <2>3. Onward(req[r]) /\ Names(req[r]) /\ Reached(req[r])
    BY DEF ServerInv, RequestsInv
  <2>4. Onward(req[r])' /\ Names(req[r])'
    BY <1>1, <2>3 DEF Onward, Names
  <2>5. \A u \in Tasks \cup {None} : (Rowed(u)' <=> Rowed(u)) /\ (Listed(u)' <=> Listed(u))
    BY <1>1 DEF Rowed, Listed
  <2>6. Reached(req[r])'
    <3>1. req[r].task \in Tasks \cup {None}
      BY RequestTypes DEF ServerInv
    <3> QED
      BY <1>1, <2>3, <2>5, <3>1 DEF Reached, Placed, Entitled
  <2> QED
    BY <2>4, <2>6
<1>5. ThreadsInv'
  BY <1>1 DEF ServerInv, ThreadsInv, Requests, ResumedByLegacy, Placed, Listed, Rowed, Entitled
<1> QED
  BY <1>2, <1>3, <1>4, <1>5 DEF ServerInv

\* A restart answers what was running and keeps what is in the databases.
LEMMA RestartKeeps ==
  ASSUME ServerInv, Restart
  PROVE  ServerInv'
<1>1. /\ UNCHANGED <<rows, links, db, made, deleted>> /\ pool' = Booted
      /\ background' = [t \in Tasks |-> "none"]
      /\ req' = [r \in Requests |-> IF req[r].todo = <<>> THEN req[r] ELSE Answered(r, 500)[r]]
  BY DEF Restart
<1>2. TypeOK /\ req \in Seq(Calls) /\ Len(req) \in Nat
  BY DEF ServerInv, TypeOK
<1>3. \A r \in Requests : Answered(r, 500)[r] = Closed(req[r], 500)
  <2>1. SUFFICES ASSUME NEW r \in Requests
                 PROVE  Answered(r, 500)[r] = Closed(req[r], 500)
    OBVIOUS
  <2>2. r \in DOMAIN req
    BY <1>2 DEF Requests
  <2>3. Answered(r, 500) = [req EXCEPT ![r] = Closed(req[r], 500)]
    BY DEF Answered, Closed
  <2> QED
    BY <2>2, <2>3
<1>4. \A r \in Requests : /\ req'[r] \in Calls /\ SameCall(req'[r], req[r]) /\ req'[r].todo = <<>>
                          /\ req'[r].answer = 404 => req[r].answer = 404
                          /\ Onward(req'[r])
  <2>1. SUFFICES ASSUME NEW r \in Requests
                 PROVE  /\ req'[r] \in Calls /\ SameCall(req'[r], req[r]) /\ req'[r].todo = <<>>
                        /\ req'[r].answer = 404 => req[r].answer = 404
                        /\ Onward(req'[r])
    OBVIOUS
  <2>2. req[r] \in Calls
    BY <1>2, RequestTypes
  <2>3. CASE req[r].todo = <<>>
    <3>1. req'[r] = req[r]
      BY <1>1, <2>3
    <3>2. Onward(req[r])
      BY DEF ServerInv, RequestsInv
    <3> QED
      BY <2>2, <2>3, <3>1, <3>2 DEF SameCall
  <2>4. CASE req[r].todo # <<>>
    <3>1. req'[r] = Closed(req[r], 500)
      BY <1>1, <1>3, <2>4
    <3>2. /\ req'[r] \in Calls /\ SameCall(req'[r], req[r])
          /\ req'[r].todo = <<>> /\ req'[r].answer = 500
      BY <2>2, <3>1, ClosedCall
    <3>3. Onward(req'[r])
      BY <3>2, HandlersAreSequences DEF Onward, Calls
    <3> QED
      BY <3>2, <3>3
  <2> QED
    BY <2>3, <2>4
<1>5. req' \in Seq(Calls) /\ Len(req') = Len(req) /\ Requests' = Requests
  BY <1>1, <1>2, <1>4 DEF Requests
<1>6. TypeOK'
  <2>1. pool' \in [entries : SUBSET Tenants, open : [Tenants -> Nat], lock : 0..Len(req')]
    <3>1. [n \in Tenants |-> IF n = Default THEN 1 ELSE 0] \in [Tenants -> Nat]
      OBVIOUS
    <3>2. {Default} \in SUBSET Tenants /\ 0 \in 0..Len(req')
      BY <1>2, <1>5, ServerAssumption
    <3> QED
      BY <1>1, <3>1, <3>2 DEF Booted
  <2>2. faults' \in 0..MaxFaults
    BY <1>2, ServerAssumption DEF Restart, TypeOK
  <2> QED
    BY <1>1, <1>2, <1>5, <2>1, <2>2 DEF TypeOK
<1>7. OneConnectionPerTenant'
  BY <1>1 DEF OneConnectionPerTenant, Booted
<1>8. LockInv'
  BY <1>4, <1>5 DEF LockInv, At
<1>9. RowsInv'
  BY <1>1 DEF ServerInv, RowsInv
<1>10. Stable
  BY <1>1, QuietIsStable
<1>11. ThreadsInv'
  <2>1. UNCHANGED db /\ Requests \subseteq Requests'
    BY <1>1, <1>5
  <2>2. \A q \in Requests : req'[q].kind = req[q].kind /\ req'[q].task = req[q].task
    BY <1>4 DEF SameCall
  <2> QED
    BY <1>10, <2>1, <2>2, ThreadsKept DEF ServerInv
<1>12. RequestsInv'
  <2>1. SUFFICES ASSUME NEW r \in Requests
                 PROVE  Onward(req'[r]) /\ Names(req[r])' /\ Reached(req[r])'
    BY <1>5 DEF RequestsInv, Onward
  <2>2. Names(req[r]) /\ Reached(req[r]) /\ req[r] \in Calls
    BY <1>2, RequestTypes DEF ServerInv, RequestsInv
  <2>3. PICK c \in Calls : c = req[r]
    BY <2>2
  <2>4. PICK d \in Calls : d = req'[r]
    BY <1>4
  <2>5. SameCall(d, c) /\ Len(d.todo) = 0 /\ (d.answer = 404 => c.answer = 404)
    BY <1>4, <2>3, <2>4
  <2>6. Names(c)' /\ Reached(c)'
    BY <1>10, <2>2, <2>3, OthersStay
  <2>7. Names(d)'
    BY <2>5, <2>6 DEF Names, SameCall
  <2>8. Reached(d)'
    BY <2>5, <2>6 DEF Reached, SameCall
  <2> QED
    BY <1>4, <2>4, <2>7, <2>8 DEF Names, Reached
<1> QED
  BY <1>6, <1>7, <1>8, <1>9, <1>11, <1>12 DEF ServerInv

-----------------------------------------------------------------------------
(***************************************************************************)
(* The theorems.                                                           *)
(***************************************************************************)

LEMMA InitInv == Init => ServerInv
<1> SUFFICES ASSUME Init PROVE ServerInv
  OBVIOUS
<1>1. req = <<>> /\ Requests = {} /\ Len(req) = 0
  <2>1. req = <<>> /\ Len(req) = 0
    BY DEF Init
  <2> QED
    BY <2>1 DEF Requests
<1>2. TypeOK
  <2>1. req \in Seq(Calls) /\ Len(req) <= MaxRequests /\ faults \in 0..MaxFaults
    BY <1>1, ServerAssumption DEF Init
  <2>2. pool \in [entries : SUBSET Tenants, open : [Tenants -> Nat], lock : 0..Len(req)]
    <3>1. [n \in Tenants |-> IF n = Default THEN 1 ELSE 0] \in [Tenants -> Nat]
      OBVIOUS
    <3>2. {Default} \in SUBSET Tenants /\ 0 \in 0..Len(req)
      BY <1>1, ServerAssumption
    <3> QED
      BY <3>1, <3>2 DEF Init, Booted
  <2>3. made \in [Tasks -> [by : Makers \cup {None}, tenant : Tenants, graph : Graphs]]
    BY ServerAssumption DEF Init
  <2> QED
    BY <2>1, <2>2, <2>3 DEF Init, TypeOK
<1>3. OneConnectionPerTenant
  BY DEF Init, Booted, OneConnectionPerTenant
<1>4. LockInv /\ RequestsInv
  BY <1>1 DEF LockInv, RequestsInv
<1>5. RowsInv
  BY DEF Init, RowsInv, Ids
<1>6. ThreadsInv
  BY DEF Init, ThreadsInv
<1> QED
  BY <1>2, <1>3, <1>4, <1>5, <1>6 DEF ServerInv

\* The invariant is inductive: one step per step of the server.
LEMMA StepInv == ServerInv /\ [Next]_vars => ServerInv'
<1> SUFFICES ASSUME ServerInv, [Next]_vars PROVE ServerInv'
  OBVIOUS
<1>1. CASE SendNew
  BY <1>1, SendNewKeeps
<1>2. CASE SendKnown
  BY <1>2, SendKnownKeeps
<1>3. ASSUME NEW r \in Requests, Serve(r)
      PROVE  ServerInv'
  BY <1>3, RecordKeeps, FindKeeps, LinkKeeps, DeleteKeeps, ExistsKeeps, CheckKeeps, OpenKeeps,
     WaitedKeeps, OpeningKeeps, RunKeeps, DriveKeeps, StartKeeps, HasKeeps, CancelKeeps,
     SnapshotKeeps, KnownKeeps DEF Serve
<1>4. ASSUME NEW r \in Requests, Raises(r)
      PROVE  ServerInv'
  BY <1>4, RaisesKeeps
<1>5. ASSUME NEW t \in Tasks, BackgroundEnds(t)
      PROVE  ServerInv'
  BY <1>5, BackgroundEndsKeeps
<1>6. CASE Restart
  BY <1>6, RestartKeeps
<1>7. CASE UNCHANGED vars
  <2>1. UNCHANGED <<rows, links, db, pool, background, req, made, deleted, faults>>
    BY <1>7 DEF vars
  <2>2. TypeOK'
    BY <2>1 DEF ServerInv, TypeOK
  <2>3. OneConnectionPerTenant' /\ LockInv' /\ RowsInv'
    BY <2>1 DEF ServerInv, OneConnectionPerTenant, LockInv, RowsInv, Requests, At
  <2>4. RequestsInv' /\ ThreadsInv'
    <3>1. Stable /\ Requests' = Requests
      BY <2>1, QuietIsStable DEF Requests
    <3>2. ThreadsInv'
      BY <2>1, <3>1, ThreadsKept DEF ServerInv
    <3>3. ASSUME NEW r \in Requests
          PROVE  Onward(req'[r]) /\ Names(req[r])' /\ Reached(req[r])'
      <4>1. Onward(req[r]) /\ Names(req[r]) /\ Reached(req[r]) /\ req[r] \in Calls
        BY RequestTypes DEF ServerInv, RequestsInv
      <4>2. PICK c \in Calls : c = req[r]
        BY <4>1
      <4>3. Names(c)' /\ Reached(c)' /\ Onward(c)
        BY <3>1, <4>1, <4>2, OthersStay
      <4> QED
        <5>1. req'[r] = c
          BY <2>1, <4>2
        <5> QED
          BY <5>1, <4>3 DEF Names, Reached
    <3> QED
      BY <3>1, <3>2, <3>3 DEF RequestsInv, Onward
  <2> QED
    BY <2>2, <2>3, <2>4 DEF ServerInv
<1> QED
  BY <1>1, <1>2, <1>3, <1>4, <1>5, <1>6, <1>7 DEF Next

LEMMA AlwaysServerInv == Spec => []ServerInv
  BY InitInv, StepInv, PTL DEF Spec

\* The variables keep their types.
THEOREM TypeCorrect == Spec => []TypeOK
<1>1. ServerInv => TypeOK
  BY DEF ServerInv
<1> QED
  BY <1>1, AlwaysServerInv, PTL

\* TenantCheckpointerPool.get opens one connection per tenant however many first
\* requests race for it, whoever raises while it opens, and across restarts.
THEOREM PoolOpensOnce == Spec => []OneConnectionPerTenant
<1>1. ServerInv => OneConnectionPerTenant
  BY DEF ServerInv
<1> QED
  BY <1>1, AlwaysServerInv, PTL

\* A task's checkpoints are only in the database of the tenant that asked for it, as
\* long as its row stands and no legacy route touches it.
THEOREM TenantsAreIsolated == Spec => []TenantsStayApart
<1>1. ServerInv => TenantsStayApart
  BY DEF ServerInv, ThreadsInv, TenantsStayApart, Entitled, ResumedByLegacy
<1> QED
  BY <1>1, AlwaysServerInv, PTL

\* Every thread in a database is in the list of sessions, after a crash between any
\* two steps too, unless its session was deleted.
THEOREM RunsStayListed == Spec => []RunsAreListed
<1>1. ServerInv => RunsAreListed
  BY DEF ServerInv, ThreadsInv, RunsAreListed, Placed, Listed, Rowed
<1> QED
  BY <1>1, AlwaysServerInv, PTL

\* get_task never denies a tenant its own task while the task's row stands.
THEOREM TasksStayFound == Spec => []TasksAreFound
<1>1. ServerInv => TasksAreFound
  BY DEF ServerInv, RequestsInv, Reached, TasksAreFound
<1> QED
  BY <1>1, AlwaysServerInv, PTL
=============================================================================
