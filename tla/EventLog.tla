------------------------------ MODULE EventLog ------------------------------
(***************************************************************************)
(* What the run manager promises of its streams: each run is a numbered    *)
(* log that only grows, forgets only from its old end and is closed with   *)
(* its last frame; a reader moves forward through one log, passes over     *)
(* nothing that is still kept, and ends by itself only at the end of a     *)
(* closed log.                                                             *)
(***************************************************************************)
EXTENDS Integers

CONSTANTS
  Runs,      \* the runs
  Readers,   \* the streams
  Positions  \* frame numbers a reader may ask from

VARIABLES
  length,   \* per run, frames so far
  dropped,  \* per run, the first frame still kept
  closed,   \* per run, whether its last frame is out
  reader    \* per stream: its state, its run and the frame it is to send next

log == <<length, dropped, closed, reader>>

Init ==
  /\ length = [t \in Runs |-> 0]
  /\ dropped = [t \in Runs |-> 0]
  /\ closed = [t \in Runs |-> FALSE]
  /\ \E t \in Runs : reader = [x \in Readers |-> [state |-> "idle", of |-> t, at |-> 0]]

\* A frame, perhaps the last; the newest one is always kept.
Grow(t, last) ==
  /\ ~closed[t]
  /\ length' = [length EXCEPT ![t] = @ + 1]
  /\ \E d \in dropped[t]..length[t] : dropped' = [dropped EXCEPT ![t] = d]
  /\ closed' = [closed EXCEPT ![t] = last]
  /\ UNCHANGED reader

Reads(x, r) ==
  /\ reader' = [reader EXCEPT ![x] = r]
  /\ UNCHANGED <<length, dropped, closed>>

Follow(x, t, n) ==
  reader[x].state = "idle" /\ Reads(x, [state |-> "following", of |-> t, at |-> n])

Following(x) == reader[x].state = "following"

\* Frame n is sent: the next one, or the first after a gap in what is kept.
Send(x, n) ==
  /\ Following(x)
  /\ n \in reader[x].at..length[reader[x].of] - 1
  /\ n > reader[x].at => n <= dropped[reader[x].of]
  /\ Reads(x, [reader[x] EXCEPT !.at = n + 1])

Finish(x) ==
  /\ Following(x)
  /\ closed[reader[x].of] /\ reader[x].at >= length[reader[x].of]
  /\ Reads(x, [reader[x] EXCEPT !.state = "ended"])

\* The client goes away, or finds the run evicted.
Leave(x) == Following(x) /\ Reads(x, [reader[x] EXCEPT !.state = "left"])

Next ==
  \/ \E t \in Runs, last \in BOOLEAN : Grow(t, last)
  \/ \E x \in Readers :
       \/ \E t \in Runs, n \in Positions : Follow(x, t, n)
       \/ \E n \in 0..length[reader[x].of] : Send(x, n)
       \/ Finish(x) \/ Leave(x)

Spec == Init /\ [][Next]_log
=============================================================================
