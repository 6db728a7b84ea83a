-------------------------- MODULE RunManagerProofs --------------------------
(***************************************************************************)
(* Proofs about RunManager, for any number of tasks, subscribers and       *)
(* cancellers, any buffer length, any keep_done and any number of frames.  *)
(***************************************************************************)
EXTENDS RunManager, SequenceTheorems, TLAPS

(***************************************************************************)
(* The inductive invariant.                                                *)
(***************************************************************************)

\* The buffer holds the newest frames, numbered without a gap up to EndSeq; it is
\* empty only while no frame was appended; the last frame of a finished run, and
\* no other frame, is terminal.
BufferInv(r) ==
  /\ \A i \in 1..Len(r.events) : r.events[i].id = r.base_seq + i - 1
  /\ r.events = <<>> => r.base_seq = 0
  /\ r.done => r.events # <<>> /\ Last(r.events).kind \in Terminal

\* What the state of the background task says of the buffer, and of a cancellation.
DriveInv(r) ==
  /\ r.drive \in {"none", "created"} => r.events = <<>>
  /\ r.done => r.drive = "ended"
  /\ r.drive = "ended" /\ ~r.done => r.events = <<>>
  /\ r.cancelled => r.drive # "none"
  /\ r.cancelled /\ r.done => Last(r.events).kind = "error"

RunInv == \A t \in Tasks : BufferInv(run[t]) /\ DriveInv(run[t])

\* A run that has started is kept until it is finished.
KeptInv == \A t \in Tasks :
  /\ run[t].drive \in {"created", "running"} => t \in runs
  /\ t \in runs => run[t].drive # "none"

\* A canceller that waits has cancelled its run; one that answered true saw it end.
CancelInv ==
  \A c \in Cancellers :
    LET r == run[canceller[c].task] IN
    /\ canceller[c].phase = "waiting" => r.cancelled
    /\ canceller[c].phase = "true" => r.drive = "ended" /\ (r.cancelled \/ ~r.done)

\* The frames a subscriber copied are consecutive and end before its index.
CopiedInv(s) ==
  \A i \in 1..Len(s.frames) : s.frames[i].id = s.idx - Len(s.frames) + i - 1

\* Frame number n may be sent next: nothing is skipped that is still kept.
Follows(s, r, n) == n >= Position(s) /\ (n > Position(s) => n <= r.base_seq)

\* What a subscriber's index, its copied frames and its position say of its run.
PhaseInv(s, r) ==
  /\ s.phase \in {"idle", "attached"} => s.got = <<>> /\ s.frames = <<>>
  /\ s.phase = "idle" => s.last = -1
  /\ s.phase = "reading" => Follows(s, r, s.idx)
  /\ s.phase = "yielding" =>
       /\ CopiedInv(s)
       /\ s.idx <= EndSeq(r)
       /\ s.done => r.done /\ s.idx = EndSeq(r)
       /\ s.frames # <<>> => Follows(s, r, s.frames[1].id)
       /\ s.frames = <<>> => s.idx = Position(s) \/ (s.done /\ s.idx <= Position(s))
  /\ s.phase = "ended" => r.done /\ Position(s) >= EndSeq(r)

\* A frame that was copied or sent is one of its run's, and the last one of a
\* finished run is the terminal frame.
FrameInv(f, r) ==
  f.id < EndSeq(r) /\ (r.done /\ f.id = EndSeq(r) - 1 => f.kind \in Terminal)

SentInv(s, r) ==
  /\ \A i \in 1..Len(s.frames) : FrameInv(s.frames[i], r)
  /\ \A i \in 1..Len(s.got) : FrameInv(s.got[i], r)

\* What was sent: in order, without a gap but for frames the buffer had dropped.
GotInv(s, r) ==
  /\ s.got # <<>> => s.got[1].id > s.last
  /\ s.got # <<>> => s.got[1].id = s.last + 1 \/ s.got[1].id <= r.base_seq
  /\ \A i \in 1..Len(s.got) - 1 : s.got[i].id < s.got[i + 1].id
  /\ \A i \in 1..Len(s.got) - 1 :
       s.got[i + 1].id = s.got[i].id + 1 \/ s.got[i + 1].id <= r.base_seq

SubInv(s, r) == PhaseInv(s, r) /\ SentInv(s, r) /\ GotInv(s, r)

StreamInv == \A x \in Subscribers : SubInv(sub[x], run[sub[x].task])

ManagerInv == TypeOK /\ RunInv /\ KeptInv /\ CancelInv /\ StreamInv

-----------------------------------------------------------------------------
(***************************************************************************)
(* The buffer.                                                             *)
(***************************************************************************)

LEMMA EndSeqType == ASSUME NEW r \in Runs PROVE EndSeq(r) \in Nat
BY DEF EndSeq, Runs

(***************************************************************************)
(* append adds one frame, the newest, and forgets only from the old end.   *)
(***************************************************************************)
LEMMA AppendProps ==
  ASSUME NEW r \in Runs, NEW kind \in {"frame"} \cup Terminal, BufferInv(r)
  PROVE  LET a == append(r, kind) IN
         /\ a \in Runs
         /\ a.done = r.done /\ a.drive = r.drive /\ a.cancelled = r.cancelled
         /\ a.events # <<>>
         /\ Last(a.events) = [id |-> EndSeq(r), kind |-> kind]
         /\ \A i \in 1..Len(a.events) : a.events[i].id = a.base_seq + i - 1
         /\ EndSeq(a) = EndSeq(r) + 1
         /\ r.base_seq <= a.base_seq /\ a.base_seq <= EndSeq(r)
<1> DEFINE frame == [id |-> EndSeq(r), kind |-> kind]
           long == Append(r.events, frame)
           drop == IF Len(long) > MaxBuffer THEN Len(long) - MaxBuffer ELSE 0
           kept == SubSeq(long, drop + 1, Len(long))
           a == append(r, kind)
<1>1. frame \in Frames
  BY EndSeqType DEF Frames
<1>2. /\ r.events \in Seq(Frames) /\ r.base_seq \in Nat /\ r.done \in BOOLEAN
      /\ Len(r.events) \in Nat
  BY DEF Runs
<1>3. /\ long \in Seq(Frames)
      /\ Len(long) = Len(r.events) + 1
      /\ \A i \in 1..Len(r.events) : long[i] = r.events[i]
      /\ long[Len(r.events) + 1] = frame
  BY <1>1, <1>2, AppendProperties
<1>5. drop \in Nat /\ drop + 1 <= Len(long)
  BY <1>2, <1>3, ManagerAssumption
<1> HIDE DEF long, drop
<1>4. \A i \in 1..Len(long) : long[i].id = r.base_seq + i - 1
  <2>1. \A i \in 1..Len(r.events) : r.events[i].id = r.base_seq + i - 1
    BY DEF BufferInv
  <2>2. frame.id = r.base_seq + Len(r.events)
    BY DEF EndSeq
  <2> HIDE DEF frame
  <2> TAKE i \in 1..Len(long)
  <2>3. CASE i = Len(r.events) + 1
    BY <1>2, <1>3, <2>2, <2>3
  <2>4. CASE i \in 1..Len(r.events)
    BY <1>3, <2>1, <2>4
  <2> QED BY <1>2, <1>3, <2>3, <2>4
<1>6. /\ kept \in Seq(Frames)
      /\ Len(kept) = Len(long) - drop
      /\ \A i \in 1..Len(kept) : kept[i] = long[drop + i]
  <2>1. \A i \in (drop + 1)..Len(long) : long[i] \in Frames
    BY <1>3, <1>5, ElementOfSeq
  <2> QED BY <1>2, <1>3, <1>5, <2>1, SubSeqProperties
<1> HIDE DEF kept, frame
<1>7. a = [r EXCEPT !.events = kept, !.base_seq = @ + drop]
  BY DEF append, kept, drop, long, frame
<1>8. /\ a.events = kept /\ a.base_seq = r.base_seq + drop
      /\ a \in Runs
      /\ a.done = r.done /\ a.drive = r.drive /\ a.cancelled = r.cancelled
  <2> DEFINE trimmed == [r EXCEPT !.events = kept]
  <2>1. trimmed \in Runs /\ trimmed.base_seq = r.base_seq
    BY <1>6 DEF Runs
  <2>2. a = [trimmed EXCEPT !.base_seq = r.base_seq + drop]
    BY <1>7 DEF Runs
  <2>3. r.base_seq + drop \in Nat
    BY <1>2, <1>5
  <2> HIDE DEF a
  <2> QED BY <1>2, <2>1, <2>2, <2>3 DEF Runs
<1> HIDE DEF a
<1>9. kept # <<>> /\ Last(kept) = frame
  BY <1>2, <1>3, <1>5, <1>6 DEF Last
<1>10. \A i \in 1..Len(kept) : kept[i].id = r.base_seq + drop + i - 1
  <2> TAKE i \in 1..Len(kept)
  <2>1. i \in Int /\ drop + i \in 1..Len(long)
    BY <1>2, <1>3, <1>5, <1>6
  <2>2. kept[i] = long[drop + i]
    BY <1>6
  <2>3. long[drop + i].id = r.base_seq + (drop + i) - 1
    BY <1>4, <2>1
  <2>4. r.base_seq \in Int /\ drop \in Int
    BY <1>2, <1>5
  <2>5. r.base_seq + (drop + i) - 1 = r.base_seq + drop + i - 1
    BY <2>1, <2>4
  <2> QED BY <2>2, <2>3, <2>5
<1>11. EndSeq(a) = EndSeq(r) + 1
  <2>1. EndSeq(a) = r.base_seq + drop + Len(kept)
    BY <1>8 DEF EndSeq
  <2> QED BY <1>2, <1>3, <1>5, <1>6, <2>1 DEF EndSeq
<1>12. r.base_seq <= a.base_seq /\ a.base_seq <= EndSeq(r)
  BY <1>2, <1>3, <1>5, <1>8 DEF EndSeq
<1> QED BY <1>8, <1>9, <1>10, <1>11, <1>12 DEF a, frame

(***************************************************************************)
(* unread copies what is kept from the index on, consecutive to the end.   *)
(***************************************************************************)
LEMMA UnreadProps ==
  ASSUME NEW r \in Runs, BufferInv(r), NEW idx \in Nat
  PROVE  LET u == unread(r, idx) IN
         /\ u \in Seq(Frames)
         /\ \A i \in 1..Len(u) : u[i].id = EndSeq(r) - Len(u) + i - 1
         /\ \A i \in 1..Len(u) : \E j \in 1..Len(r.events) : u[i] = r.events[j]
         /\ u # <<>> => u[1].id = IF idx >= r.base_seq THEN idx ELSE r.base_seq
         /\ u = <<>> <=> idx >= EndSeq(r)
<1> DEFINE from == IF idx >= r.base_seq THEN idx - r.base_seq + 1 ELSE 1
           u == unread(r, idx)
<1>1. /\ r.events \in Seq(Frames) /\ r.base_seq \in Nat /\ Len(r.events) \in Nat
      /\ from \in Nat /\ from >= 1
  BY DEF Runs
<1>2. u = SubSeq(r.events, from, Len(r.events))
  BY <1>1, SubSeqFull DEF unread
<1>3. \A i \in from..Len(r.events) : r.events[i] \in Frames
  BY <1>1, ElementOfSeq
<1>4. /\ u \in Seq(Frames)
      /\ Len(u) = IF from <= Len(r.events) THEN Len(r.events) - from + 1 ELSE 0
      /\ \A i \in 1..Len(u) : u[i] = r.events[from + i - 1]
  <2> DEFINE n == Len(r.events)
  <2> HIDE DEF from
  <2>1. /\ SubSeq(r.events, from, n) \in Seq(Frames)
        /\ Len(SubSeq(r.events, from, n)) = IF from <= n THEN n - from + 1 ELSE 0
        /\ \A i \in 1..n - from + 1 : SubSeq(r.events, from, n)[i] = r.events[from + i - 1]
    BY <1>1, <1>3, SubSeqProperties
  <2> HIDE DEF u
  <2> QED BY <1>1, <1>2, <2>1
<1> HIDE DEF u, from
<1>5. \A i \in 1..Len(u) : from + i - 1 \in 1..Len(r.events)
  BY <1>1, <1>4
<1>6. \A i \in 1..Len(u) : u[i].id = r.base_seq + from + i - 2
  <2> TAKE i \in 1..Len(u)
  <2>1. i \in Int /\ from + i - 1 \in 1..Len(r.events)
    BY <1>1, <1>4, <1>5
  <2>2. r.events[from + i - 1].id = r.base_seq + (from + i - 1) - 1
    BY <2>1 DEF BufferInv
  <2>3. u[i] = r.events[from + i - 1]
    BY <1>4
  <2>4. r.base_seq \in Int /\ from \in Int
    BY <1>1
  <2> QED BY <2>1, <2>2, <2>3, <2>4
<1>7. \A i \in 1..Len(u) : u[i].id = EndSeq(r) - Len(u) + i - 1
  <2> TAKE i \in 1..Len(u)
  <2> DEFINE n == Len(r.events)
             m == Len(u)
             base == r.base_seq
  <2>1. n \in Int /\ m \in Int /\ i \in Int /\ base \in Int /\ from \in Int
    BY <1>1, <1>4
  <2>2. m = n - from + 1 /\ EndSeq(r) = base + n
    BY <1>1, <1>4 DEF EndSeq
  <2>3. u[i].id = base + from + i - 2
    BY <1>6
  <2> HIDE DEF n, m, base
  <2>4. base + from + i - 2 = EndSeq(r) - m + i - 1
    BY <2>1, <2>2
  <2> QED BY <2>3, <2>4 DEF m
<1>8. u # <<>> => u[1].id = IF idx >= r.base_seq THEN idx ELSE r.base_seq
  <2> SUFFICES ASSUME u # <<>> PROVE u[1].id = IF idx >= r.base_seq THEN idx ELSE r.base_seq
    OBVIOUS
  <2>1. 1 \in 1..Len(u)
    BY <1>4
  <2>2. u[1].id = r.base_seq + from - 1
    BY <1>1, <1>6, <2>1
  <2> QED BY <1>1, <2>2 DEF from
<1>9. u = <<>> <=> idx >= EndSeq(r)
  <2>1. u = <<>> <=> Len(u) = 0
    BY <1>4, EmptySeq
  <2> DEFINE n == Len(r.events)
             base == r.base_seq
  <2>2. n \in Nat /\ base \in Nat /\ idx \in Int /\ EndSeq(r) = base + n
    BY <1>1 DEF EndSeq
  <2>3. Len(u) = IF from <= n THEN n - from + 1 ELSE 0
    BY <1>4
  <2>4. from = IF idx >= base THEN idx - base + 1 ELSE 1
    BY DEF from
  <2>5. n = 0 => base = 0
    BY <1>1, EmptySeq DEF BufferInv
  <2> HIDE DEF n, base
  <2>6. Len(u) = 0 <=> idx >= base + n
    BY <2>2, <2>3, <2>4, <2>5
  <2> QED BY <2>1, <2>2, <2>6
<1> QED BY <1>4, <1>5, <1>7, <1>8, <1>9 DEF u

-----------------------------------------------------------------------------
(***************************************************************************)
(* How a run may change.                                                   *)
(***************************************************************************)

\* The log of r2 is the log of r or a longer one; a finished run's log is frozen,
\* and a run finishes with a new frame.
Extends(r, r2) ==
  /\ r.base_seq <= r2.base_seq
  /\ EndSeq(r) <= EndSeq(r2)
  /\ r.done => r2.done /\ EndSeq(r2) = EndSeq(r)
  /\ r2.done /\ ~r.done => EndSeq(r) < EndSeq(r2)

Evolves(r, r2) ==
  /\ r2 \in Runs
  /\ BufferInv(r2) /\ DriveInv(r2)
  /\ Extends(r, r2)
  /\ r.cancelled => r2.cancelled
  /\ r.drive = "ended" => r2.drive = "ended" /\ r2.done = r.done
  /\ r.drive # "none" => r2.drive # "none"

LEMMA EvolvesSame ==
  ASSUME NEW r \in Runs, BufferInv(r), DriveInv(r)
  PROVE  Evolves(r, r)
BY EndSeqType DEF Evolves, Extends, Runs

LEMMA EvolvesCancelled ==
  ASSUME NEW r \in Runs, BufferInv(r), DriveInv(r), r.drive \in {"created", "running"}
  PROVE  Evolves(r, [r EXCEPT !.cancelled = TRUE])
<1> DEFINE r2 == [r EXCEPT !.cancelled = TRUE]
<1>1. /\ r2 \in Runs /\ r2.cancelled
      /\ r2.events = r.events /\ r2.base_seq = r.base_seq /\ r2.done = r.done
      /\ r2.drive = r.drive
  BY DEF Runs
<1> HIDE DEF r2
<1>2. r.base_seq \in Nat /\ EndSeq(r) \in Nat /\ EndSeq(r2) = EndSeq(r)
  BY <1>1, EndSeqType DEF EndSeq, Runs
<1>3. BufferInv(r2) /\ DriveInv(r2) /\ Extends(r, r2)
  BY <1>1, <1>2 DEF BufferInv, DriveInv, Extends
<1>4. Evolves(r, r2)
  BY <1>1, <1>3 DEF Evolves
<1> QED BY <1>4 DEF r2

LEMMA EvolvesStarted ==
  ASSUME NEW r \in Runs, BufferInv(r), DriveInv(r), r.drive = "none"
  PROVE  Evolves(r, [r EXCEPT !.drive = "created"])
<1> DEFINE r2 == [r EXCEPT !.drive = "created"]
<1>1. /\ r2 \in Runs /\ r2.drive = "created"
      /\ r2.events = r.events /\ r2.base_seq = r.base_seq /\ r2.done = r.done
      /\ r2.cancelled = r.cancelled
  BY DEF Runs
<1> HIDE DEF r2
<1>2. r.base_seq \in Nat /\ EndSeq(r) \in Nat /\ EndSeq(r2) = EndSeq(r)
  BY <1>1, EndSeqType DEF EndSeq, Runs
<1>3. BufferInv(r2) /\ DriveInv(r2) /\ Extends(r, r2)
  BY <1>1, <1>2 DEF BufferInv, DriveInv, Extends
<1>4. Evolves(r, r2)
  BY <1>1, <1>3 DEF Evolves
<1> QED BY <1>4 DEF r2

\* The background task is cancelled before its first step.
LEMMA EvolvesUnbegun ==
  ASSUME NEW r \in Runs, BufferInv(r), DriveInv(r), r.drive = "created"
  PROVE  Evolves(r, [r EXCEPT !.drive = "ended"])
<1> DEFINE r2 == [r EXCEPT !.drive = "ended"]
<1>1. /\ r2 \in Runs /\ r2.drive = "ended"
      /\ r2.events = r.events /\ r2.base_seq = r.base_seq /\ r2.done = r.done
      /\ r2.cancelled = r.cancelled
  BY DEF Runs
<1> HIDE DEF r2
<1>2. r.base_seq \in Nat /\ EndSeq(r) \in Nat /\ EndSeq(r2) = EndSeq(r)
  BY <1>1, EndSeqType DEF EndSeq, Runs
<1>3. BufferInv(r2) /\ DriveInv(r2) /\ Extends(r, r2)
  BY <1>1, <1>2 DEF BufferInv, DriveInv, Extends
<1>4. Evolves(r, r2)
  BY <1>1, <1>3 DEF Evolves
<1> QED BY <1>4 DEF r2

\* A frame is appended, perhaps the first.
LEMMA EvolvesAppend ==
  ASSUME NEW r \in Runs, BufferInv(r), DriveInv(r),
         r.drive \in {"created", "running"}, r.drive = "created" => ~r.cancelled,
         NEW q, q = [r EXCEPT !.drive = "running"]
  PROVE  /\ Evolves(r, append(q, "frame"))
         /\ EndSeq(append(q, "frame")) = EndSeq(r) + 1
         /\ append(q, "frame").base_seq <= EndSeq(r)
         /\ ~append(q, "frame").done
<1> DEFINE a == append(q, "frame")
<1>1. /\ q \in Runs /\ q.drive = "running"
      /\ q.events = r.events /\ q.base_seq = r.base_seq /\ q.done = r.done
      /\ q.cancelled = r.cancelled
  BY DEF Runs
<1>2. BufferInv(q) /\ EndSeq(q) = EndSeq(r) /\ ~r.done
  BY <1>1 DEF BufferInv, EndSeq, DriveInv
<1>3. /\ a \in Runs
      /\ a.done = q.done /\ a.drive = q.drive /\ a.cancelled = q.cancelled
      /\ a.events # <<>>
      /\ \A i \in 1..Len(a.events) : a.events[i].id = a.base_seq + i - 1
      /\ EndSeq(a) = EndSeq(q) + 1
      /\ q.base_seq <= a.base_seq /\ a.base_seq <= EndSeq(q)
  BY <1>1, <1>2, AppendProps
<1> HIDE DEF a
<1>4. r.base_seq \in Nat /\ a.base_seq \in Nat /\ EndSeq(r) \in Nat
  BY <1>3, EndSeqType DEF Runs
<1>5. BufferInv(a)
  BY <1>1, <1>2, <1>3 DEF BufferInv
<1>6. DriveInv(a) /\ Extends(r, a)
  BY <1>1, <1>2, <1>3, <1>4 DEF DriveInv, Extends
<1>7. Evolves(r, a)
  BY <1>1, <1>2, <1>3, <1>5, <1>6 DEF Evolves
<1> QED BY <1>1, <1>2, <1>3, <1>7 DEF a

\* The terminal frame is appended and the run is done.
LEMMA EvolvesDone ==
  ASSUME NEW r \in Runs, BufferInv(r), DriveInv(r), r.drive = "running",
         NEW kind \in Terminal, r.cancelled => kind = "error"
  PROVE  LET b == [append(r, kind) EXCEPT !.done = TRUE, !.drive = "ended"] IN
         /\ Evolves(r, b)
         /\ EndSeq(b) = EndSeq(r) + 1
         /\ b.base_seq <= EndSeq(r)
         /\ b.done
<1> DEFINE a == append(r, kind)
           b == [a EXCEPT !.done = TRUE, !.drive = "ended"]
<1>1. ~r.done
  BY DEF DriveInv
<1>2. /\ a \in Runs
      /\ a.cancelled = r.cancelled
      /\ a.events # <<>>
      /\ Last(a.events) = [id |-> EndSeq(r), kind |-> kind]
      /\ \A i \in 1..Len(a.events) : a.events[i].id = a.base_seq + i - 1
      /\ EndSeq(a) = EndSeq(r) + 1
      /\ r.base_seq <= a.base_seq /\ a.base_seq <= EndSeq(r)
  BY AppendProps
<1> HIDE DEF a
<1>3. /\ b \in Runs /\ b.drive = "ended" /\ b.done = TRUE
      /\ b.events = a.events /\ b.base_seq = a.base_seq /\ b.cancelled = a.cancelled
  BY <1>2 DEF Runs
<1> HIDE DEF b
<1>4. Last(b.events).kind = kind
  BY <1>2, <1>3
<1>5. BufferInv(b)
  BY <1>2, <1>3, <1>4 DEF BufferInv
<1>6. DriveInv(b)
  BY <1>2, <1>3, <1>4 DEF DriveInv
<1>7. EndSeq(b) = EndSeq(r) + 1
  BY <1>2, <1>3 DEF EndSeq
<1>8. Extends(r, b)
  <2>1. r.base_seq \in Nat /\ b.base_seq \in Nat /\ EndSeq(r) \in Nat
    BY <1>3, EndSeqType DEF Runs
  <2> QED BY <1>1, <1>2, <1>3, <1>7, <2>1 DEF Extends
<1>9. Evolves(r, b)
  BY <1>2, <1>3, <1>5, <1>6, <1>8 DEF Evolves
<1> QED BY <1>2, <1>3, <1>7, <1>9 DEF b, a

-----------------------------------------------------------------------------
(***************************************************************************)
(* What a stream knows of its run stays true as the run evolves.           *)
(***************************************************************************)

LEMMA FrameType ==
  ASSUME NEW q \in Seq(Frames), NEW i \in 1..Len(q)
  PROVE  q[i] \in Frames /\ q[i].id \in Nat
<1>1. q[i] \in Frames
  BY ElementOfSeq
<1> QED BY <1>1 DEF Frames

LEMMA PositionType == ASSUME NEW s \in Subscriptions PROVE Position(s) \in Nat
<1>1. s.last \in Nat \cup {-1} /\ s.got \in Seq(Frames)
  BY DEF Subscriptions
<1>2. ASSUME s.got # <<>>
      PROVE  Last(s.got).id \in Nat
  <2>1. Len(s.got) \in 1..Len(s.got)
    BY <1>1, <1>2
  <2> QED BY <1>1, <2>1, FrameType DEF Last
<1> QED BY <1>1, <1>2 DEF Position

LEMMA FrameStable ==
  ASSUME NEW r \in Runs, NEW r2 \in Runs, Extends(r, r2), NEW f \in Frames, FrameInv(f, r)
  PROVE  FrameInv(f, r2)
<1>1. EndSeq(r) \in Nat /\ EndSeq(r2) \in Nat /\ f.id \in Nat
  BY EndSeqType DEF Frames
<1> QED BY <1>1 DEF FrameInv, Extends

LEMMA StreamStable ==
  ASSUME NEW r \in Runs, NEW r2 \in Runs, Extends(r, r2),
         NEW s \in Subscriptions, SubInv(s, r)
  PROVE  SubInv(s, r2)
<1>1. /\ s.got \in Seq(Frames) /\ s.frames \in Seq(Frames) /\ s.idx \in Nat
      /\ r.base_seq \in Nat /\ r2.base_seq \in Nat
  BY DEF Subscriptions, Runs
<1>2. EndSeq(r) \in Nat /\ EndSeq(r2) \in Nat /\ Position(s) \in Nat
  BY EndSeqType, PositionType
<1>3. \A n \in Nat : Follows(s, r, n) => Follows(s, r2, n)
  BY <1>1, <1>2 DEF Follows, Extends
<1>4. s.frames # <<>> => s.frames[1].id \in Nat
  <2> SUFFICES ASSUME s.frames # <<>> PROVE s.frames[1].id \in Nat
    OBVIOUS
  <2>1. 1 \in 1..Len(s.frames)
    BY <1>1
  <2> QED BY <1>1, <2>1, FrameType
<1>5. PhaseInv(s, r2)
  <2>1. s.phase = "yielding" => s.idx <= EndSeq(r2)
    BY <1>1, <1>2 DEF SubInv, PhaseInv, Extends
  <2>2. s.phase = "yielding" /\ s.done => r2.done /\ s.idx = EndSeq(r2)
    BY DEF SubInv, PhaseInv, Extends
  <2>3. s.phase = "ended" => r2.done /\ Position(s) >= EndSeq(r2)
    BY DEF SubInv, PhaseInv, Extends
  <2> QED BY <1>1, <1>3, <1>4, <2>1, <2>2, <2>3 DEF SubInv, PhaseInv
<1>6. SentInv(s, r2)
  <2>1. \A i \in 1..Len(s.frames) : FrameInv(s.frames[i], r2)
    BY <1>1, ElementOfSeq, FrameStable DEF SubInv, SentInv
  <2>2. \A i \in 1..Len(s.got) : FrameInv(s.got[i], r2)
    BY <1>1, ElementOfSeq, FrameStable DEF SubInv, SentInv
  <2> QED BY <2>1, <2>2 DEF SentInv
<1>7. GotInv(s, r2)
  <2>1. \A i \in 1..Len(s.got) : s.got[i].id \in Nat
    BY <1>1, FrameType
  <2>2. \A n \in Nat : n <= r.base_seq => n <= r2.base_seq
    BY <1>1 DEF Extends
  <2>3. s.got # <<>> => s.got[1].id = s.last + 1 \/ s.got[1].id <= r2.base_seq
    <3>1. s.got # <<>> => 1 \in 1..Len(s.got)
      BY <1>1
    <3> QED BY <2>1, <2>2, <3>1 DEF SubInv, GotInv
  <2>4. \A i \in 1..Len(s.got) - 1 :
          s.got[i + 1].id = s.got[i].id + 1 \/ s.got[i + 1].id <= r2.base_seq
    <3> TAKE i \in 1..Len(s.got) - 1
    <3>1. i + 1 \in 1..Len(s.got)
      BY <1>1
    <3> QED BY <2>1, <2>2, <3>1 DEF SubInv, GotInv
  <2> QED BY <2>3, <2>4 DEF SubInv, GotInv
<1> QED BY <1>5, <1>6, <1>7 DEF SubInv

-----------------------------------------------------------------------------
(***************************************************************************)
(* The steps of a stream.                                                  *)
(***************************************************************************)

LEMMA BeginStream ==
  ASSUME NEW r \in Runs, NEW s \in Subscriptions, SubInv(s, r), s.phase = "attached",
         NEW s2, s2 = [s EXCEPT !.phase = "reading",
                                !.idx = IF s.last + 1 < r.base_seq THEN r.base_seq ELSE s.last + 1]
  PROVE  s2 \in Subscriptions /\ SubInv(s2, r) /\ Position(s2) = Position(s)
<1> DEFINE idx == IF s.last + 1 < r.base_seq THEN r.base_seq ELSE s.last + 1
<1>1. r.base_seq \in Nat /\ s.last \in Nat \cup {-1}
  BY DEF Runs, Subscriptions
<1>2. idx \in Nat
  BY <1>1
<1>3. /\ s2 \in Subscriptions
      /\ s2.phase = "reading" /\ s2.idx = idx /\ s2.last = s.last
      /\ s2.frames = s.frames /\ s2.done = s.done /\ s2.got = s.got
  <2> DEFINE q == [s EXCEPT !.phase = "reading"]
  <2>1. q \in Subscriptions /\ s2 = [q EXCEPT !.idx = idx]
    BY DEF Subscriptions
  <2> QED BY <1>2, <2>1 DEF Subscriptions
<1>4. s.got = <<>> /\ Position(s) = s.last + 1 /\ Position(s2) = Position(s)
  BY <1>3 DEF SubInv, PhaseInv, Position
<1>5. Follows(s2, r, idx)
  BY <1>1, <1>4 DEF Follows
<1>6. PhaseInv(s2, r)
  BY <1>3, <1>5 DEF PhaseInv
<1> QED BY <1>3, <1>4, <1>6 DEF SubInv, SentInv, GotInv

LEMMA LeaveStream ==
  ASSUME NEW r \in Runs, NEW s \in Subscriptions, SubInv(s, r),
         NEW phase \in {"gone", "dropped"}, NEW s2, s2 = [s EXCEPT !.phase = phase]
  PROVE  s2 \in Subscriptions /\ SubInv(s2, r) /\ Position(s2) = Position(s)
<1>1. /\ s2 \in Subscriptions
      /\ s2.phase = phase /\ s2.idx = s.idx /\ s2.last = s.last
      /\ s2.frames = s.frames /\ s2.done = s.done /\ s2.got = s.got
  BY DEF Subscriptions
<1> QED BY <1>1 DEF SubInv, PhaseInv, SentInv, GotInv, Position

LEMMA ReadStream ==
  ASSUME NEW r \in Runs, BufferInv(r), NEW s \in Subscriptions, SubInv(s, r),
         s.phase = "reading", s.idx < EndSeq(r) \/ r.done,
         NEW s2, s2 = [s EXCEPT !.phase = "yielding", !.frames = unread(r, s.idx),
                                !.done = r.done, !.idx = EndSeq(r)]
  PROVE  s2 \in Subscriptions /\ SubInv(s2, r) /\ Position(s2) = Position(s)
<1> DEFINE u == unread(r, s.idx)
<1>1. /\ r.base_seq \in Nat /\ r.events \in Seq(Frames) /\ r.done \in BOOLEAN
      /\ s.idx \in Nat
      /\ EndSeq(r) \in Nat /\ Position(s) \in Nat
  BY EndSeqType, PositionType DEF Runs, Subscriptions
<1>2. /\ u \in Seq(Frames)
      /\ \A i \in 1..Len(u) : u[i].id = EndSeq(r) - Len(u) + i - 1
      /\ \A i \in 1..Len(u) : \E j \in 1..Len(r.events) : u[i] = r.events[j]
      /\ u # <<>> => u[1].id = IF s.idx >= r.base_seq THEN s.idx ELSE r.base_seq
      /\ u = <<>> <=> s.idx >= EndSeq(r)
  BY <1>1, UnreadProps
<1> HIDE DEF u
<1>3. /\ s2 \in Subscriptions
      /\ s2.phase = "yielding" /\ s2.idx = EndSeq(r) /\ s2.last = s.last
      /\ s2.frames = u /\ s2.done = r.done /\ s2.got = s.got
  <2> DEFINE q1 == [s EXCEPT !.phase = "yielding"]
             q2 == [q1 EXCEPT !.frames = u]
             q3 == [q2 EXCEPT !.done = r.done]
  <2>1. q1 \in Subscriptions
    BY DEF Subscriptions
  <2>2. q2 \in Subscriptions
    BY <1>2, <2>1 DEF Subscriptions
  <2>3. q3 \in Subscriptions
    BY <1>1, <2>2 DEF Subscriptions
  <2>4. s2 = [q3 EXCEPT !.idx = EndSeq(r)]
    BY DEF Subscriptions, u
  <2>5. s2 \in Subscriptions
    BY <1>1, <2>3, <2>4 DEF Subscriptions
  <2> QED BY <2>5 DEF Subscriptions, u
<1>4. Position(s2) = Position(s)
  BY <1>3 DEF Position
<1>5. Follows(s, r, s.idx)
  BY DEF SubInv, PhaseInv
<1>6. u # <<>> => Follows(s2, r, u[1].id)
  BY <1>1, <1>2, <1>4, <1>5 DEF Follows
<1>7. u = <<>> => s2.idx = Position(s2) \/ (s2.done /\ s2.idx <= Position(s2))
  <2> SUFFICES ASSUME u = <<>>
               PROVE  r.done /\ EndSeq(r) <= Position(s)
    BY <1>3, <1>4
  <2>1. s.idx >= EndSeq(r) /\ r.done
    BY <1>1, <1>2
  <2>2. r.base_seq < EndSeq(r)
    BY <1>1, <2>1 DEF BufferInv, EndSeq
  <2> QED BY <1>1, <1>5, <2>1, <2>2 DEF Follows
<1>8. PhaseInv(s2, r)
  <2>1. CopiedInv(s2)
    BY <1>2, <1>3 DEF CopiedInv
  <2> QED BY <1>1, <1>3, <1>6, <1>7, <2>1 DEF PhaseInv
<1>9. SentInv(s2, r)
  <2>1. ASSUME NEW i \in 1..Len(u)
        PROVE  FrameInv(u[i], r)
    <3>1. PICK j \in 1..Len(r.events) : u[i] = r.events[j]
      BY <1>2
    <3>2. r.events[j].id = r.base_seq + j - 1 /\ j \in Int /\ Len(r.events) \in Int
      BY <1>1, <3>1 DEF BufferInv
    <3>3. r.events[j].id < EndSeq(r)
      BY <1>1, <3>1, <3>2 DEF EndSeq
    <3>4. r.events[j].id = EndSeq(r) - 1 => j = Len(r.events)
      BY <1>1, <3>2 DEF EndSeq
    <3> QED BY <3>1, <3>3, <3>4 DEF FrameInv, BufferInv, Last
  <2> QED BY <1>3, <2>1 DEF SubInv, SentInv
<1>10. GotInv(s2, r)
  BY <1>3 DEF SubInv, GotInv
<1> QED BY <1>3, <1>4, <1>8, <1>9, <1>10 DEF SubInv

LEMMA YieldStream ==
  ASSUME NEW r \in Runs, NEW s \in Subscriptions, SubInv(s, r),
         s.phase = "yielding", s.frames # <<>>,
         NEW s2, s2 = [s EXCEPT !.got = Append(@, Head(s.frames)), !.frames = Tail(@)]
  PROVE  /\ s2 \in Subscriptions /\ SubInv(s2, r)
         /\ s.frames[1].id \in Nat
         /\ s.frames[1].id < EndSeq(r)
         /\ Follows(s, r, s.frames[1].id)
         /\ Position(s2) = s.frames[1].id + 1
<1> DEFINE f == s.frames[1]
           rest == Tail(s.frames)
           sent == Append(s.got, f)
<1>1. /\ r.base_seq \in Nat /\ EndSeq(r) \in Nat /\ Position(s) \in Nat
      /\ s.idx \in Nat /\ s.frames \in Seq(Frames) /\ s.got \in Seq(Frames)
      /\ s.last \in Nat \cup {-1}
  BY EndSeqType, PositionType DEF Runs, Subscriptions
<1>2. Len(s.frames) \in Nat \ {0} /\ Len(s.got) \in Nat /\ 1 \in 1..Len(s.frames)
  BY <1>1
<1>3. f \in Frames /\ f.id \in Nat
  BY <1>1, <1>2, FrameType
<1>4. /\ rest \in Seq(Frames) /\ Len(rest) = Len(s.frames) - 1
      /\ \A i \in 1..Len(rest) : rest[i] = s.frames[i + 1]
  BY <1>1, HeadTailProperties
<1>5. /\ sent \in Seq(Frames) /\ Len(sent) = Len(s.got) + 1 /\ sent # <<>>
      /\ \A i \in 1..Len(s.got) : sent[i] = s.got[i]
      /\ sent[Len(s.got) + 1] = f
  BY <1>1, <1>3, AppendProperties
<1>6. /\ s2 \in Subscriptions
      /\ s2.phase = "yielding" /\ s2.idx = s.idx /\ s2.last = s.last
      /\ s2.frames = rest /\ s2.done = s.done /\ s2.got = sent
  <2> DEFINE q == [s EXCEPT !.got = sent]
  <2>1. Head(s.frames) = f
    BY <1>1
  <2>2. q \in Subscriptions
    BY <1>5 DEF Subscriptions
  <2>3. s2 = [q EXCEPT !.frames = rest]
    BY <2>1 DEF Subscriptions
  <2>4. q.phase = "yielding" /\ q.idx = s.idx /\ q.last = s.last /\ q.done = s.done /\ q.got = sent
    BY DEF Subscriptions
  <2> HIDE DEF q, rest, sent
  <2> QED BY <1>4, <2>2, <2>3, <2>4 DEF Subscriptions
<1>7. FrameInv(f, r) /\ f.id < EndSeq(r) /\ Follows(s, r, f.id) /\ CopiedInv(s)
  BY <1>2 DEF SubInv, SentInv, PhaseInv, FrameInv
<1> HIDE DEF sent, rest
<1>8. Position(s2) = f.id + 1
  BY <1>2, <1>5, <1>6 DEF Position, Last
<1>9. \A i \in 1..Len(rest) : i + 1 \in 1..Len(s.frames)
  BY <1>2, <1>4
<1>10. CopiedInv(s2)
  <2> SUFFICES ASSUME NEW i \in 1..Len(rest)
               PROVE  rest[i].id = s.idx - Len(rest) + i - 1
    BY <1>6 DEF CopiedInv
  <2>1. rest[i].id = s.idx - Len(s.frames) + (i + 1) - 1
    BY <1>4, <1>7, <1>9 DEF CopiedInv
  <2> DEFINE n == Len(s.frames)
             m == Len(rest)
  <2>2. i \in Int /\ n \in Int /\ m = n - 1 /\ s.idx \in Int
    BY <1>1, <1>2, <1>4
  <2> HIDE DEF n, m
  <2>3. s.idx - n + (i + 1) - 1 = s.idx - m + i - 1
    BY <2>2
  <2> QED BY <2>1, <2>3 DEF n, m
<1>11. f.id = s.idx - Len(s.frames)
  <2>1. f.id = s.idx - Len(s.frames) + 1 - 1
    BY <1>2, <1>7 DEF CopiedInv
  <2> QED BY <1>1, <1>2, <2>1
<1>12. rest # <<>> => Follows(s2, r, rest[1].id)
  <2> SUFFICES ASSUME rest # <<>> PROVE Follows(s2, r, rest[1].id)
    OBVIOUS
  <2>1. 1 \in 1..Len(rest)
    BY <1>4
  <2>2. rest[1].id = s.idx - Len(rest) + 1 - 1
    BY <1>6, <1>10, <2>1 DEF CopiedInv
  <2> DEFINE n == Len(s.frames)
             m == Len(rest)
  <2>3. n \in Int /\ m = n - 1 /\ rest[1].id = s.idx - m + 1 - 1 /\ f.id = s.idx - n
    BY <1>2, <1>4, <1>11, <2>2
  <2> HIDE DEF n, m
  <2>4. rest[1].id = f.id + 1
    BY <1>1, <2>3
  <2> QED BY <1>3, <1>8, <2>4 DEF Follows
<1>13. rest = <<>> => s2.idx = Position(s2)
  <2> SUFFICES ASSUME rest = <<>> PROVE s.idx = f.id + 1
    BY <1>6, <1>8
  <2>1. Len(s.frames) = 1
    BY <1>2, <1>4
  <2> QED BY <1>1, <1>11, <2>1
<1>14. PhaseInv(s2, r)
  BY <1>6, <1>10, <1>12, <1>13 DEF SubInv, PhaseInv
<1>15. SentInv(s2, r)
  <2>1. \A i \in 1..Len(rest) : FrameInv(rest[i], r)
    BY <1>4, <1>9 DEF SubInv, SentInv
  <2>2. \A i \in 1..Len(s.got) : FrameInv(sent[i], r)
    BY <1>5 DEF SubInv, SentInv
  <2>3. \A i \in 1..Len(sent) : i \in 1..Len(s.got) \/ i = Len(s.got) + 1
    BY <1>2, <1>5
  <2> QED BY <1>5, <1>6, <1>7, <2>1, <2>2, <2>3 DEF SentInv
<1>16. GotInv(s2, r)
  <2>1. CASE s.got = <<>>
    <3>1. Len(s.got) = 0 /\ Len(sent) = 1 /\ sent[1] = f /\ Position(s) = s.last + 1
      BY <1>5, <2>1 DEF Position
    <3>2. f.id > s.last /\ (f.id = s.last + 1 \/ f.id <= r.base_seq)
      BY <1>1, <1>3, <1>7, <3>1 DEF Follows
    <3>3. 1..Len(sent) - 1 = {}
      BY <3>1
    <3> QED BY <1>6, <3>1, <3>2, <3>3 DEF GotInv
  <2>2. CASE s.got # <<>>
    <3>1. Len(s.got) \in 1..Len(s.got) /\ 1 \in 1..Len(s.got)
      BY <1>1, <2>2
    <3>2. sent[1] = s.got[1]
      BY <1>5, <3>1
    <3>3. Position(s) = s.got[Len(s.got)].id + 1 /\ s.got[Len(s.got)].id \in Nat
      BY <1>1, <2>2, <3>1, FrameType DEF Position, Last
    <3>4. ASSUME NEW i \in 1..Len(sent) - 1
          PROVE  /\ sent[i].id < sent[i + 1].id
                 /\ sent[i + 1].id = sent[i].id + 1 \/ sent[i + 1].id <= r.base_seq
      <4>1. CASE i = Len(s.got)
        <5>1. sent[i] = s.got[Len(s.got)] /\ sent[i + 1] = f
          BY <1>5, <3>1, <4>1
        <5> DEFINE n == s.got[Len(s.got)].id
        <5>2. n \in Nat /\ Position(s) = n + 1
          BY <3>3
        <5> HIDE DEF n
        <5>3. n < f.id /\ (f.id = n + 1 \/ f.id <= r.base_seq)
          BY <1>1, <1>3, <1>7, <5>2 DEF Follows
        <5>4. sent[i].id = n /\ sent[i + 1].id = f.id
          BY <5>1 DEF n
        <5> QED BY <5>3, <5>4
      <4>2. CASE i \in 1..Len(s.got) - 1
        <5>1. i \in 1..Len(s.got) /\ i + 1 \in 1..Len(s.got)
          BY <1>2, <4>2
        <5>2. sent[i] = s.got[i] /\ sent[i + 1] = s.got[i + 1]
          BY <1>5, <5>1
        <5> QED BY <4>2, <5>2 DEF SubInv, GotInv
      <4> QED BY <1>2, <1>5, <4>1, <4>2
    <3> QED BY <1>6, <2>2, <3>2, <3>4 DEF SubInv, GotInv
  <2> QED BY <2>1, <2>2
<1> QED BY <1>3, <1>6, <1>7, <1>8, <1>14, <1>15, <1>16 DEF SubInv

LEMMA YieldedStream ==
  ASSUME NEW r \in Runs, NEW s \in Subscriptions, SubInv(s, r),
         s.phase = "yielding", s.frames = <<>>,
         NEW s2, s2 = [s EXCEPT !.phase = IF s.done THEN "ended" ELSE "reading"]
  PROVE  /\ s2 \in Subscriptions /\ SubInv(s2, r) /\ Position(s2) = Position(s)
         /\ s.done => r.done /\ Position(s) >= EndSeq(r)
<1>1. /\ r.base_seq \in Nat /\ EndSeq(r) \in Nat /\ Position(s) \in Nat /\ s.idx \in Nat
      /\ s.done \in BOOLEAN
  BY EndSeqType, PositionType DEF Runs, Subscriptions
<1>2. /\ s2 \in Subscriptions
      /\ s2.phase = (IF s.done THEN "ended" ELSE "reading")
      /\ s2.idx = s.idx /\ s2.last = s.last
      /\ s2.frames = s.frames /\ s2.done = s.done /\ s2.got = s.got
  BY DEF Subscriptions
<1>3. Position(s2) = Position(s)
  BY <1>2 DEF Position
<1>4. s.done => r.done /\ Position(s) >= EndSeq(r)
  BY <1>1 DEF SubInv, PhaseInv
<1>5. ~s.done => Follows(s2, r, s.idx)
  BY <1>1, <1>3 DEF SubInv, PhaseInv, Follows
<1>6. PhaseInv(s2, r)
  BY <1>2, <1>3, <1>4, <1>5 DEF PhaseInv
<1> QED BY <1>2, <1>3, <1>4, <1>6 DEF SubInv, SentInv, GotInv

Attached(s, t, last) == [s EXCEPT !.phase = "attached", !.task = t, !.last = last]

\* A stream that has not begun knows nothing of the run it asks for.
LEMMA AttachStream ==
  ASSUME NEW r \in Runs, NEW s \in Subscriptions, s.got = <<>>, s.frames = <<>>,
         NEW t \in Tasks, NEW last \in Nat \cup {-1}
  PROVE  /\ Attached(s, t, last) \in Subscriptions /\ SubInv(Attached(s, t, last), r)
         /\ Attached(s, t, last).phase = "attached" /\ Attached(s, t, last).task = t
         /\ Position(Attached(s, t, last)) = last + 1
<1> DEFINE q1 == [s EXCEPT !.phase = "attached"]
           q2 == [q1 EXCEPT !.task = t]
           s2 == Attached(s, t, last)
<1>1. /\ s2 \in Subscriptions
      /\ s2.phase = "attached" /\ s2.last = last /\ s2.task = t
      /\ s2.frames = <<>> /\ s2.got = <<>>
  <2>1. q1 \in Subscriptions
    BY DEF Subscriptions
  <2>2. q2 \in Subscriptions
    BY <2>1 DEF Subscriptions
  <2>3. s2 = [q2 EXCEPT !.last = last]
    BY DEF Subscriptions, Attached
  <2>4. s2 \in Subscriptions
    BY <2>2, <2>3 DEF Subscriptions
  <2> QED BY <2>4 DEF Subscriptions, Attached
<1> HIDE DEF s2
<1>2. Len(s2.frames) = 0 /\ Len(s2.got) = 0
  BY <1>1
<1>3. PhaseInv(s2, r)
  BY <1>1 DEF PhaseInv
<1>4. SentInv(s2, r) /\ GotInv(s2, r)
  BY <1>1, <1>2 DEF SentInv, GotInv
<1>5. s2 \in Subscriptions /\ SubInv(s2, r) /\ s2.phase = "attached" /\ s2.task = t
      /\ Position(s2) = last + 1
  BY <1>1, <1>3, <1>4 DEF SubInv, Position
<1> QED BY <1>5 DEF s2

-----------------------------------------------------------------------------
(***************************************************************************)
(* The steps of the manager keep the invariant.                            *)
(***************************************************************************)

LEMMA RunsEvolve ==
  ASSUME ManagerInv, run' \in [Tasks -> Runs], UNCHANGED sub,
         \A t \in Tasks : Evolves(run[t], run'[t])
  PROVE  RunInv' /\ StreamInv'
<1>1. RunInv'
  BY DEF RunInv, Evolves
<1>2. StreamInv'
  <2> SUFFICES ASSUME NEW x \in Subscribers
               PROVE  SubInv(sub[x], run'[sub[x].task])
    BY DEF StreamInv
  <2>1. sub[x] \in Subscriptions /\ sub[x].task \in Tasks
    BY DEF ManagerInv, TypeOK, Subscriptions
  <2>2. run[sub[x].task] \in Runs /\ run'[sub[x].task] \in Runs
    BY <2>1 DEF ManagerInv, TypeOK
  <2>3. Extends(run[sub[x].task], run'[sub[x].task])
    BY <2>1 DEF Evolves
  <2>4. SubInv(sub[x], run[sub[x].task])
    BY DEF ManagerInv, StreamInv
  <2> QED BY <2>1, <2>2, <2>3, <2>4, StreamStable
<1> QED BY <1>1, <1>2

LEMMA CancellersWait ==
  ASSUME ManagerInv, UNCHANGED canceller,
         \A t \in Tasks : Evolves(run[t], run'[t])
  PROVE  CancelInv'
<1> SUFFICES ASSUME NEW c \in Cancellers
             PROVE  LET r == run'[canceller[c].task] IN
                    /\ canceller[c].phase = "waiting" => r.cancelled
                    /\ canceller[c].phase = "true" => r.drive = "ended" /\ (r.cancelled \/ ~r.done)
  BY DEF CancelInv
<1>1. canceller[c].task \in Tasks
  BY DEF ManagerInv, TypeOK, Cancellations
<1>2. Evolves(run[canceller[c].task], run'[canceller[c].task])
  BY <1>1
<1> QED BY <1>2 DEF ManagerInv, CancelInv, Evolves

LEMMA RunFacts ==
  ASSUME ManagerInv, NEW t \in Tasks
  PROVE  run[t] \in Runs /\ BufferInv(run[t]) /\ DriveInv(run[t]) /\ Evolves(run[t], run[t])
BY EvolvesSame DEF ManagerInv, TypeOK, RunInv

\* One run evolves, the others stay as they are.
LEMMA OneEvolves ==
  ASSUME ManagerInv, NEW t \in Tasks, NEW r2, Evolves(run[t], r2), run' = [run EXCEPT ![t] = r2]
  PROVE  /\ run' \in [Tasks -> Runs]
         /\ run'[t] = r2
         /\ \A u \in Tasks : Evolves(run[u], run'[u])
         /\ \A u \in Tasks \ {t} : run'[u] = run[u]
<1>1. run \in [Tasks -> Runs] /\ r2 \in Runs
  BY DEF ManagerInv, TypeOK, Evolves
<1>2. run'[t] = r2 /\ \A u \in Tasks \ {t} : run'[u] = run[u]
  BY <1>1
<1> QED BY <1>1, <1>2, RunFacts

LEMMA VictimsAreFinished ==
  ASSUME ManagerInv, NEW t \in victims
  PROVE  t \in runs /\ run[t].done
BY DEF victims, done_ids

LEMMA KeptStays ==
  ASSUME ManagerInv, UNCHANGED runs,
         \A t \in Tasks : Evolves(run[t], run'[t]),
         \A t \in Tasks : run'[t].drive \in {"created", "running"}
                            => run[t].drive \in {"created", "running"}
  PROVE  KeptInv'
BY DEF ManagerInv, KeptInv, Evolves

LEMMA StartInv ==
  ASSUME ManagerInv, NEW t \in Tasks, start(t)
  PROVE  /\ ManagerInv'
         /\ \A u \in Tasks : /\ run'[u].base_seq = run[u].base_seq
                              /\ run'[u].events = run[u].events
                              /\ run'[u].done = run[u].done
<1>1. run[t].drive = "none" /\ run' = [run EXCEPT ![t] = [run[t] EXCEPT !.drive = "created"]]
  BY DEF start
<1>2. Evolves(run[t], [run[t] EXCEPT !.drive = "created"])
  BY <1>1, RunFacts, EvolvesStarted
<1>3. /\ run' \in [Tasks -> Runs]
      /\ \A u \in Tasks : Evolves(run[u], run'[u])
      /\ \A u \in Tasks \ {t} : run'[u] = run[u]
      /\ run'[t] = [run[t] EXCEPT !.drive = "created"]
  BY <1>1, <1>2, OneEvolves
<1>4. /\ run'[t].base_seq = run[t].base_seq /\ run'[t].events = run[t].events
      /\ run'[t].done = run[t].done /\ run'[t].drive = "created"
  BY <1>3, RunFacts DEF Runs
<1>5. UNCHANGED <<sub, canceller, down>>
  BY DEF start
<1>6. RunInv' /\ StreamInv' /\ CancelInv'
  BY <1>3, <1>5, RunsEvolve, CancellersWait
<1>7. runs' = (runs \ victims) \cup {t} /\ order' = Append(order, t)
  BY DEF start
<1>8. TypeOK'
  <2>1. order' \in Seq(Tasks)
    BY <1>7, AppendProperties DEF ManagerInv, TypeOK
  <2> QED BY <1>3, <1>5, <1>7, <2>1 DEF ManagerInv, TypeOK
<1>9. KeptInv'
  <2> SUFFICES ASSUME NEW u \in Tasks
               PROVE  /\ run'[u].drive \in {"created", "running"} => u \in runs'
                      /\ u \in runs' => run'[u].drive # "none"
    BY DEF KeptInv
  <2>1. CASE u = t
    BY <1>4, <1>7, <2>1
  <2>2. CASE u # t
    <3>1. run'[u] = run[u] /\ DriveInv(run[u])
      BY <1>3, <2>2, RunFacts
    <3>2. u \in victims => run[u].drive = "ended"
      BY <3>1, VictimsAreFinished DEF DriveInv
    <3> QED BY <1>7, <2>2, <3>1, <3>2 DEF ManagerInv, KeptInv
  <2> QED BY <2>1, <2>2
<1> QED BY <1>3, <1>4, <1>6, <1>8, <1>9 DEF ManagerInv

\* A run's log grows by one frame, which is its last one if the run is then done.
Grows(r, r2, last) ==
  /\ ~r.done
  /\ EndSeq(r2) = EndSeq(r) + 1
  /\ r.base_seq <= r2.base_seq /\ r2.base_seq <= EndSeq(r)
  /\ r2.done = last

\* A step of one run's background task that leaves r2.
LEMMA DriveStep ==
  ASSUME ManagerInv, NEW t \in Tasks, NEW r2, Evolves(run[t], r2),
         r2.drive \in {"created", "running"} => run[t].drive \in {"created", "running"},
         run' = [run EXCEPT ![t] = r2], UNCHANGED <<runs, order, sub, canceller, down>>
  PROVE  ManagerInv'
<1>1. /\ run' \in [Tasks -> Runs]
      /\ run'[t] = r2
      /\ \A u \in Tasks : Evolves(run[u], run'[u])
      /\ \A u \in Tasks \ {t} : run'[u] = run[u]
  BY OneEvolves
<1>2. RunInv' /\ StreamInv' /\ CancelInv'
  BY <1>1, RunsEvolve, CancellersWait
<1>3. KeptInv'
  <2>1. \A u \in Tasks : run'[u].drive \in {"created", "running"}
                            => run[u].drive \in {"created", "running"}
    BY <1>1
  <2> QED BY <1>1, <2>1, KeptStays
<1>4. TypeOK'
  BY <1>1 DEF ManagerInv, TypeOK
<1> QED BY <1>2, <1>3, <1>4 DEF ManagerInv

LEMMA DriveInvariant ==
  ASSUME ManagerInv, NEW t \in Tasks, Drive(t)
  PROVE  /\ ManagerInv'
         /\ UNCHANGED <<runs, order, sub, canceller, down>>
         /\ \A u \in Tasks \ {t} : run'[u] = run[u]
         /\ \/ \E last \in BOOLEAN : Grows(run[t], run'[t], last)
            \/ /\ run'[t].base_seq = run[t].base_seq
               /\ run'[t].events = run[t].events
               /\ run'[t].done = run[t].done
<1>0. run[t] \in Runs /\ BufferInv(run[t]) /\ DriveInv(run[t]) /\ run \in [Tasks -> Runs]
  BY RunFacts DEF ManagerInv, TypeOK
<1>1. CASE DriveBegins(t)
  <2> DEFINE q == [run[t] EXCEPT !.drive = "running"]
             r2 == append(q, "frame")
  <2>1. /\ run[t].drive = "created" /\ ~run[t].cancelled
        /\ run' = [run EXCEPT ![t] = r2]
        /\ UNCHANGED <<runs, order, sub, canceller, down>>
    BY <1>1 DEF DriveBegins
  <2>2. /\ Evolves(run[t], r2)
        /\ EndSeq(r2) = EndSeq(run[t]) + 1
        /\ r2.base_seq <= EndSeq(run[t])
        /\ ~r2.done
    BY <1>0, <2>1, EvolvesAppend
  <2> HIDE DEF r2
  <2>3. run'[t] = r2 /\ \A u \in Tasks \ {t} : run'[u] = run[u]
    BY <1>0, <2>1
  <2>4. Grows(run[t], r2, FALSE)
    BY <1>0, <2>1, <2>2 DEF Grows, Evolves, Extends, DriveInv, Runs
  <2> QED BY <2>1, <2>2, <2>3, <2>4, DriveStep
<1>2. CASE DriveNeverBegins(t)
  <2> DEFINE r2 == [run[t] EXCEPT !.drive = "ended"]
  <2>1. /\ run[t].drive = "created"
        /\ run' = [run EXCEPT ![t] = r2]
        /\ UNCHANGED <<runs, order, sub, canceller, down>>
    BY <1>2 DEF DriveNeverBegins
  <2>2. Evolves(run[t], r2)
    BY <1>0, <2>1, EvolvesUnbegun
  <2>3. r2.base_seq = run[t].base_seq /\ r2.events = run[t].events /\ r2.done = run[t].done
    BY <1>0 DEF Runs
  <2> HIDE DEF r2
  <2>4. run'[t] = r2 /\ \A u \in Tasks \ {t} : run'[u] = run[u]
    BY <1>0, <2>1
  <2> QED BY <2>1, <2>2, <2>3, <2>4, DriveStep
<1>3. CASE DriveAppends(t)
  <2> DEFINE r2 == append(run[t], "frame")
  <2>1. /\ run[t].drive = "running"
        /\ run' = [run EXCEPT ![t] = r2]
        /\ UNCHANGED <<runs, order, sub, canceller, down>>
    BY <1>3 DEF DriveAppends
  <2>2. run[t] = [run[t] EXCEPT !.drive = "running"]
    BY <1>0, <2>1 DEF Runs
  <2>3. /\ Evolves(run[t], r2)
        /\ EndSeq(r2) = EndSeq(run[t]) + 1
        /\ r2.base_seq <= EndSeq(run[t])
        /\ ~r2.done
    BY <1>0, <2>1, <2>2, EvolvesAppend
  <2> HIDE DEF r2
  <2>4. run'[t] = r2 /\ \A u \in Tasks \ {t} : run'[u] = run[u]
    BY <1>0, <2>1
  <2>5. Grows(run[t], r2, FALSE)
    BY <1>0, <2>1, <2>3 DEF Grows, Evolves, Extends, DriveInv, Runs
  <2> QED BY <2>1, <2>3, <2>4, <2>5, DriveStep
<1>4. CASE DriveEnds(t)
  <2>1. PICK kind \in Terminal :
          /\ run[t].cancelled => kind = "error"
          /\ run' = [run EXCEPT ![t] = [append(run[t], kind) EXCEPT !.done = TRUE,
                                                                    !.drive = "ended"]]
    BY <1>4 DEF DriveEnds
  <2> DEFINE r2 == [append(run[t], kind) EXCEPT !.done = TRUE, !.drive = "ended"]
  <2>2. run[t].drive = "running" /\ UNCHANGED <<runs, order, sub, canceller, down>>
    BY <1>4 DEF DriveEnds
  <2>3. /\ Evolves(run[t], r2)
        /\ EndSeq(r2) = EndSeq(run[t]) + 1
        /\ r2.base_seq <= EndSeq(run[t])
        /\ r2.done
    BY <1>0, <2>1, <2>2, EvolvesDone
  <2>4. run' = [run EXCEPT ![t] = r2]
    BY <2>1
  <2> HIDE DEF r2
  <2>5. run'[t] = r2 /\ \A u \in Tasks \ {t} : run'[u] = run[u]
    BY <1>0, <2>4
  <2>6. Grows(run[t], r2, TRUE)
    BY <1>0, <2>2, <2>3 DEF Grows, Evolves, Extends, DriveInv, Runs
  <2> QED BY <2>2, <2>3, <2>4, <2>5, <2>6, DriveStep
<1> QED BY <1>1, <1>2, <1>3, <1>4 DEF Drive

\* A step that leaves every log as it is.
SameLogs ==
  \A t \in Tasks : /\ run'[t].base_seq = run[t].base_seq
                   /\ run'[t].events = run[t].events
                   /\ run'[t].done = run[t].done

\* A canceller moves on while all else is as it was.
LEMMA CancellerStep ==
  ASSUME ManagerInv, NEW c \in Cancellers, NEW k \in Cancellations,
         canceller' = [canceller EXCEPT ![c] = k],
         UNCHANGED <<runs, order, run, sub, down>>,
         k.phase = "waiting" => run[k.task].cancelled,
         k.phase = "true" => run[k.task].drive = "ended"
                             /\ (run[k.task].cancelled \/ ~run[k.task].done)
  PROVE  ManagerInv' /\ SameLogs
<1>1. canceller' \in [Cancellers -> Cancellations]
  BY DEF ManagerInv, TypeOK
<1>2. CancelInv'
  BY DEF ManagerInv, TypeOK, CancelInv
<1>3. KeptInv' /\ RunInv' /\ StreamInv'
  BY DEF ManagerInv, KeptInv, RunInv, StreamInv
<1> QED BY <1>1, <1>2, <1>3 DEF ManagerInv, TypeOK, SameLogs

LEMMA CancelInvariant ==
  ASSUME ManagerInv, NEW c \in Cancellers, NEW t \in Tasks, cancel(c, t)
  PROVE  ManagerInv' /\ SameLogs /\ UNCHANGED sub
<1>1. UNCHANGED <<runs, order, sub, down>>
  BY DEF cancel
<1>2. CASE /\ t \notin runs \/ run[t].done
           /\ canceller' = [canceller EXCEPT ![c] = [phase |-> "false", task |-> t]]
           /\ UNCHANGED run
  BY <1>1, <1>2, CancellerStep DEF Cancellations
<1>3. CASE /\ t \in runs
           /\ ~run[t].done
           /\ run[t].drive \in {"created", "running"}
           /\ run' = [run EXCEPT ![t].cancelled = TRUE]
           /\ canceller' = [canceller EXCEPT ![c] = [phase |-> "waiting", task |-> t]]
  <2> DEFINE r2 == [run[t] EXCEPT !.cancelled = TRUE]
  <2>1. run' = [run EXCEPT ![t] = r2]
    BY <1>3
  <2>2. /\ r2.cancelled /\ r2.drive = run[t].drive
        /\ r2.base_seq = run[t].base_seq /\ r2.events = run[t].events /\ r2.done = run[t].done
    BY RunFacts DEF Runs
  <2>3. Evolves(run[t], r2)
    BY <1>3, RunFacts, EvolvesCancelled
  <2> HIDE DEF r2
  <2>4. /\ run' \in [Tasks -> Runs]
        /\ run'[t] = r2
        /\ \A u \in Tasks : Evolves(run[u], run'[u])
        /\ \A u \in Tasks \ {t} : run'[u] = run[u]
    BY <2>1, <2>3, OneEvolves
  <2>5. RunInv' /\ StreamInv'
    BY <1>1, <2>4, RunsEvolve
  <2>6. KeptInv'
    <3>1. \A u \in Tasks : run'[u].drive \in {"created", "running"}
                              => run[u].drive \in {"created", "running"}
      BY <1>3, <2>4
    <3> QED BY <1>1, <2>4, <3>1, KeptStays
  <2>7. CancelInv'
    <3> SUFFICES ASSUME NEW d \in Cancellers
                 PROVE  LET r == run'[canceller'[d].task] IN
                        /\ canceller'[d].phase = "waiting" => r.cancelled
                        /\ canceller'[d].phase = "true" => r.drive = "ended" /\ (r.cancelled \/ ~r.done)
      BY DEF CancelInv
    <3>1. CASE d = c
      BY <1>3, <2>2, <2>4, <3>1 DEF ManagerInv, TypeOK
    <3>2. CASE d # c
      <4>1. canceller'[d] = canceller[d] /\ canceller[d].task \in Tasks
        BY <1>3, <3>2 DEF ManagerInv, TypeOK, Cancellations
      <4>2. Evolves(run[canceller[d].task], run'[canceller[d].task])
        BY <2>4, <4>1
      <4> QED BY <4>1, <4>2 DEF ManagerInv, CancelInv, Evolves
    <3> QED BY <3>1, <3>2
  <2>8. TypeOK'
    <3>1. canceller' \in [Cancellers -> Cancellations]
      BY <1>3 DEF ManagerInv, TypeOK, Cancellations
    <3> QED BY <1>1, <2>4, <3>1 DEF ManagerInv, TypeOK
  <2>9. SameLogs
    BY <2>2, <2>4 DEF SameLogs
  <2> QED BY <1>1, <2>5, <2>6, <2>7, <2>8, <2>9 DEF ManagerInv
<1>4. CASE /\ t \in runs
           /\ ~run[t].done
           /\ run[t].drive = "ended"
           /\ canceller' = [canceller EXCEPT ![c] = [phase |-> "true", task |-> t]]
           /\ UNCHANGED run
  BY <1>1, <1>4, CancellerStep DEF Cancellations
<1> QED BY <1>2, <1>3, <1>4 DEF cancel

LEMMA CancelReturnsInvariant ==
  ASSUME ManagerInv, NEW c \in Cancellers, CancelReturns(c)
  PROVE  ManagerInv' /\ SameLogs /\ UNCHANGED sub
<1> DEFINE k == [canceller[c] EXCEPT !.phase = "true"]
<1>1. /\ canceller[c].phase = "waiting"
      /\ run[canceller[c].task].drive = "ended"
      /\ canceller' = [canceller EXCEPT ![c] = k]
      /\ UNCHANGED <<runs, order, run, sub, down>>
  BY DEF CancelReturns
<1>2. k \in Cancellations /\ k.task = canceller[c].task /\ k.phase = "true"
  BY DEF ManagerInv, TypeOK, Cancellations
<1>3. run[canceller[c].task].cancelled
  BY <1>1 DEF ManagerInv, CancelInv
<1> HIDE DEF k
<1> QED BY <1>1, <1>2, <1>3, CancellerStep

LEMMA AcloseInvariant ==
  ASSUME ManagerInv, aclose
  PROVE  ManagerInv' /\ SameLogs /\ UNCHANGED sub
<1>1. /\ run' = [t \in Tasks |-> [run[t] EXCEPT !.cancelled =
                                   @ \/ (t \in runs /\ run[t].drive # "ended")]]
      /\ down' = TRUE
      /\ UNCHANGED <<runs, order, sub, canceller>>
  BY DEF aclose
<1>2. ASSUME NEW t \in Tasks
      PROVE  /\ Evolves(run[t], run'[t]) /\ run'[t] \in Runs
             /\ run'[t].drive = run[t].drive
             /\ run'[t].base_seq = run[t].base_seq
             /\ run'[t].events = run[t].events
             /\ run'[t].done = run[t].done
  <2>1. run'[t] = [run[t] EXCEPT !.cancelled =
                     run[t].cancelled \/ (t \in runs /\ run[t].drive # "ended")]
    BY <1>1
  <2>2. run[t] \in Runs /\ BufferInv(run[t]) /\ DriveInv(run[t])
    BY RunFacts
  <2>3. CASE t \in runs /\ run[t].drive # "ended"
    <3>1. run'[t] = [run[t] EXCEPT !.cancelled = TRUE]
      BY <2>1, <2>3
    <3>2. run[t].drive \in {"created", "running"}
      BY <2>2, <2>3 DEF ManagerInv, KeptInv, Runs
    <3>3. Evolves(run[t], run'[t])
      BY <2>2, <3>1, <3>2, EvolvesCancelled
    <3> QED BY <2>2, <3>1, <3>3 DEF Runs
  <2>4. CASE ~(t \in runs /\ run[t].drive # "ended")
    <3>1. run[t].cancelled \in BOOLEAN /\ run'[t] = [run[t] EXCEPT !.cancelled = run[t].cancelled]
      BY <2>1, <2>2, <2>4 DEF Runs
    <3>2. run'[t] = run[t]
      BY <2>2, <3>1 DEF Runs
    <3> QED BY <2>2, <3>2, RunFacts
  <2> QED BY <2>3, <2>4
<1>3. run' \in [Tasks -> Runs]
  BY <1>1, <1>2
<1>4. RunInv' /\ StreamInv' /\ CancelInv' /\ KeptInv'
  BY <1>1, <1>2, <1>3, RunsEvolve, CancellersWait, KeptStays
<1>5. TypeOK'
  BY <1>1, <1>3 DEF ManagerInv, TypeOK
<1> QED BY <1>1, <1>2, <1>4, <1>5 DEF ManagerInv, SameLogs

\* A stream moves on while all else is as it was.
LEMMA StreamStep ==
  ASSUME ManagerInv, NEW x \in Subscribers, NEW s2 \in Subscriptions, Advance(x, s2),
         SubInv(s2, run[s2.task])
  PROVE  ManagerInv' /\ sub'[x] = s2 /\ \A y \in Subscribers \ {x} : sub'[y] = sub[y]
<1>1. /\ sub' = [sub EXCEPT ![x] = s2]
      /\ UNCHANGED <<runs, order, run, canceller, down>>
  BY DEF Advance
<1>2. sub \in [Subscribers -> Subscriptions]
  BY DEF ManagerInv, TypeOK
<1>3. /\ sub'[x] = s2 /\ \A y \in Subscribers \ {x} : sub'[y] = sub[y]
      /\ sub' \in [Subscribers -> Subscriptions]
  BY <1>1, <1>2
<1>4. StreamInv'
  <2> SUFFICES ASSUME NEW y \in Subscribers
               PROVE  SubInv(sub'[y], run[sub'[y].task])
    BY <1>1 DEF StreamInv
  <2> QED BY <1>3 DEF ManagerInv, StreamInv
<1>5. TypeOK'
  BY <1>1, <1>3 DEF ManagerInv, TypeOK
<1>6. RunInv' /\ KeptInv' /\ CancelInv'
  BY <1>1 DEF ManagerInv, RunInv, KeptInv, CancelInv
<1> QED BY <1>3, <1>4, <1>5, <1>6 DEF ManagerInv

LEMMA StreamFacts ==
  ASSUME ManagerInv, NEW x \in Subscribers
  PROVE  /\ sub[x] \in Subscriptions /\ sub[x].task \in Tasks
         /\ run[sub[x].task] \in Runs /\ BufferInv(run[sub[x].task])
         /\ SubInv(sub[x], run[sub[x].task])
<1>1. sub[x] \in Subscriptions /\ sub[x].task \in Tasks
  BY DEF ManagerInv, TypeOK, Subscriptions
<1> QED BY <1>1, RunFacts DEF ManagerInv, StreamInv

-----------------------------------------------------------------------------
(***************************************************************************)
(* What a client of the manager sees of a step.                            *)
(***************************************************************************)

\* Nothing is seen of a step that leaves the logs and every stream's view alone.
LEMMA HiddenStep ==
  ASSUME SameLogs, \A x \in Subscribers : View(sub'[x]) = View(sub[x])
  PROVE  UNCHANGED Log!log
<1>1. [t \in Tasks |-> EndSeq(run'[t])] = [t \in Tasks |-> EndSeq(run[t])]
  BY DEF SameLogs, EndSeq
<1>2. [t \in Tasks |-> run'[t].base_seq] = [t \in Tasks |-> run[t].base_seq]
  BY DEF SameLogs
<1>3. [t \in Tasks |-> run'[t].done] = [t \in Tasks |-> run[t].done]
  BY DEF SameLogs
<1>4. [x \in Subscribers |-> View(sub'[x])] = [x \in Subscribers |-> View(sub[x])]
  OBVIOUS
<1> QED BY <1>1, <1>2, <1>3, <1>4 DEF Log!log

\* A step of one stream is a read of its log.
LEMMA SeenStep ==
  ASSUME ManagerInv, NEW x \in Subscribers, NEW s2, Advance(x, s2)
  PROVE  Log!Reads(x, View(s2))
<1>1. sub \in [Subscribers -> Subscriptions] /\ sub' = [sub EXCEPT ![x] = s2] /\ UNCHANGED run
  BY DEF ManagerInv, TypeOK, Advance
<1>2. [y \in Subscribers |-> View(sub'[y])]
        = [[y \in Subscribers |-> View(sub[y])] EXCEPT ![x] = View(s2)]
  BY <1>1
<1> QED BY <1>1, <1>2 DEF Log!Reads

LEMMA GrowthStep ==
  ASSUME ManagerInv, NEW t \in Tasks, NEW last \in BOOLEAN,
         Grows(run[t], run'[t], last), run'[t] \in Runs,
         \A u \in Tasks \ {t} : run'[u] = run[u], UNCHANGED sub
  PROVE  Log!Grow(t, last)
<1>1. run[t] \in Runs /\ run[t].base_seq \in Nat /\ run'[t].base_seq \in Nat /\ EndSeq(run[t]) \in Nat
  BY RunFacts, EndSeqType DEF Runs
<1>2. ~run[t].done
  BY DEF Grows
<1>3. [u \in Tasks |-> EndSeq(run'[u])]
        = [[u \in Tasks |-> EndSeq(run[u])] EXCEPT ![t] = @ + 1]
  BY DEF Grows
<1>4. [u \in Tasks |-> run'[u].base_seq]
        = [[u \in Tasks |-> run[u].base_seq] EXCEPT ![t] = run'[t].base_seq]
  OBVIOUS
<1>5. run'[t].base_seq \in run[t].base_seq..EndSeq(run[t])
  BY <1>1 DEF Grows
<1>6. [u \in Tasks |-> run'[u].done] = [[u \in Tasks |-> run[u].done] EXCEPT ![t] = last]
  BY DEF Grows
<1> QED BY <1>2, <1>3, <1>4, <1>5, <1>6 DEF Log!Grow

-----------------------------------------------------------------------------
(***************************************************************************)
(* The steps of a stream keep the invariant and are steps of the log.      *)
(***************************************************************************)

LEMMA AttachInvariant ==
  ASSUME ManagerInv, NEW x \in Subscribers, NEW t \in Tasks, NEW last \in -1..MaxFrames,
         Attach(x, t, last)
  PROVE  ManagerInv' /\ Log!Follow(x, t, last + 1) /\ last + 1 \in 0..MaxFrames + 1
<1> DEFINE s == sub[x]
           s2 == Attached(s, t, last)
<1>1. s.phase = "idle" /\ Advance(x, s2)
  BY DEF Attach, Attached
<1>2. last \in Nat \cup {-1} /\ last + 1 \in 0..MaxFrames + 1
  BY ManagerAssumption
<1>3. s \in Subscriptions /\ s.got = <<>> /\ s.frames = <<>> /\ run[t] \in Runs
  BY <1>1, StreamFacts, RunFacts DEF SubInv, PhaseInv
<1>4. /\ s2 \in Subscriptions /\ SubInv(s2, run[t])
      /\ s2.phase = "attached" /\ s2.task = t /\ Position(s2) = last + 1
  BY <1>2, <1>3, AttachStream
<1> HIDE DEF s2
<1>5. ManagerInv'
  BY <1>1, <1>4, StreamStep
<1>6. View(s2) = [state |-> "following", of |-> t, at |-> last + 1]
  BY <1>4 DEF View, ReaderState
<1>7. Log!Reads(x, [state |-> "following", of |-> t, at |-> last + 1])
  <2>1. Log!Reads(x, View(s2))
    BY <1>1, SeenStep DEF Log!Reads
  <2> QED BY <1>6, <2>1 DEF Log!Reads
<1>8. View(sub[x]).state = "idle"
  BY <1>1 DEF View, ReaderState
<1> QED BY <1>2, <1>5, <1>7, <1>8 DEF Log!Follow

\* A stream that is not yet following or has stopped is seen as such.
LEMMA FollowingView ==
  ASSUME NEW x \in Subscribers, sub[x].phase \in {"attached", "reading", "yielding"}
  PROVE  Log!Following(x) /\ View(sub[x]).state = "following"
BY DEF Log!Following, View, ReaderState

LEMMA LeaveInvariant ==
  ASSUME ManagerInv, NEW x \in Subscribers, NEW phase \in {"gone", "dropped"},
         sub[x].phase \in {"attached", "reading", "yielding"},
         Advance(x, [sub[x] EXCEPT !.phase = phase])
  PROVE  ManagerInv' /\ Log!Leave(x)
<1> DEFINE s2 == [sub[x] EXCEPT !.phase = phase]
<1>1. s2.task = sub[x].task /\ s2.phase = phase
  BY StreamFacts DEF Subscriptions
<1>2. s2 \in Subscriptions /\ SubInv(s2, run[s2.task]) /\ Position(s2) = Position(sub[x])
  BY <1>1, StreamFacts, LeaveStream
<1> HIDE DEF s2
<1>3. ManagerInv'
  BY <1>2, StreamStep DEF s2
<1>4. View(s2) = [View(sub[x]) EXCEPT !.state = "left"]
  BY <1>1, <1>2 DEF View, ReaderState
<1>5. Log!Reads(x, [View(sub[x]) EXCEPT !.state = "left"])
  <2>1. Log!Reads(x, View(s2))
    BY SeenStep DEF s2, Log!Reads
  <2> QED BY <1>4, <2>1 DEF Log!Reads
<1> QED BY <1>3, <1>5, FollowingView DEF Log!Leave

\* A step of a stream between two frames is not seen.
LEMMA SilentInvariant ==
  ASSUME ManagerInv, NEW x \in Subscribers, NEW s2 \in Subscriptions, Advance(x, s2),
         SubInv(s2, run[s2.task]), s2.task = sub[x].task, Position(s2) = Position(sub[x]),
         sub[x].phase \in {"attached", "reading", "yielding"},
         s2.phase \in {"reading", "yielding"}
  PROVE  ManagerInv' /\ UNCHANGED Log!log
<1>1. ManagerInv' /\ sub'[x] = s2 /\ \A y \in Subscribers \ {x} : sub'[y] = sub[y]
  BY StreamStep
<1>2. View(s2) = View(sub[x])
  BY DEF View, ReaderState
<1>3. \A y \in Subscribers : View(sub'[y]) = View(sub[y])
  BY <1>1, <1>2
<1>4. SameLogs
  BY DEF Advance, SameLogs
<1> QED BY <1>1, <1>3, <1>4, HiddenStep

LEMMA BeginInvariant ==
  ASSUME ManagerInv, NEW x \in Subscribers, Begin(x)
  PROVE  ManagerInv' /\ (Log!Leave(x) \/ UNCHANGED Log!log)
<1> DEFINE s == sub[x]
           r == run[s.task]
           idx == IF s.last + 1 < r.base_seq THEN r.base_seq ELSE s.last + 1
           s2 == [s EXCEPT !.phase = "reading", !.idx = idx]
<1>1. CASE s.task \notin runs
  BY <1>1, LeaveInvariant DEF Begin
<1>2. CASE s.task \in runs
  <2>1. s.phase = "attached" /\ Advance(x, s2)
    BY <1>2 DEF Begin
  <2>2. s2 \in Subscriptions /\ SubInv(s2, r) /\ Position(s2) = Position(s)
    <3>1. r \in Runs /\ s \in Subscriptions /\ SubInv(s, r)
      BY StreamFacts
    <3>2. s2 = [s EXCEPT !.phase = "reading",
                         !.idx = IF s.last + 1 < r.base_seq THEN r.base_seq ELSE s.last + 1]
      OBVIOUS
    <3> HIDE DEF s2, r, s
    <3> QED BY <2>1, <3>1, <3>2, BeginStream
  <2>3. s2.task = s.task /\ s2.phase = "reading"
    BY StreamFacts DEF Subscriptions
  <2> HIDE DEF s2
  <2> QED BY <2>1, <2>2, <2>3, SilentInvariant
<1> QED BY <1>1, <1>2

LEMMA ReadInvariant ==
  ASSUME ManagerInv, NEW x \in Subscribers, Read(x)
  PROVE  ManagerInv' /\ UNCHANGED Log!log
<1> DEFINE s == sub[x]
           r == run[s.task]
           s2 == [s EXCEPT !.phase = "yielding", !.frames = unread(r, s.idx),
                           !.done = r.done, !.idx = EndSeq(r)]
<1>1. s.phase = "reading" /\ (s.idx < EndSeq(r) \/ r.done) /\ Advance(x, s2)
  BY DEF Read
<1>2. s2 \in Subscriptions /\ SubInv(s2, r) /\ Position(s2) = Position(s)
  <2>1. r \in Runs /\ BufferInv(r) /\ s \in Subscriptions /\ SubInv(s, r)
    BY StreamFacts
  <2>2. s2 = [s EXCEPT !.phase = "yielding", !.frames = unread(r, s.idx),
                       !.done = r.done, !.idx = EndSeq(r)]
    OBVIOUS
  <2> HIDE DEF s2, r, s
  <2> QED BY <1>1, <2>1, <2>2, ReadStream
<1>3. s2.task = s.task /\ s2.phase = "yielding"
  BY StreamFacts DEF Subscriptions
<1> HIDE DEF s2
<1> QED BY <1>1, <1>2, <1>3, SilentInvariant

LEMMA YieldInvariant ==
  ASSUME ManagerInv, NEW x \in Subscribers, Yield(x)
  PROVE  /\ ManagerInv'
         /\ \E n \in 0..EndSeq(run[sub[x].task]) : Log!Send(x, n)
<1> DEFINE s == sub[x]
           r == run[s.task]
           n == s.frames[1].id
           s2 == [s EXCEPT !.got = Append(@, Head(s.frames)), !.frames = Tail(@)]
<1>1. s.phase = "yielding" /\ s.frames # <<>> /\ Advance(x, s2)
  BY DEF Yield
<1>2. /\ s2 \in Subscriptions /\ SubInv(s2, r)
      /\ n \in Nat /\ n < EndSeq(r)
      /\ Follows(s, r, n)
      /\ Position(s2) = n + 1
  BY <1>1, StreamFacts, YieldStream
<1>3. s2.task = s.task /\ s2.phase = "yielding"
  BY <1>1, StreamFacts DEF Subscriptions
<1> HIDE DEF s2, n
<1>4. ManagerInv'
  BY <1>1, <1>2, <1>3, StreamStep
<1>5. View(s2) = [View(s) EXCEPT !.at = n + 1]
  BY <1>1, <1>2, <1>3 DEF View, ReaderState
<1>6. Log!Reads(x, [View(s) EXCEPT !.at = n + 1]) /\ Log!Following(x)
  <2>1. Log!Reads(x, View(s2))
    BY <1>1, SeenStep DEF Log!Reads
  <2> QED BY <1>1, <1>5, <2>1, FollowingView DEF Log!Reads
<1>7. EndSeq(r) \in Nat /\ Position(s) \in Nat /\ r.base_seq \in Nat /\ s.task \in Tasks
  BY StreamFacts, EndSeqType, PositionType DEF Runs
<1>8. n \in Position(s)..EndSeq(r) - 1 /\ (n > Position(s) => n <= r.base_seq)
  BY <1>2, <1>7 DEF Follows
<1>9. Log!Send(x, n)
  <2>1. View(s).at = Position(s) /\ View(s).of = s.task
    BY DEF View
  <2> HIDE DEF s
  <2>2. n \in View(s).at..EndSeq(run[View(s).of]) - 1 /\ (n > View(s).at => n <= run[View(s).of].base_seq)
    BY <1>8, <2>1
  <2> QED BY <1>6, <1>7, <2>1, <2>2 DEF Log!Send, s
<1> QED BY <1>2, <1>4, <1>7, <1>9

LEMMA YieldedInvariant ==
  ASSUME ManagerInv, NEW x \in Subscribers, Yielded(x)
  PROVE  ManagerInv' /\ (Log!Finish(x) \/ UNCHANGED Log!log)
<1> DEFINE s == sub[x]
           r == run[s.task]
           s2 == [s EXCEPT !.phase = IF s.done THEN "ended" ELSE "reading"]
<1>1. s.phase = "yielding" /\ s.frames = <<>> /\ Advance(x, s2)
  BY DEF Yielded
<1>2. /\ s2 \in Subscriptions /\ SubInv(s2, r) /\ Position(s2) = Position(s)
      /\ s.done => r.done /\ Position(s) >= EndSeq(r)
  BY <1>1, StreamFacts, YieldedStream
<1>3. s2.task = s.task /\ s2.phase = IF s.done THEN "ended" ELSE "reading"
  BY StreamFacts DEF Subscriptions
<1> HIDE DEF s2
<1>4. CASE ~s.done
  BY <1>1, <1>2, <1>3, <1>4, SilentInvariant
<1>5. CASE s.done
  <2>1. ManagerInv'
    BY <1>1, <1>2, <1>3, StreamStep
  <2>2. View(s2) = [View(s) EXCEPT !.state = "ended"]
    BY <1>2, <1>3, <1>5 DEF View, ReaderState
  <2>3. Log!Reads(x, [View(s) EXCEPT !.state = "ended"]) /\ Log!Following(x)
    <3>1. Log!Reads(x, View(s2))
      BY <1>1, SeenStep DEF Log!Reads
    <3> QED BY <1>1, <2>2, <3>1, FollowingView DEF Log!Reads
  <2>4. s.task \in Tasks
    BY StreamFacts
  <2>5. Log!Finish(x)
    <3>1. View(s).at = Position(s) /\ View(s).of = s.task
      BY DEF View
    <3> QED BY <1>2, <1>5, <2>3, <2>4, <3>1 DEF Log!Finish
  <2> QED BY <2>1, <2>5
<1> QED BY <1>4, <1>5

LEMMA DisconnectInvariant ==
  ASSUME ManagerInv, NEW x \in Subscribers, Disconnect(x)
  PROVE  ManagerInv' /\ Log!Leave(x)
BY LeaveInvariant DEF Disconnect

-----------------------------------------------------------------------------
(***************************************************************************)
(* The invariant and the refinement.                                       *)
(***************************************************************************)

LEMMA InitInvariant ==
  ASSUME Init
  PROVE  ManagerInv /\ Log!Init
<1> DEFINE r0 == [events |-> <<>>, base_seq |-> 0, done |-> FALSE,
                  drive |-> "none", cancelled |-> FALSE]
<1>1. PICK t \in Tasks :
        /\ sub = [x \in Subscribers |->
                    [phase |-> "idle", task |-> t, last |-> -1, idx |-> 0,
                     frames |-> <<>>, done |-> FALSE, got |-> <<>>]]
        /\ canceller = [c \in Cancellers |-> [phase |-> "idle", task |-> t]]
  BY DEF Init
<1> DEFINE s0 == [phase |-> "idle", task |-> t, last |-> -1, idx |-> 0,
                  frames |-> <<>>, done |-> FALSE, got |-> <<>>]
<1>2. r0 \in Runs /\ BufferInv(r0) /\ DriveInv(r0) /\ EndSeq(r0) = 0
  BY DEF Runs, BufferInv, DriveInv, EndSeq
<1>3. s0 \in Subscriptions
  BY DEF Subscriptions
<1>4. SubInv(s0, r0)
  BY DEF SubInv, PhaseInv, SentInv, GotInv
<1>5. Position(s0) = 0 /\ View(s0) = [state |-> "idle", of |-> t, at |-> 0]
  BY DEF Position, View, ReaderState
<1>6. /\ runs = {} /\ order = <<>> /\ down = FALSE
      /\ run = [u \in Tasks |-> r0]
      /\ sub = [x \in Subscribers |-> s0]
  BY <1>1 DEF Init
<1>7. TypeOK
  <2>1. canceller \in [Cancellers -> Cancellations]
    BY <1>1 DEF Cancellations
  <2>2. run \in [Tasks -> Runs] /\ sub \in [Subscribers -> Subscriptions]
    BY <1>2, <1>3, <1>6
  <2>3. order \in Seq(Tasks)
    BY <1>6, EmptySeq
  <2> QED BY <1>6, <2>1, <2>2, <2>3 DEF TypeOK
<1>8. RunInv /\ KeptInv
  BY <1>2, <1>6 DEF RunInv, KeptInv
<1>9. CancelInv
  BY <1>1 DEF CancelInv
<1>10. StreamInv
  BY <1>4, <1>6 DEF StreamInv
<1>11. Log!Init
  <2>1. [u \in Tasks |-> EndSeq(run[u])] = [u \in Tasks |-> 0]
    BY <1>2, <1>6
  <2>2. [u \in Tasks |-> run[u].base_seq] = [u \in Tasks |-> 0]
    BY <1>6
  <2>3. [u \in Tasks |-> run[u].done] = [u \in Tasks |-> FALSE]
    BY <1>6
  <2>4. [x \in Subscribers |-> View(sub[x])]
          = [x \in Subscribers |-> [state |-> "idle", of |-> t, at |-> 0]]
    BY <1>5, <1>6
  <2> QED BY <2>1, <2>2, <2>3, <2>4 DEF Log!Init
<1> QED BY <1>7, <1>8, <1>9, <1>10, <1>11 DEF ManagerInv

LEMMA NextInvariant ==
  ASSUME ManagerInv, [Next]_vars
  PROVE  ManagerInv' /\ [Log!Next]_(Log!log)
<1>1. ASSUME NEW t \in Tasks, start(t)
      PROVE  ManagerInv' /\ [Log!Next]_(Log!log)
  <2>1. ManagerInv' /\ SameLogs
    BY <1>1, StartInv DEF SameLogs
  <2>2. UNCHANGED sub
    BY <1>1 DEF start
  <2> QED BY <2>1, <2>2, HiddenStep
<1>2. ASSUME NEW t \in Tasks, Drive(t)
      PROVE  ManagerInv' /\ [Log!Next]_(Log!log)
  <2>1. /\ ManagerInv'
        /\ UNCHANGED sub
        /\ \A u \in Tasks \ {t} : run'[u] = run[u]
    BY <1>2, DriveInvariant
  <2>2. CASE \E last \in BOOLEAN : Grows(run[t], run'[t], last)
    <3>1. PICK last \in BOOLEAN : Grows(run[t], run'[t], last)
      BY <2>2
    <3>2. run'[t] \in Runs
      BY <2>1 DEF ManagerInv, TypeOK
    <3>3. Log!Grow(t, last)
      BY <2>1, <3>1, <3>2, GrowthStep
    <3> QED BY <2>1, <3>3 DEF Log!Next
  <2>3. CASE /\ run'[t].base_seq = run[t].base_seq
             /\ run'[t].events = run[t].events
             /\ run'[t].done = run[t].done
    <3>1. SameLogs
      BY <2>1, <2>3 DEF SameLogs
    <3> QED BY <2>1, <3>1, HiddenStep
  <2> QED BY <1>2, <2>2, <2>3, DriveInvariant
<1>3. ASSUME NEW c \in Cancellers, CancelReturns(c)
      PROVE  ManagerInv' /\ [Log!Next]_(Log!log)
  BY <1>3, CancelReturnsInvariant, HiddenStep
<1>4. ASSUME NEW c \in Cancellers, NEW t \in Tasks, cancel(c, t)
      PROVE  ManagerInv' /\ [Log!Next]_(Log!log)
  BY <1>4, CancelInvariant, HiddenStep
<1>5. CASE aclose
  BY <1>5, AcloseInvariant, HiddenStep
<1>6. ASSUME NEW x \in Subscribers, Subscriber(x)
      PROVE  ManagerInv' /\ [Log!Next]_(Log!log)
  <2>1. CASE Begin(x)
    BY <2>1, BeginInvariant DEF Log!Next
  <2>2. CASE Read(x)
    BY <2>2, ReadInvariant
  <2>3. CASE Yield(x)
    <3>1. ManagerInv' /\ \E n \in 0..EndSeq(run[sub[x].task]) : Log!Send(x, n)
      BY <2>3, YieldInvariant
    <3>2. sub[x].task \in Tasks /\ View(sub[x]).of = sub[x].task
      BY StreamFacts DEF View
    <3> QED BY <3>1, <3>2 DEF Log!Next
  <2>4. CASE Yielded(x)
    BY <2>4, YieldedInvariant DEF Log!Next
  <2> QED BY <1>6, <2>1, <2>2, <2>3, <2>4 DEF Subscriber
<1>7. ASSUME NEW x \in Subscribers, Disconnect(x)
      PROVE  ManagerInv' /\ [Log!Next]_(Log!log)
  BY <1>7, DisconnectInvariant DEF Log!Next
<1>8. ASSUME NEW x \in Subscribers, NEW t \in Tasks, NEW last \in -1..MaxFrames, Attach(x, t, last)
      PROVE  ManagerInv' /\ [Log!Next]_(Log!log)
  BY <1>8, AttachInvariant DEF Log!Next
<1>9. CASE UNCHANGED vars
  <2>1. UNCHANGED <<runs, order, run, sub, canceller, down>>
    BY <1>9 DEF vars
  <2>2. ManagerInv'
    BY <2>1 DEF ManagerInv, TypeOK, RunInv, KeptInv, CancelInv, StreamInv
  <2>3. SameLogs
    BY <2>1 DEF SameLogs
  <2> QED BY <2>1, <2>2, <2>3, HiddenStep
<1> QED BY <1>1, <1>2, <1>3, <1>4, <1>5, <1>6, <1>7, <1>8, <1>9 DEF Next

LEMMA ManagerInvariant == Spec => []ManagerInv
<1>1. Init => ManagerInv
  BY InitInvariant
<1>2. ManagerInv /\ [Next]_vars => ManagerInv'
  BY NextInvariant
<1> QED BY <1>1, <1>2, PTL DEF Spec

(***************************************************************************)
(* Whatever is started, trimmed, evicted, cancelled, disconnected and shut *)
(* down, and in whatever order, the manager is an EventLog to its clients: *)
(* subscribe() of runs.py never shows a frame twice, out of order, or past *)
(* one that its buffer still holds, and ends only where the log ends.      *)
(***************************************************************************)
THEOREM ManagerIsAnEventLog == Spec => ImplementsEventLog
<1>1. Init => Log!Init
  BY InitInvariant
<1>2. ManagerInv /\ [Next]_vars => [Log!Next]_(Log!log)
  BY NextInvariant
<1> QED BY <1>1, <1>2, ManagerInvariant, PTL DEF Spec, ImplementsEventLog, Log!Spec

-----------------------------------------------------------------------------
(***************************************************************************)
(* The properties of RunManager.                                           *)
(***************************************************************************)

(***************************************************************************)
(* Every variable stays in its type: in particular a buffer holds frames,  *)
(* and a subscriber's index and the ids it has sent are frame numbers.     *)
(***************************************************************************)
THEOREM TypeCorrect == Spec => []TypeOK
<1>1. ManagerInv => TypeOK
  BY DEF ManagerInv
<1> QED BY <1>1, ManagerInvariant, PTL

(***************************************************************************)
(* A stream sends frames after the Last-Event-ID it was given, in order    *)
(* and none twice, however often append() of runs.py trims the buffer      *)
(* between the frames subscribe() yields.                                  *)
(***************************************************************************)
THEOREM StreamsAreOrdered == Spec => []FramesInOrder
<1>1. ManagerInv => FramesInOrder
  BY DEF ManagerInv, StreamInv, SubInv, GotInv, FramesInOrder
<1> QED BY <1>1, ManagerInvariant, PTL

(***************************************************************************)
(* A frame that a stream skips was trimmed before the stream read it: a    *)
(* replay from a Last-Event-ID loses nothing that the buffer still holds.  *)
(***************************************************************************)
THEOREM ReplayIsComplete == Spec => []OnlyTrimmedFramesAreSkipped
<1>1. ManagerInv => OnlyTrimmedFramesAreSkipped
  BY DEF ManagerInv, StreamInv, SubInv, GotInv, OnlyTrimmedFramesAreSkipped
<1> QED BY <1>1, ManagerInvariant, PTL

(***************************************************************************)
(* subscribe() returns by itself only after the run's terminal frame: the  *)
(* run's `done` it saw was set in the step that appended that frame, so it *)
(* had copied everything up to it.                                         *)
(***************************************************************************)
THEOREM StreamsEndWithTheRun == Spec => []StreamEndsWithTerminalFrame
<1>1. ASSUME ManagerInv, NEW x \in Subscribers,
             sub[x].phase = "ended", sub[x].last < EndSeq(run[sub[x].task]) - 1
      PROVE  /\ sub[x].got # <<>> /\ Last(sub[x].got).kind \in Terminal
             /\ Last(sub[x].got).id = EndSeq(run[sub[x].task]) - 1
  <2> DEFINE s == sub[x]
             r == run[s.task]
             f == s.got[Len(s.got)]
             e == EndSeq(r)
  <2>1. /\ s \in Subscriptions /\ r \in Runs /\ e \in Nat
        /\ s.last \in Nat \cup {-1} /\ s.got \in Seq(Frames)
        /\ PhaseInv(s, r) /\ SentInv(s, r)
    BY <1>1, StreamFacts, EndSeqType DEF SubInv, Subscriptions
  <2>2. r.done /\ Position(s) >= e
    BY <1>1, <2>1 DEF PhaseInv
  <2>3. s.got # <<>>
    <3>1. s.got = <<>> => Position(s) = s.last + 1
      BY DEF Position
    <3> QED BY <1>1, <2>1, <2>2, <3>1
  <2>4. Len(s.got) \in 1..Len(s.got)
    BY <2>1, <2>3
  <2>5. f \in Frames /\ f.id \in Nat /\ FrameInv(f, r)
    BY <2>1, <2>4, FrameType DEF SentInv
  <2>6. Last(s.got) = f /\ Position(s) = f.id + 1
    BY <2>3 DEF Last, Position
  <2>7. f.id < e
    BY <2>5 DEF FrameInv
  <2>8. f.id = e - 1
    <3> HIDE DEF f, e
    <3> QED BY <2>1, <2>2, <2>5, <2>6, <2>7
  <2> QED BY <2>2, <2>3, <2>5, <2>6, <2>8 DEF FrameInv
<1>2. ManagerInv => StreamEndsWithTerminalFrame
  BY <1>1 DEF StreamEndsWithTerminalFrame
<1> QED BY <1>2, ManagerInvariant, PTL

(***************************************************************************)
(* POST /tasks/{id}/cancel answers true only when the run is over, and a   *)
(* run that had begun has then told its subscribers so by a task_error,    *)
(* the frame drive() appends when the cancellation reaches it (runs.py:95).*)
(***************************************************************************)
THEOREM CancelIsAnnounced == Spec => []CancelTellsSubscribers
<1>1. ASSUME ManagerInv, NEW c \in Cancellers, canceller[c].phase = "true",
             ~NeverBegan(canceller[c].task)
      PROVE  /\ run[canceller[c].task].drive = "ended"
             /\ run[canceller[c].task].done
             /\ Last(run[canceller[c].task].events).kind = "error"
  <2> DEFINE r == run[canceller[c].task]
  <2>1. canceller[c].task \in Tasks
    BY <1>1 DEF ManagerInv, TypeOK, Cancellations
  <2>2. r \in Runs /\ BufferInv(r) /\ DriveInv(r)
    BY <1>1, <2>1, RunFacts
  <2>3. r.drive = "ended" /\ (r.cancelled \/ ~r.done)
    BY <1>1 DEF ManagerInv, CancelInv
  <2>4. r.done
    <3>1. SUFFICES ASSUME ~r.done
                   PROVE  EndSeq(r) = 0
      BY <1>1, <2>3 DEF NeverBegan
    <3>2. r.events = <<>> /\ r.base_seq = 0
      BY <2>2, <2>3, <3>1 DEF BufferInv, DriveInv
    <3> QED BY <3>2 DEF EndSeq
  <2> QED BY <2>2, <2>3, <2>4 DEF DriveInv
<1>2. ManagerInv => CancelTellsSubscribers
  BY <1>1 DEF CancelTellsSubscribers
<1> QED BY <1>2, ManagerInvariant, PTL

(***************************************************************************)
(* start() evicts finished runs only, whatever keep_done is: a live run    *)
(* can always be found, followed and cancelled.                            *)
(***************************************************************************)
THEOREM EvictionSparesLiveRuns == Spec => []LiveRunsAreKept
<1>1. ManagerInv => LiveRunsAreKept
  BY DEF ManagerInv, KeptInv, LiveRunsAreKept
<1> QED BY <1>1, ManagerInvariant, PTL
=============================================================================
