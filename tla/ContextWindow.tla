---------------------------- MODULE ContextWindow ----------------------------
(***************************************************************************)
(* The window a context engine makes of a transcript: context/engine.py,   *)
(* context/summary.py, context/tokens.py, and the spilling of large tool   *)
(* results, tools/spill.py.                                                *)
(*                                                                         *)
(* A message is its kind, its size in tokens and, for the ReAct protocol,  *)
(* the calls an AI message makes (`id` is its place in the transcript) and *)
(* the call a tool message answers.  A marker is a human message of any    *)
(* size: a sentence with a count, or a summary as long as a model makes it.*)
(***************************************************************************)
EXTENDS Integers, Sequences, SequencesExt

Message(kind, size) ==
  [kind |-> kind, size |-> size, id |-> 0, calls |-> <<>>, nr |-> 0, hit |-> FALSE]

SystemMessage == Message("system", 1)
HumanMessage(size) == Message("human", size)
AIMessage(id, calls) == [Message("ai", 1) EXCEPT !.id = id, !.calls = calls]
ToolMessage(id, nr, result) ==
  [Message("tool", result.size) EXCEPT !.id = id, !.nr = nr, !.hit = result.hit]

Marker(size) == HumanMessage(size)

CallsTools(m) == m.kind = "ai" /\ m.calls # <<>>

count_tokens(ms) ==
  LET upto[i \in 0..Len(ms)] == IF i = 0 THEN 0 ELSE upto[i - 1] + ms[i].size
  IN upto[Len(ms)]

-----------------------------------------------------------------------------
(***************************************************************************)
(* WindowedContextEngine: a limit in messages or in tokens.                *)
(***************************************************************************)

NoOp == [unit |-> "none", limit |-> 0, first |-> 0, last |-> 0, ratio |-> 50, spill |-> FALSE]

\* __init__ raises for any other; `ratio` is target_ratio in percent.
Engines ==
  { e \in [unit : {"messages", "tokens"}, limit : Nat, first : Nat, last : Nat, ratio : 1..100,
           spill : BOOLEAN] :
      e.unit = "messages" => e.limit >= e.first + e.last + 1 } \cup {NoOp}

should_compress(e, ms) ==
  \/ e.unit = "messages" /\ Len(ms) > e.limit
  \/ e.unit = "tokens" /\ count_tokens(ms) > e.limit

\* Where the head ends: it gives up calls whose results would be dropped.
head(e, ms) ==
  LET n == IF e.first < Len(ms) THEN e.first ELSE Len(ms) IN
  CHOOSE k \in 0..n : /\ k > 0 => ~CallsTools(ms[k])
                      /\ \A j \in (k + 1)..n : CallsTools(ms[j])

\* The tail as it is sliced.
realigned_not(ms, i) == i

\* The tail gives up results whose calls are dropped.
realigned(ms, i) ==
  CHOOSE j \in i..Len(ms) + 1 : /\ j <= Len(ms) => ms[j].kind # "tool"
                                /\ \A k \in i..j - 1 : ms[k].kind = "tool"

tail_budget(e, ms) ==
  LET left == e.limit - count_tokens(SubSeq(ms, 1, head(e, ms)))
  IN IF left > 0 THEN (left * e.ratio) \div 100 ELSE 0

last_n(e, ms) == Len(ms) - e.last + 1

\* Where the tail begins as sliced: as far back as the budget goes, the newest
\* message being taken at any size.
tail_start(e, ms) ==
  IF e.unit = "messages" THEN last_n(e, ms)
  ELSE LET first == head(e, ms) + 1
           budget == tail_budget(e, ms)
           over(i) == count_tokens(SubSeq(ms, i, Len(ms))) > budget
       IN CHOOSE i \in first..Len(ms) + 1 :
            /\ i < Len(ms) => ~over(i)
            /\ i > first => i <= Len(ms) /\ over(i - 1)

tail(e, ms) == realigned(ms, tail_start(e, ms))

\* The results that realigning the tail gave up are forgotten.
dropped_as_sliced(e, ms) ==
  IF should_compress(e, ms) THEN SubSeq(ms, head(e, ms) + 1, tail_start(e, ms) - 1) ELSE <<>>

\* The middle.
dropped(e, ms) ==
  IF should_compress(e, ms) THEN SubSeq(ms, head(e, ms) + 1, tail(e, ms) - 1) ELSE <<>>

\* The window; with nothing to drop, a marker would only add a message.
apply(e, ms, marker) ==
  IF dropped(e, ms) = <<>> THEN ms
  ELSE SubSeq(ms, 1, head(e, ms)) \o <<marker>> \o SubSeq(ms, tail(e, ms), Len(ms))

-----------------------------------------------------------------------------
(***************************************************************************)
(* Spilling.  A payload is known by the message that brought it.  The      *)
(* summarizer is asked after the middle was spilled, so its failure, which *)
(* leaves a count for a marker, changes no more than the marker's size.    *)
(***************************************************************************)

SpillThreshold == 2

Oversized(m) == m.kind = "tool" /\ m.size > SpillThreshold

Payload(m) == <<m.id, m.nr>>

spill_messages(ms) == { Payload(m) : m \in { x \in Range(ms) : Oversized(x) } }

\* An engine without a store summarizes the middle as it is.
summarize(e, ms) == IF e.spill THEN spill_messages(dropped(e, ms)) ELSE {}

-----------------------------------------------------------------------------

\* What model providers accept: every tool message answers a call of the message
\* in front of its group, and every call is answered before the next message.
Legal(ms) ==
  \A i \in 1..Len(ms) :
    /\ ms[i].kind = "tool" =>
         /\ i > ms[i].nr
         /\ LET ai == ms[i - ms[i].nr] IN ai.kind = "ai" /\ ai.id = ms[i].id
    /\ CallsTools(ms[i]) =>
         \A nr \in 1..Len(ms[i].calls) :
           i + nr <= Len(ms) /\ ms[i + nr].kind = "tool" /\ ms[i + nr].nr = nr
                             /\ ms[i + nr].id = ms[i].id
=============================================================================
