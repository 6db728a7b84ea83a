---------------------------- MODULE EventStream ----------------------------
(***************************************************************************)
(* What a run shows while it streams (agent_room/events.py, the producers  *)
(* in server/api.py and cli.py): LangGraph's events become frames, and the *)
(* text of the models passes a scrubber that hides <memory-context>        *)
(* fences however the text is cut into chunks. Text is a sequence of       *)
(* pieces: words and the two halves of each tag.                           *)
(***************************************************************************)
EXTENDS Integers, Sequences

CONSTANTS
  Nodes,       \* the nodes of the graph
  MaxFrames,   \* bound: frames up to the last event, task_started included
  MaxText,     \* bound: pieces of text the models write
  MaxChunk     \* bound: pieces in one chunk

Roles == {"planner", "developer", "reviewer", "delivery"}
NoRole == "none"
Pieces == {"word", "<memory-", "context>", "</memory-", "/context>"}

ASSUME StreamAssumption ==
  /\ Nodes \subseteq Roles \cup {"developer_tools", "verify", "supervisor"}
  /\ MaxFrames \in Nat /\ MaxText \in Nat /\ MaxChunk \in Nat

VARIABLES
  phase,     \* of the producer: "started", "streaming", "flushed", "finished", "failed"
  node,      \* the node under way
  fed,       \* the text so far: pieces and the node whose model wrote them
  scrubber,  \* inside a fence; positions of fed held back; role of the last token
  frames     \* what was shown: type, role, positions of fed

vars == <<phase, node, fed, scrubber, frames>>

\* _infer_role_from_metadata
RoleOf(n) ==
  CASE n \in Roles           -> n
    [] n = "developer_tools" -> "developer"
    [] OTHER                 -> NoRole

Fresh == [inside |-> FALSE, held |-> << >>, role |-> NoRole]

Init ==
  /\ phase = "started" /\ node = NoRole /\ fed = << >>
  /\ scrubber = Fresh
  /\ frames = << [type |-> "task_started", role |-> NoRole, text |-> << >>] >>

Shown(type, role, text) ==
  frames' = Append(frames, [type |-> type, role |-> role, text |-> text])

Room == phase = "streaming" /\ Len(frames) < MaxFrames

-----------------------------------------------------------------------------
(***************************************************************************)
(* The scrubber.                                                           *)
(***************************************************************************)

\* In a fence or not, the half of a tag held back, and the positions let out so far.
Reading(inside, held, out) == [inside |-> inside, held |-> held, out |-> out]

\* Inside a fence nothing is shown; it ends with the second half of a closing tag.
Inside(s, piece, p) ==
  IF piece = "/context>" /\ s.held # << >> THEN Reading(FALSE, << >>, s.out)
  ELSE Reading(TRUE, IF piece = "</memory-" THEN <<p>> ELSE << >>, s.out)

\* A held half is given up with what follows it.
Outside_forgets_half(s, piece, p) ==
  IF piece = "context>" /\ s.held # << >> THEN Reading(TRUE, << >>, Append(s.out, p))
  ELSE IF piece = "<memory-" THEN Reading(FALSE, <<p>>, s.out)
  ELSE Reading(FALSE, << >>, Append(s.out, p))

\* Outside, half an opening tag is held back until what follows it has come; the
\* second half is shown as the notice that something was redacted.
Outside(s, piece, p) ==
  IF piece = "context>" /\ s.held # << >> THEN Reading(TRUE, << >>, Append(s.out, p))
  ELSE IF piece = "<memory-" THEN Reading(FALSE, <<p>>, s.out \o s.held)
  ELSE Reading(FALSE, << >>, Append(s.out \o s.held, p))

\* The piece at position p of the text goes through.
step(s, text, p) ==
  IF s.inside THEN Inside(s, text[p].piece, p) ELSE Outside(s, text[p].piece, p)

\* The text after position n is fed: the positions shown, and the state the scrubber
\* is left in.
feed(s, text, n) ==
  LET run[p \in n..Len(text)] ==
        IF p = n THEN Reading(s.inside, s.held, << >>)
        ELSE step(run[p - 1], text, p)
  IN  run[Len(text)]

-----------------------------------------------------------------------------
(***************************************************************************)
(* The events of the graph.                                                *)
(***************************************************************************)

\* Tool nodes and the goal nodes start unannounced.
NodeStarts(n) ==
  /\ Room /\ node = NoRole
  /\ node' = n
  /\ IF n \in Roles THEN Shown("node_start", n, << >>) ELSE UNCHANGED frames
  /\ UNCHANGED <<phase, fed, scrubber>>

\* verify and supervisor are shown by what they found, if anything.
Outcome(n) == IF n = "verify" THEN "verification_completed" ELSE "supervisor_decided"

NodeEnds ==
  /\ Room /\ node # NoRole
  /\ node' = NoRole
  /\ IF node \in Roles THEN Shown("node_end", node, << >>)
     ELSE \/ node # "developer_tools" /\ Shown(Outcome(node), node, << >>)
          \/ UNCHANGED frames
  /\ UNCHANGED <<phase, fed, scrubber>>

\* A chunk of which nothing is let out is shown all the same.
Token_empty(chunk) ==
  /\ Room /\ node \in Roles \cup {"supervisor"}
  /\ Len(fed) + Len(chunk) <= MaxText
  /\ fed' = fed \o [k \in DOMAIN chunk |-> [piece |-> chunk[k], node |-> node]]
  /\ LET s == feed(scrubber, fed', Len(fed)) IN
     /\ scrubber' = [inside |-> s.inside, held |-> s.held, role |-> RoleOf(node)]
     /\ Shown("token", RoleOf(node), s.out)
  /\ UNCHANGED <<phase, node>>

\* The model of a node writes a chunk; what it lets out goes under the node's role.
Token(chunk) ==
  /\ Room /\ node \in Roles \cup {"supervisor"}
  /\ Len(fed) + Len(chunk) <= MaxText
  /\ fed' = fed \o [k \in DOMAIN chunk |-> [piece |-> chunk[k], node |-> node]]
  /\ LET s == feed(scrubber, fed', Len(fed)) IN
     /\ scrubber' = [inside |-> s.inside, held |-> s.held, role |-> RoleOf(node)]
     /\ IF s.out # << >> THEN Shown("token", RoleOf(node), s.out) ELSE UNCHANGED frames
  /\ UNCHANGED <<phase, node>>

Usage ==
  /\ Room /\ node \in Roles \cup {"supervisor"}
  /\ Shown("usage", RoleOf(node), << >>)
  /\ UNCHANGED <<phase, node, fed, scrubber>>

Tool(type) ==
  /\ Room /\ node = "developer_tools"
  /\ Shown(type, RoleOf(node), << >>)
  /\ UNCHANGED <<phase, node, fed, scrubber>>

-----------------------------------------------------------------------------
(***************************************************************************)
(* The producer.                                                           *)
(***************************************************************************)

Starts ==
  /\ phase = "started"
  /\ phase' = "streaming"
  /\ UNCHANGED <<node, fed, scrubber, frames>>

\* The stream ends and is not flushed.
StreamEnds_unflushed ==
  /\ phase = "streaming"
  /\ phase' = "flushed"
  /\ UNCHANGED <<node, fed, scrubber, frames>>

\* Half an opening tag is let out after all, an open fence is not.
StreamEnds ==
  /\ phase = "streaming"
  /\ phase' = "flushed"
  /\ IF ~scrubber.inside /\ scrubber.held # << >>
     THEN Shown("token", scrubber.role, scrubber.held)
     ELSE UNCHANGED frames
  /\ scrubber' = Fresh
  /\ UNCHANGED <<node, fed>>

Finishes ==
  /\ phase = "flushed"
  /\ phase' = "finished"
  /\ Shown("task_finished", NoRole, << >>)
  /\ UNCHANGED <<node, fed, scrubber>>

\* The stream or the snapshot raises: the run manager's frame comes last.
Fails ==
  /\ phase \in {"streaming", "flushed"}
  /\ phase' = "failed"
  /\ Shown("task_error", NoRole, << >>)
  /\ UNCHANGED <<node, fed, scrubber>>

Chunks == UNION {[1..n -> Pieces] : n \in 1..MaxChunk}

Next ==
  \/ Starts \/ NodeEnds \/ Usage \/ StreamEnds \/ Finishes \/ Fails
  \/ \E n \in Nodes : NodeStarts(n)
  \/ \E chunk \in Chunks : Token(chunk)
  \/ \E type \in {"tool_call", "tool_result"} : Tool(type)

Spec == Init /\ [][Next]_vars

-----------------------------------------------------------------------------
(***************************************************************************)
(* Properties, from the whole text and not from its chunks.                *)
(***************************************************************************)

TypeOK ==
  /\ phase \in {"started", "streaming", "flushed", "finished", "failed"}
  /\ node \in Nodes \cup {NoRole}
  /\ Len(fed) <= MaxText
  /\ \A p \in DOMAIN fed : fed[p] \in [piece : Pieces, node : Roles \cup {"supervisor"}]
  /\ scrubber.inside \in BOOLEAN /\ scrubber.role \in Roles \cup {NoRole}
  /\ Len(scrubber.held) <= 1
  /\ \A i \in DOMAIN frames :
       /\ frames[i].role \in Roles \cup {"verify", "supervisor", NoRole}
       /\ frames[i].text # << >> <=> frames[i].type = "token"

\* A tag is its two halves in a row.
Tag(text, first, second, i) ==
  i \in 1..(Len(text) - 1) /\ text[i].piece = first /\ text[i + 1].piece = second

Opens(text, i) == Tag(text, "<memory-", "context>", i)
Closes(text, i) == Tag(text, "</memory-", "/context>", i)

\* An opening tag covers all up to and with the first closing tag after it.
Covers(text, i, p) ==
  Opens(text, i) /\ i <= p /\ \A j \in (i + 2)..(p - 2) : ~Closes(text, j)

Fenced(text, p) == \E i \in 1..p : Covers(text, i, p)

\* The notice stands where the tag of a fence ends.
Notice(text, p) ==
  Covers(text, p - 1, p) /\ \A i \in 1..(p - 2) : ~Covers(text, i, p - 1)

\* The positions of the redacted text.
Redacted == {p \in 1..Len(fed) : Notice(fed, p) \/ ~Fenced(fed, p)}

AllShown == UNION {{frames[i].text[k] : k \in DOMAIN frames[i].text} : i \in DOMAIN frames}

HeldBack == IF scrubber.inside THEN {} ELSE {scrubber.held[k] : k \in DOMAIN scrubber.held}

\* What was shown comes in the order it was written in, and once.
InOrder ==
  \A i, j \in DOMAIN frames :
    \A k \in DOMAIN frames[i].text, l \in DOMAIN frames[j].text :
      i < j \/ (i = j /\ k < l) => frames[i].text[k] < frames[j].text[l]

\* While a run streams, what was shown and what is held back are the redacted text,
\* however it is cut into chunks and whichever model closes what another opened: nothing
\* fenced is shown, and nothing lost, repeated or reordered (events.py:189, :207, :216).
ShownIsRedaction == phase \in {"started", "streaming"} =>
  /\ InOrder
  /\ AllShown \cup HeldBack = Redacted
  /\ \A p \in AllShown, q \in HeldBack : p < q

\* When the outcome is sent, all of the redacted text has been, and nothing follows;
\* a run that fails has sent the first part of it (api.py:355-365, cli.py:90-104).
TextPrecedesOutcome ==
  /\ phase \in {"flushed", "finished", "failed"} => InOrder
  /\ phase \in {"flushed", "finished"} => AllShown = Redacted
  /\ phase = "failed" =>
       AllShown \subseteq Redacted /\ \A p \in Redacted \ AllShown, q \in AllShown : q < p
  /\ \A i \in DOMAIN frames : frames[i].type \in {"task_finished", "task_error"} => i = Len(frames)
=============================================================================
