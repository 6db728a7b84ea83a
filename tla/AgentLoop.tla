------------------------------ MODULE AgentLoop ------------------------------
(***************************************************************************)
(* The developer's ReAct loop and the review that follows it, call by call:*)
(* roles/developer_react.py, the tool node with tools/_approval.py,        *)
(* llm/transport.py, budget.py and guardrail.py, under any context engine  *)
(* and any tool envelope.                                                  *)
(*                                                                         *)
(* TaskRun keeps of a transcript only whether its newest call is answered  *)
(* and takes a batch of calls for one; here the transcript is whole.  The  *)
(* other roles, halts for the user and the verdict of the task are there.  *)
(***************************************************************************)
EXTENDS ContextWindow, ToolEnvelope

CONSTANTS
  Profiles,       \* settings, engine, budgets, and what models and tools may answer
  MaxInvocations  \* bound: a task's invocations, the first and its resumes

END == "__end__"

Calls == [tool : STRING, tainted : BOOLEAN]
Results == [size : Nat, hit : BOOLEAN]

\* DEFAULT_PARSER_RETRY_ATTEMPTS, and no role asks for another number.
Attempts == 2

IsProfile(c) ==
  /\ c.settings \in SettingsOver(c.settings.mcp) /\ Builds(c.settings)
  /\ c.engine \in Engines
  /\ c.guardrail \in {"off", "warn", "block"}
  /\ c.max_tokens \in Nat /\ c.max_tool_calls \in Nat
  /\ c.max_dev_rounds \in Nat \ {0} /\ c.max_revisions \in Nat
  /\ c.task \in Nat                        \* size of the first prompt
  /\ c.asks \subseteq Seq(Calls) /\ <<>> \in c.asks
  /\ c.results \subseteq Results /\ c.results # {}
  /\ c.markers \subseteq Nat \ {0} /\ c.markers # {}  \* sizes, whatever the summarizer writes
  /\ c.usages \subseteq Nat /\ c.usages # {}
  /\ IsFiniteSet(c.usages) /\ IsFiniteSet(c.asks)
  /\ c.answers \subseteq {"parsed", "unparsed", "none", "error"} /\ "parsed" \in c.answers

ASSUME LoopAssumption ==
  /\ \A c \in Profiles : IsProfile(c)
  /\ MaxInvocations \in Nat \ {0}

VARIABLES
  cfg,           \* the profile of this task
  dev_messages,  \* the transcript
  dev_round,
  revision_round,
  next,          \* the node the latest checkpoint names as next
  mode,          \* "live", "halted" for an approval, "down" after an exception, "returned"
  verdicts,      \* the answers to the calls of the newest batch, in their order
  budget,        \* BudgetTracker: total_tokens and tool_calls
  learned,       \* _needs_json_fallback holds the reviewer's model
  review,        \* model calls of the structured call at hand, and what it knew at its start
  spilled,       \* SpillStore: payloads
  spent,         \* what the developer's model has cost, and invocations so far
  shown,         \* calls a user was shown and approved
  acted          \* calls whose tool ran

vars == <<cfg, dev_messages, dev_round, revision_round, next, mode, verdicts, budget, learned,
          review, spilled, spent, shown, acted>>

Batch == Last(dev_messages).calls

Payloads == { Payload(m) : m \in Range(dev_messages) }

TypeOK ==
  /\ cfg \in Profiles
  /\ dev_round \in 0..cfg.max_dev_rounds + spent.invocations
  /\ revision_round \in 0..cfg.max_revisions + 1
  /\ next \in {"developer", "tools", "reviewer", END}
  /\ mode \in {"live", "halted", "down", "returned"}
  /\ (mode = "returned") <=> (next = END)
  /\ verdicts \in Seq({"approve", "deny"})
  /\ next = "tools" => CallsTools(Last(dev_messages)) /\ Len(verdicts) <= Len(Batch)
  /\ budget \in [tokens : Nat, calls : Nat]
  /\ learned \in BOOLEAN
  /\ review \in [knew : BOOLEAN, primary : Nat, fallback : Nat]
  /\ spilled \subseteq Payloads
  /\ spent \in [tokens : Nat, calls : Nat, invocations : 1..MaxInvocations]
  /\ shown \subseteq Nat \X Nat
  /\ acted \subseteq [at : Nat \X Nat, tool : resolved_tools(cfg.settings), tainted : BOOLEAN]

Fresh == [tokens |-> 0, calls |-> 0]

Init ==
  /\ cfg \in Profiles
  /\ dev_messages = <<>>
  /\ dev_round = 0 /\ revision_round = 0
  /\ next = "developer" /\ mode = "live"
  /\ verdicts = <<>>
  /\ budget = Fresh
  /\ learned = FALSE
  /\ review = [knew |-> FALSE, primary |-> 0, fallback |-> 0]
  /\ spilled = {}
  /\ spent = [tokens |-> 0, calls |-> 0, invocations |-> 1]
  /\ shown = {} /\ acted = {}

-----------------------------------------------------------------------------
(***************************************************************************)
(* The developer's turn.                                                   *)
(***************************************************************************)

At(node) == mode = "live" /\ next = node

\* Only the newest message is looked at.
new_tool_messages_last(ms) == { m \in {Last(ms)} : m.kind = "tool" }

\* _new_tool_messages: the trailing run of tool messages.
new_tool_messages(ms) ==
  { ms[i] : i \in { j \in 1..Len(ms) : \A k \in j..Len(ms) : ms[k].kind = "tool" } }

\* The "tool_response" checkpoint raises, before any model call.
Tripped ==
  /\ cfg.guardrail = "block"
  /\ dev_messages # <<>>
  /\ \E m \in new_tool_messages(dev_messages) : m.hit

convo == IF dev_messages = <<>> THEN <<SystemMessage, HumanMessage(cfg.task)>> ELSE dev_messages

\* One round more than the budget.
budget_used_late == dev_round > cfg.max_dev_rounds

budget_used == dev_round >= cfg.max_dev_rounds

\* The note joins a human message at the end, or follows any other.
noted == IF budget_used /\ Last(convo).kind # "human" THEN Append(convo, HumanMessage(1)) ELSE convo

llm_input(size) == apply(cfg.engine, noted, Marker(size))

\* The ceiling is looked at before the call is added.
record_before(b, used, calls) ==
  LET tokens == b.tokens + used IN
  [tokens |-> tokens,
   calls |-> b.calls + calls,
   raises |-> b.tokens > cfg.max_tokens \/ b.calls > cfg.max_tool_calls]

\* BudgetTracker.record, which raises before the tool calls are counted, then
\* record_tool_calls.  A ceiling in dollars works as the one in tokens.
record(b, used, calls) ==
  LET tokens == b.tokens + used
      over == tokens > cfg.max_tokens
      counted == IF over THEN b.calls ELSE b.calls + calls
  IN [tokens |-> tokens, calls |-> counted, raises |-> over \/ counted > cfg.max_tool_calls]

\* The call was made and paid for when the tracker raises; its response is lost.
developer_react ==
  /\ At("developer")
  /\ ~Tripped
  /\ \E used \in cfg.usages, calls \in (IF budget_used THEN {<<>>} ELSE cfg.asks) :
       LET tracker == record(budget, used, Len(calls)) IN
       /\ budget' = [tokens |-> tracker.tokens, calls |-> tracker.calls]
       /\ spent' = [spent EXCEPT !.tokens = @ + used, !.calls = @ + Len(calls)]
       /\ spilled' = spilled \cup summarize(cfg.engine, noted)
       /\ IF tracker.raises
          THEN mode' = "down" /\ UNCHANGED <<dev_messages, dev_round, next, verdicts, review>>
          ELSE /\ dev_messages' = Append(convo, AIMessage(Len(convo) + 1, calls))
               /\ dev_round' = dev_round + 1
               /\ next' = IF calls = <<>> THEN "reviewer" ELSE "tools"
               /\ verdicts' = <<>>
               /\ review' = [knew |-> learned, primary |-> 0, fallback |-> 0]
               /\ UNCHANGED mode
  /\ UNCHANGED <<cfg, revision_round, learned, shown, acted>>

\* The guardrail trips, or the model call fails.
DeveloperRaises ==
  /\ At("developer")
  /\ Tripped \/ "error" \in cfg.answers
  /\ mode' = "down"
  /\ UNCHANGED <<cfg, dev_messages, dev_round, revision_round, next, verdicts, budget, learned,
                 review, spilled, spent, shown, acted>>

-----------------------------------------------------------------------------
(***************************************************************************)
(* The tool node.  With approvals it starts over after each answer: an     *)
(* interrupted call takes the answers given so far, in the order of the    *)
(* calls, and the first call without one interrupts again.  What the       *)
(* approved calls of such a pass return is lost; that they ran is not.     *)
(***************************************************************************)

Gated == cfg.settings.tool_mode = "approval"

\* The newest answer is everybody's.
Approved_batch(nr) == verdicts # <<>> /\ Last(verdicts) = "approve"

Approved(nr) == ~Gated \/ (nr <= Len(verdicts) /\ verdicts[nr] = "approve")

\* ToolNode answers a call of a tool it does not hold with a message.
Executed(nr) == Approved(nr) /\ Batch[nr].tool \in resolved_tools(cfg.settings)

\* The built-in tools with a "tool_call" checkpoint; an MCP server may offer a "shell" of its
\* own where the built-in one is not registered.
Checked == {"write_text", "shell"} \ cfg.settings.mcp

\* The checkpoint raises before they act.
Trips(nr) == cfg.guardrail = "block" /\ Batch[nr].tainted /\ Batch[nr].tool \in Checked

Runs(nr) == Executed(nr) /\ ~Trips(nr)

Ran ==
  { [at |-> <<Last(dev_messages).id, nr>>, tool |-> Batch[nr].tool, tainted |-> Batch[nr].tainted] :
      nr \in { n \in 1..Len(Batch) : Runs(n) } }

ToolsHalt ==
  /\ At("tools")
  /\ Gated /\ Len(verdicts) < Len(Batch)
  /\ mode' = "halted"
  /\ acted' = acted \cup Ran
  /\ UNCHANGED <<cfg, dev_messages, dev_round, revision_round, next, verdicts, budget, learned,
                 review, spilled, spent, shown>>

\* A tool that raises is answered by handle_tool_errors, which a gated node lacks.
ToolsRaise ==
  /\ At("tools")
  /\ Gated
  /\ \E nr \in 1..Len(Batch) : Executed(nr)
  /\ mode' = "down"
  /\ acted' = acted \cup Ran
  /\ UNCHANGED <<cfg, dev_messages, dev_round, revision_round, next, verdicts, budget, learned,
                 review, spilled, spent, shown>>

Refusal == [size |-> 1, hit |-> FALSE]

tools ==
  /\ At("tools")
  /\ Gated => /\ Len(verdicts) = Len(Batch)
              /\ \A nr \in 1..Len(Batch) : Executed(nr) => ~Trips(nr)
  /\ \E results \in [1..Len(Batch) -> cfg.results \cup {Refusal}] :
       /\ \A nr \in 1..Len(Batch) :
            IF Runs(nr) THEN results[nr] \in cfg.results ELSE results[nr] = Refusal
       /\ dev_messages' = dev_messages \o
            [nr \in 1..Len(Batch) |-> ToolMessage(Last(dev_messages).id, nr, results[nr])]
  /\ next' = "developer"
  /\ acted' = acted \cup Ran
  /\ UNCHANGED <<cfg, dev_round, revision_round, mode, verdicts, budget, learned, review, spilled,
                 spent, shown>>

-----------------------------------------------------------------------------
(***************************************************************************)
(* The review: one structured() call of the same transport.                *)
(***************************************************************************)

ReviewOnly ==
  UNCHANGED <<cfg, verdicts, budget, spilled, spent, shown, acted>>

\* A revision is pushed into the transcript with fresh tool rounds.
Decides ==
  \/ /\ next' = END /\ mode' = "returned"
     /\ revision_round' = revision_round + 1
     /\ UNCHANGED <<dev_messages, dev_round>>
  \/ /\ dev_messages' = Append(dev_messages, HumanMessage(1))
     /\ dev_round' = 0
     /\ revision_round' = revision_round + 1
     /\ next' = IF revision_round < cfg.max_revisions THEN "developer" ELSE END
     /\ mode' = IF revision_round < cfg.max_revisions THEN "live" ELSE "returned"

Undecided == UNCHANGED <<dev_messages, dev_round, revision_round, next>>

\* None, or an answer that could not be parsed, the last of them.
fallback_due(answer, tries) == answer = "none" \/ (answer = "unparsed" /\ tries = Attempts)

\* with_structured_output, wrapped by retry_on_parser_error.
structured ==
  /\ At("reviewer")
  /\ ~learned
  /\ \E answer \in cfg.answers :
       /\ review' = [review EXCEPT !.primary = @ + 1]
       /\ learned' = fallback_due(answer, review.primary + 1)
       /\ IF answer = "parsed" THEN Decides ELSE Undecided
       /\ answer # "parsed" => mode' = IF answer = "error" THEN "down" ELSE "live"
  /\ ReviewOnly

\* After its last attempt the structured call starts over.
structured_via_json_prompt_again ==
  /\ At("reviewer")
  /\ learned
  /\ \E answer \in cfg.answers \ {"none"} :
       LET last == answer = "unparsed" /\ review.fallback + 1 = Attempts IN
       /\ review' = IF last THEN [review EXCEPT !.primary = 0, !.fallback = 0]
                           ELSE [review EXCEPT !.fallback = @ + 1]
       /\ learned' = ~last
       /\ IF answer = "parsed" THEN Decides ELSE Undecided
       /\ answer # "parsed" => mode' = IF answer = "error" THEN "down" ELSE "live"
  /\ ReviewOnly

\* The JSON prompt; parse errors raise after the last attempt.
structured_via_json_prompt ==
  /\ At("reviewer")
  /\ learned
  /\ \E answer \in cfg.answers \ {"none"} :
       /\ review' = [review EXCEPT !.fallback = @ + 1]
       /\ IF answer = "parsed" THEN Decides ELSE Undecided
       /\ answer # "parsed" =>
            mode' = IF answer = "error" \/ review.fallback + 1 = Attempts THEN "down" ELSE "live"
  /\ UNCHANGED learned
  /\ ReviewOnly

-----------------------------------------------------------------------------
(***************************************************************************)
(* Resumes.  Each compiles the graph anew, with a new transport and a new  *)
(* tracker; the bindings, and with them the spill store, stay.             *)
(***************************************************************************)

\* Anything but a token of approval denies.
classify_decision(decision) == IF decision = "approve" THEN "approve" ELSE "deny"

NewTransport == budget' = Fresh /\ learned' = FALSE

Recompiled ==
  /\ spent.invocations < MaxInvocations
  /\ spent' = [spent EXCEPT !.invocations = @ + 1]
  /\ NewTransport
  /\ mode' = "live"
  /\ UNCHANGED <<cfg, dev_messages, dev_round, revision_round, spilled, acted>>

ResumeToolCall ==
  /\ mode = "halted"
  /\ \E decision \in {"approve", "deny", "garbled"} :
       /\ verdicts' = Append(verdicts, classify_decision(decision))
       /\ shown' = IF decision = "approve"
                   THEN shown \cup {<<Last(dev_messages).id, Len(verdicts) + 1>>} ELSE shown
  /\ UNCHANGED <<next, review>>
  /\ Recompiled

\* A run that broke off is resumed at the reviewer, whose edge leads to the developer.
ResumeAtReviewer ==
  /\ mode = "down"
  /\ next' = "developer"
  /\ UNCHANGED <<verdicts, review, shown>>
  /\ Recompiled

-----------------------------------------------------------------------------

Step ==
  \/ developer_react \/ DeveloperRaises
  \/ ToolsHalt \/ ToolsRaise \/ tools
  \/ structured \/ structured_via_json_prompt

Next == Step \/ ResumeToolCall \/ ResumeAtReviewer

Spec == Init /\ [][Next]_vars

\* A model call answers or fails, and the loop goes on.
FairSpec == Spec /\ WF_vars(Step)

-----------------------------------------------------------------------------
(***************************************************************************)
(* Properties.                                                             *)
(***************************************************************************)

AboutToAsk == At("developer") /\ ~Tripped

\* A gated tool node raised, and the run was resumed past the calls it held.
Abandoned ==
  /\ Gated
  /\ \E i \in 1..Len(dev_messages) :
       /\ CallsTools(dev_messages[i])
       /\ i < Len(dev_messages) => dev_messages[i + 1].kind # "tool"

\* Whatever a window drops and its marker says, what the model gets is a transcript its
\* provider accepts (engine.py:199-206), as long as the protected head ends before the
\* first batch and no tool node raised.
PromptsAreLegal ==
  AboutToAsk /\ cfg.engine.first <= 2 /\ ~Abandoned =>
    \A size \in cfg.markers : Legal(llm_input(size))

\* A limit in messages is kept (engine.py:117).  One in tokens is not: nothing bounds the
\* marker, a sentence or a summary, though the comments say that the result lands well under
\* it (engine.py:166, 225).  Besides its head and its marker, a prompt over its limit holds
\* the newest message alone or no more than target_ratio of what the head leaves: so it is
\* over only where the marker takes more than the ratio leaves it, or the marker and the
\* newest message take more than the head leaves.
PromptFitsWindow ==
  AboutToAsk =>
    \A size \in cfg.markers :
      LET e == cfg.engine
          window == llm_input(size)
          left == e.limit - count_tokens(SubSeq(noted, 1, head(e, noted)))
          over == count_tokens(window) - e.limit
      IN should_compress(e, window) =>
           /\ e.unit = "tokens"
           /\ \/ left + over <= size + Last(noted).size
              \/ 100 * (left + over - size) <= left * e.ratio

\* A model that asked for results gets to see them: a window that protects more
\* messages than the batch and the closing note drops none of the newest results.
ResultsReachModel ==
  AboutToAsk /\ dev_messages # <<>> /\ cfg.engine.unit = "messages" =>
    LET new == new_tool_messages(dev_messages) IN
    cfg.engine.last > Cardinality(new) + (IF budget_used THEN 1 ELSE 0) =>
      \A size \in cfg.markers : new \subseteq Range(llm_input(size))

\* What the model is sent is a legal transcript with the results that it asked for, over
\* the limit of its window only for its head, its marker or its newest message.
PromptsAreSound == PromptsAreLegal /\ PromptFitsWindow /\ ResultsReachModel

\* In block mode no tool result that trips the guardrail is ever sent to the model,
\* in whichever place of its batch it came back, and after any number of resumes.
PoisonNeverReachesModel ==
  AboutToAsk /\ cfg.guardrail = "block" =>
    \A size \in cfg.markers : \A m \in Range(llm_input(size)) : ~m.hit

\* The tracker raises after the call that exceeds a ceiling and starts over with each
\* resume: an invocation spends at most one call more than it may (budget.py:37).
SpendingIsBounded ==
  /\ spent.tokens <= spent.invocations * (cfg.max_tokens + Max(cfg.usages))
  /\ spent.calls <= spent.invocations * (cfg.max_tool_calls + Max({ Len(a) : a \in cfg.asks }))

\* A tool that acts does so with leave: of the policy, of the settings, of the guardrail
\* and, in approval mode, of a user who was shown that very call and approved it.
OnlyPermittedToolsAct ==
  \A a \in acted :
    /\ cfg.settings.tool_mode = "read_only" =>
         a.tool \in {"glob", "read_text"} \cup cfg.settings.readers
    /\ Gated => a.at \in shown
    /\ a.tool \in {"shell", "memory"} \ cfg.settings.mcp => cfg.settings[a.tool]
    /\ cfg.guardrail = "block" /\ a.tainted => a.tool \notin Checked

\* A large result that a summary replaced can still be fetched from the spill store,
\* also one that was dropped only to keep the transcript legal.
DroppedResultsAreSpilled ==
  [][spent'.tokens > spent.tokens /\ cfg.engine.spill =>
       \A size \in cfg.markers :
         LET seen == Range(llm_input(size)) IN
         \A m \in Range(dev_messages) :
           Oversized(m) => m \in seen \/ Payload(m) \in spilled']_vars

\* A structured call costs at most Attempts model calls each way, and a model that
\* failed once is not asked for structured output again by the same transport.
StructuredRetriesAreBounded ==
  /\ review.primary <= Attempts /\ review.fallback <= Attempts
  /\ review.knew => review.primary = 0

\* Every invocation ends: it returns, halts for an approval or raises.
InvocationsEnd == []<>(mode # "live")
=============================================================================
