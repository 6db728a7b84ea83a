---------------------------- MODULE AgentLoopProofs ----------------------------
(***************************************************************************)
(* Proofs about AgentLoop, for every profile and any number of invocations.*)
(***************************************************************************)
EXTENDS AgentLoop, ContextWindowProofs, FiniteSetTheorems

Messages == MessagesOf(Calls)

-----------------------------------------------------------------------------
(***************************************************************************)
(* Types, and how far the counters have come at each node.                 *)
(***************************************************************************)

RoundInv ==
  /\ next = "developer" => dev_round <= cfg.max_dev_rounds + spent.invocations - 1
  /\ next = "tools" => dev_round <= cfg.max_dev_rounds
  /\ next # END => revision_round <= cfg.max_revisions

\* Only a gated tool node halts, and only a gated one leaves the exception of a tool alone.
ModeInv ==
  /\ mode = "halted" => next = "tools" /\ Gated /\ Len(verdicts) < Len(Batch)
  /\ mode = "down" /\ next = "tools" => Gated
  /\ next # "developer" => dev_messages # <<>>

TypeInv == TypeOK /\ dev_messages \in Seq(Messages) /\ RoundInv /\ ModeInv

LEMMA ProfileType ==
  ASSUME NEW c \in Profiles
  PROVE  IsProfile(c) /\ MaxInvocations \in Nat \ {0}
BY LoopAssumption

\* The two lists a developer's turn works on: the transcript, begun if it is empty, and
\* what the budget note may add.
LEMMA NotedProperties ==
  ASSUME cfg \in Profiles, dev_messages \in Seq(Messages)
  PROVE  /\ convo \in Seq(Messages) /\ Len(convo) \in Nat \ {0}
         /\ dev_messages # <<>> => convo = dev_messages
         /\ dev_messages = <<>> =>
              Len(convo) = 2 /\ convo[1] = SystemMessage /\ convo[2] = HumanMessage(cfg.task)
         /\ noted \in Seq(Messages)
         /\ \/ noted = convo
            \/ /\ Len(noted) = Len(convo) + 1 /\ budget_used /\ Last(convo).kind # "human"
               /\ noted[Len(convo) + 1] = HumanMessage(1)
               /\ \A i \in 1..Len(convo) : noted[i] = convo[i]
<1>1. /\ SystemMessage \in Messages /\ HumanMessage(cfg.task) \in Messages
      /\ HumanMessage(1) \in Messages
  <2>1. cfg.task \in Nat
    BY ProfileType DEF IsProfile
  <2> QED
    BY <2>1, MessageTypes DEF Messages
<1>2. /\ convo \in Seq(Messages) /\ Len(convo) \in Nat \ {0}
      /\ dev_messages # <<>> => convo = dev_messages
      /\ dev_messages = <<>> =>
           Len(convo) = 2 /\ convo[1] = SystemMessage /\ convo[2] = HumanMessage(cfg.task)
  <2>1. CASE dev_messages = <<>>
    <3>1. convo = <<SystemMessage, HumanMessage(cfg.task)>>
      BY <2>1 DEF convo
    <3> QED
      BY <1>1, <2>1, <3>1
  <2>2. CASE dev_messages # <<>>
    BY <2>2, EmptySeq DEF convo
  <2> QED
    BY <2>1, <2>2
<1>3. CASE budget_used /\ Last(convo).kind # "human"
  <2>1. noted = Append(convo, HumanMessage(1))
    BY <1>3 DEF noted
  <2> HIDE DEF noted, convo
  <2> QED
    BY <1>1, <1>2, <1>3, <2>1, AppendProperties
<1>4. CASE ~(budget_used /\ Last(convo).kind # "human")
  BY <1>2, <1>4 DEF noted
<1> QED
  BY <1>2, <1>3, <1>4

\* The model is sent nothing else than the transcript and prompts.
LEMMA NotedRange ==
  ASSUME cfg \in Profiles, dev_messages \in Seq(Messages), NEW i \in 1..Len(noted)
  PROVE  \/ noted[i] \in Range(dev_messages)
         \/ noted[i].kind \in {"system", "human"} /\ noted[i].hit = FALSE
<1>1. /\ Len(convo) \in Nat
      /\ dev_messages # <<>> => convo = dev_messages
      /\ dev_messages = <<>> =>
           Len(convo) = 2 /\ convo[1] = SystemMessage /\ convo[2] = HumanMessage(cfg.task)
      /\ \/ noted = convo
         \/ /\ Len(noted) = Len(convo) + 1
            /\ noted[Len(convo) + 1] = HumanMessage(1)
            /\ \A j \in 1..Len(convo) : noted[j] = convo[j]
  BY NotedProperties
<1>2. CASE i \in 1..Len(convo)
  <2>1. noted[i] = convo[i]
    BY <1>1, <1>2
  <2>2. CASE dev_messages = <<>>
    <3>1. i \in 1..2
      BY <1>1, <1>2, <2>2
    <3>2. i = 1 \/ i = 2
      BY <3>1
    <3> QED
      BY <1>1, <2>1, <2>2, <3>2 DEF SystemMessage, HumanMessage, Message
  <2>3. CASE dev_messages # <<>>
    BY <1>1, <1>2, <2>1, <2>3, RangeEquality
  <2> QED
    BY <2>2, <2>3
<1>3. CASE i \notin 1..Len(convo)
  <2>1. noted[i] = HumanMessage(1)
    <3> HIDE DEF convo, noted
    <3>1. noted # convo
      BY <1>3
    <3>2. i = Len(convo) + 1
      BY <1>1, <1>3, <3>1
    <3> QED
      BY <1>1, <3>1, <3>2
  <2> QED
    BY <2>1 DEF HumanMessage, Message
<1> QED
  BY <1>2, <1>3

LEMMA SpillsPayloads ==
  ASSUME cfg \in Profiles, dev_messages \in Seq(Messages)
  PROVE  summarize(cfg.engine, noted) \subseteq Payloads
<1> DEFINE e == cfg.engine
           d == dropped(e, noted)
<1>1. e \in Engines /\ noted \in Seq(Messages)
  BY ProfileType, NotedProperties DEF IsProfile
<1>2. \A x \in Range(d) : Oversized(x) => x \in Range(dev_messages)
  <2>1. CASE ~should_compress(e, noted)
    <3>1. d = <<>>
      BY <2>1 DEF dropped
    <3>2. Range(d) = {}
      BY <3>1 DEF Range
    <3> QED
      BY <3>2
  <2>2. CASE should_compress(e, noted)
    <3> DEFINE h == head(e, noted)
               t == tail(e, noted)
               L == Len(noted)
    <3>1. /\ d \in Seq(Messages) /\ Len(d) = t - h - 1
          /\ \A i \in h + 1..t - 1 : d[i - h] = noted[i]
      BY <1>1, <2>2, DroppedProperties
    <3>2. h \in Nat /\ t \in Nat /\ L \in Nat /\ h + 1 <= t /\ t <= L + 1
      BY <1>1, <2>2, TailProperties, LenProperties
    <3>3. Range(d) = { d[j] : j \in 1..Len(d) }
      BY <3>1, RangeEquality
    <3> HIDE DEF d, h, t, L
    <3>4. ASSUME NEW j \in 1..Len(d), Oversized(d[j])
          PROVE  d[j] \in Range(dev_messages)
      <4> DEFINE i == j + h
      <4>1. i \in h + 1..t - 1 /\ i - h = j /\ i \in 1..L
        BY <3>1, <3>2
      <4>2. d[j] = noted[i]
        BY <3>1, <4>1
      <4>3. noted[i].kind = "tool"
        BY <3>4, <4>2 DEF Oversized
      <4> HIDE DEF i
      <4> QED
        BY <4>1, <4>2, <4>3, NotedRange DEF L
    <3> QED
      BY <3>3, <3>4
  <2> QED
    BY <2>1, <2>2
<1> QED
  BY <1>2 DEF summarize, spill_messages, Payloads

\* A transcript only grows.
LEMMA PayloadsGrow ==
  ASSUME dev_messages \in Seq(Messages), dev_messages' \in Seq(Messages),
         Len(dev_messages) <= Len(dev_messages'),
         \A i \in 1..Len(dev_messages) : dev_messages'[i] = dev_messages[i]
  PROVE  Payloads \subseteq Payloads'
<1>1. /\ Range(dev_messages) = { dev_messages[i] : i \in 1..Len(dev_messages) }
      /\ Range(dev_messages') = { dev_messages'[i] : i \in 1..Len(dev_messages') }
  BY RangeEquality
<1>2. Len(dev_messages) \in Nat /\ Len(dev_messages') \in Nat
  BY LenProperties
<1>3. \A i \in 1..Len(dev_messages) : i \in 1..Len(dev_messages')
  BY <1>2
<1>4. Range(dev_messages) \subseteq Range(dev_messages')
  BY <1>1, <1>3
<1> QED
  BY <1>4 DEF Payloads

\* The tracker counts every call, and raises no later than the call that exceeds.
LEMMA RecordType ==
  ASSUME NEW b \in [tokens : Nat, calls : Nat], NEW used \in Nat, NEW calls \in Nat,
         cfg \in Profiles
  PROVE  LET tracker == record(b, used, calls) IN
         /\ tracker.tokens = b.tokens + used
         /\ tracker.calls = IF tracker.tokens > cfg.max_tokens THEN b.calls ELSE b.calls + calls
         /\ tracker.tokens \in Nat /\ tracker.calls \in Nat
         /\ tracker.raises <=> \/ tracker.tokens > cfg.max_tokens
                               \/ tracker.calls > cfg.max_tool_calls
<1> DEFINE r == record(b, used, calls)
           tokens == b.tokens + used
           counted == IF tokens > cfg.max_tokens THEN b.calls ELSE b.calls + calls
<1>1. r = [tokens |-> tokens, calls |-> counted,
           raises |-> tokens > cfg.max_tokens \/ counted > cfg.max_tool_calls]
  BY DEF record
<1>2. tokens \in Nat /\ counted \in Nat
  OBVIOUS
<1> HIDE DEF r, tokens, counted
<1>3. /\ r.tokens = tokens /\ r.calls = counted
      /\ r.raises <=> tokens > cfg.max_tokens \/ counted > cfg.max_tool_calls
  BY <1>1
<1> QED
  BY <1>2, <1>3 DEF r, tokens, counted

LEMMA Counters ==
  ASSUME TypeInv
  PROVE  /\ cfg \in Profiles /\ dev_messages \in Seq(Messages)
         /\ cfg.max_dev_rounds \in Nat \ {0} /\ cfg.max_revisions \in Nat
         /\ cfg.max_tokens \in Nat /\ cfg.max_tool_calls \in Nat
         /\ dev_round \in Nat /\ revision_round \in Nat
         /\ budget \in [tokens : Nat, calls : Nat] /\ learned \in BOOLEAN
         /\ spent \in [tokens : Nat, calls : Nat, invocations : 1..MaxInvocations]
         /\ spent.invocations \in Nat \ {0}
<1>1. /\ cfg \in Profiles /\ dev_messages \in Seq(Messages)
      /\ budget \in [tokens : Nat, calls : Nat] /\ learned \in BOOLEAN
      /\ spent \in [tokens : Nat, calls : Nat, invocations : 1..MaxInvocations]
      /\ dev_round \in 0..cfg.max_dev_rounds + spent.invocations
      /\ revision_round \in 0..cfg.max_revisions + 1
  BY DEF TypeInv, TypeOK
<1>2. /\ cfg.max_dev_rounds \in Nat \ {0} /\ cfg.max_revisions \in Nat
      /\ cfg.max_tokens \in Nat /\ cfg.max_tool_calls \in Nat
      /\ MaxInvocations \in Nat \ {0}
  BY <1>1, ProfileType DEF IsProfile
<1>3. spent.invocations \in Nat \ {0}
  BY <1>1, <1>2
<1>4. dev_round \in Nat /\ revision_round \in Nat
  BY <1>1, <1>2, <1>3
<1> QED
  BY <1>1, <1>2, <1>3, <1>4

LEMMA DeveloperTypes ==
  ASSUME TypeInv, developer_react
  PROVE  TypeInv'
<1>1. /\ cfg \in Profiles /\ dev_messages \in Seq(Messages)
      /\ mode = "live" /\ next = "developer"
      /\ dev_round \in Nat /\ budget \in [tokens : Nat, calls : Nat] /\ learned \in BOOLEAN
      /\ spent.invocations \in Nat \ {0}
      /\ spent \in [tokens : Nat, calls : Nat, invocations : 1..MaxInvocations]
      /\ revision_round \in 0..cfg.max_revisions + 1 /\ revision_round <= cfg.max_revisions
      /\ dev_round <= cfg.max_dev_rounds + spent.invocations - 1
      /\ spilled \subseteq Payloads
  BY Counters DEF TypeInv, TypeOK, RoundInv, developer_react, At, END
<1>2. UNCHANGED <<cfg, revision_round, learned, shown, acted>>
  BY DEF developer_react
<1>3. PICK used \in cfg.usages, calls \in (IF budget_used THEN {<<>>} ELSE cfg.asks) :
        LET tracker == record(budget, used, Len(calls)) IN
        /\ budget' = [tokens |-> tracker.tokens, calls |-> tracker.calls]
        /\ spent' = [spent EXCEPT !.tokens = @ + used, !.calls = @ + Len(calls)]
        /\ spilled' = spilled \cup summarize(cfg.engine, noted)
        /\ IF tracker.raises
           THEN mode' = "down" /\ UNCHANGED <<dev_messages, dev_round, next, verdicts, review>>
           ELSE /\ dev_messages' = Append(convo, AIMessage(Len(convo) + 1, calls))
                /\ dev_round' = dev_round + 1
                /\ next' = IF calls = <<>> THEN "reviewer" ELSE "tools"
                /\ verdicts' = <<>>
                /\ review' = [knew |-> learned, primary |-> 0, fallback |-> 0]
                /\ UNCHANGED mode
  BY DEF developer_react
<1> DEFINE tracker == record(budget, used, Len(calls))
<1>4. /\ used \in Nat /\ calls \in Seq(Calls) /\ Len(calls) \in Nat
      /\ cfg.max_dev_rounds \in Nat \ {0} /\ cfg.max_revisions \in Nat
      /\ budget_used => calls = <<>>
  BY <1>1, ProfileType, EmptySeq, LenProperties DEF IsProfile
<1>5. tracker.tokens \in Nat /\ tracker.calls \in Nat
  BY <1>1, <1>4, RecordType
<1> HIDE DEF tracker
<1>6. /\ budget' \in [tokens : Nat, calls : Nat]
      /\ spent' \in [tokens : Nat, calls : Nat, invocations : 1..MaxInvocations]
      /\ spent'.invocations = spent.invocations
      /\ spilled' \subseteq Payloads
  <2>1. budget' = [tokens |-> tracker.tokens, calls |-> tracker.calls]
    BY <1>3 DEF tracker
  <2>2. spent' = [spent EXCEPT !.tokens = @ + used, !.calls = @ + Len(calls)]
    BY <1>3
  <2>3. spilled' = spilled \cup summarize(cfg.engine, noted)
    BY <1>3
  <2>4. spent.tokens + used \in Nat /\ spent.calls + Len(calls) \in Nat
    <3>1. spent.tokens \in Nat /\ spent.calls \in Nat
      BY <1>1
    <3>2. used \in Nat /\ Len(calls) \in Nat
      BY <1>4
    <3> QED
      BY <3>1, <3>2
  <2> QED
    BY <1>1, <1>5, <2>1, <2>2, <2>3, <2>4, SpillsPayloads
<1>7. CASE tracker.raises
  <2>1. mode' = "down" /\ UNCHANGED <<dev_messages, dev_round, next, verdicts, review>>
    BY <1>3, <1>7 DEF tracker
  <2>2. TypeOK'
    <3>1. next' = "developer" /\ dev_round' \in 0..cfg.max_dev_rounds + spent'.invocations
      BY <1>1, <1>6, <2>1 DEF TypeInv, TypeOK
    <3>2. spilled' \subseteq Payloads'
      BY <1>6, <2>1 DEF Payloads
    <3> QED
      BY <1>1, <1>2, <1>6, <2>1, <3>1, <3>2 DEF TypeInv, TypeOK, END
  <2>3. RoundInv' /\ ModeInv'
    BY <1>1, <1>2, <1>6, <2>1 DEF TypeInv, RoundInv, ModeInv, Gated
  <2> QED
    BY <2>1, <2>2, <2>3 DEF TypeInv
<1>8. CASE ~tracker.raises
  <2>1. /\ dev_messages' = Append(convo, AIMessage(Len(convo) + 1, calls))
        /\ dev_round' = dev_round + 1
        /\ next' = IF calls = <<>> THEN "reviewer" ELSE "tools"
        /\ verdicts' = <<>>
        /\ review' = [knew |-> learned, primary |-> 0, fallback |-> 0]
        /\ UNCHANGED mode
    BY <1>3, <1>8 DEF tracker
  <2>2. /\ convo \in Seq(Messages) /\ Len(convo) \in Nat
        /\ dev_messages # <<>> => convo = dev_messages
    BY <1>1, NotedProperties
  <2>3. AIMessage(Len(convo) + 1, calls) \in Messages
    <3>1. Len(convo) + 1 \in Nat
      BY <2>2
    <3> QED
      BY <1>4, <3>1, MessageTypes DEF Messages
  <2> DEFINE ai == AIMessage(Len(convo) + 1, calls)
  <2>4. ai.kind = "ai" /\ ai.calls = calls
    BY DEF AIMessage, Message
  <2> HIDE DEF ai
  <2>5. /\ dev_messages' \in Seq(Messages) /\ dev_messages' # <<>>
        /\ Len(dev_messages') = Len(convo) + 1
        /\ \A i \in 1..Len(convo) : dev_messages'[i] = convo[i]
        /\ dev_messages'[Len(convo) + 1] = ai
    BY <2>1, <2>2, <2>3, AppendProperties DEF ai
  <2>6. Payloads \subseteq Payloads'
    <3>1. CASE dev_messages = <<>>
      <4>1. Payloads = {}
        BY <3>1 DEF Payloads, Range
      <4> QED
        BY <4>1
    <3>2. CASE dev_messages # <<>>
      BY <1>1, <2>2, <2>5, <3>2, PayloadsGrow
    <3> QED
      BY <3>1, <3>2
  <2>7. Last(dev_messages') = ai
    BY <2>5 DEF Last
  <2>8. next' = "tools" => CallsTools(Last(dev_messages'))
    BY <2>1, <2>4, <2>7 DEF CallsTools
  <2>9. dev_round < cfg.max_dev_rounds \/ calls = <<>>
    BY <1>1, <1>4 DEF budget_used
  <2>10. RoundInv'
    BY <1>1, <1>2, <1>4, <1>6, <2>1, <2>9 DEF RoundInv, END
  <2>11. ModeInv'
    BY <1>1, <2>1, <2>5 DEF ModeInv
  <2>12. dev_round' \in 0..cfg.max_dev_rounds + spent'.invocations
    <3> DEFINE inv == spent.invocations
               max == cfg.max_dev_rounds
    <3>1. inv \in Nat /\ max \in Nat /\ dev_round \in Nat /\ dev_round <= max + inv - 1
      BY <1>1, <1>4
    <3> HIDE DEF inv, max
    <3>2. dev_round + 1 \in 0..max + inv
      BY <3>1
    <3> QED
      BY <1>6, <2>1, <3>2 DEF inv, max
  <2>13. verdicts' \in Seq({"approve", "deny"}) /\ Len(verdicts') = 0
    BY <2>1, EmptySeq
  <2>14. Len(Batch') \in Nat /\ (next' = "tools" => Len(verdicts') <= Len(Batch'))
    BY <1>4, <2>4, <2>7, <2>13 DEF Batch
  <2>15. (mode = "returned") <=> (next = END)
    BY DEF TypeInv, TypeOK
  <2>16. review' \in [knew : BOOLEAN, primary : Nat, fallback : Nat]
    BY <1>1, <2>1
  <2>17. shown \subseteq Nat \X Nat
         /\ acted \subseteq [at : Nat \X Nat, tool : resolved_tools(cfg.settings),
                             tainted : BOOLEAN]
    BY DEF TypeInv, TypeOK
  <2>18. TypeOK'
    BY <1>1, <1>2, <1>6, <2>1, <2>6, <2>8, <2>12, <2>13, <2>14, <2>16, <2>17 DEF TypeOK, END
  <2> QED
    BY <2>5, <2>10, <2>11, <2>18 DEF TypeInv
<1> QED
  BY <1>7, <1>8

\* What waits at the tool node is the newest message.
LEMMA BatchProperties ==
  ASSUME TypeInv, dev_messages # <<>>
  PROVE  /\ Len(dev_messages) \in Nat \ {0}
         /\ Last(dev_messages) = dev_messages[Len(dev_messages)]
         /\ Last(dev_messages) \in Messages
         /\ Batch \in Seq(Calls) /\ Len(Batch) \in Nat
         /\ Last(dev_messages).id \in Nat
<1>1. dev_messages \in Seq(Messages)
  BY DEF TypeInv
<1>2. Len(dev_messages) \in Nat \ {0}
  BY <1>1, EmptySeq
<1>3. Last(dev_messages) = dev_messages[Len(dev_messages)]
  BY DEF Last
<1>4. Len(dev_messages) \in 1..Len(dev_messages)
  BY <1>2
<1>5. Last(dev_messages) \in Messages
  BY <1>1, <1>3, <1>4, ElementOfSeq
<1>6. Batch \in Seq(Calls) /\ Last(dev_messages).id \in Nat
  BY <1>5 DEF Batch, Messages, MessagesOf
<1> QED
  BY <1>2, <1>3, <1>5, <1>6, LenProperties

LEMMA RanType ==
  ASSUME TypeInv, dev_messages # <<>>
  PROVE  Ran \subseteq [at : Nat \X Nat, tool : resolved_tools(cfg.settings), tainted : BOOLEAN]
<1>1. SUFFICES ASSUME NEW nr \in 1..Len(Batch), Runs(nr)
               PROVE  [at |-> <<Last(dev_messages).id, nr>>, tool |-> Batch[nr].tool,
                       tainted |-> Batch[nr].tainted]
                        \in [at : Nat \X Nat, tool : resolved_tools(cfg.settings),
                             tainted : BOOLEAN]
  BY DEF Ran
<1>2. Batch[nr] \in Calls
  BY BatchProperties, ElementOfSeq
<1>3. Last(dev_messages).id \in Nat /\ nr \in Nat
  BY BatchProperties
<1>4. Batch[nr].tool \in resolved_tools(cfg.settings)
  BY <1>1 DEF Runs, Executed
<1> QED
  BY <1>2, <1>3, <1>4 DEF Calls

\* A step that ends in an exception or a halt and leaves the transcript alone.
LEMMA BrokenOffTypes ==
  ASSUME TypeInv, DeveloperRaises \/ ToolsHalt \/ ToolsRaise
  PROVE  TypeInv'
<1>1. /\ UNCHANGED <<cfg, dev_messages, dev_round, revision_round, next, verdicts, budget, learned,
                     review, spilled, spent, shown>>
      /\ mode = "live" /\ mode' \in {"halted", "down"}
  BY DEF DeveloperRaises, ToolsHalt, ToolsRaise, At
<1>2. /\ mode' = "halted" => next = "tools" /\ Gated /\ Len(verdicts) < Len(Batch)
      /\ mode' = "down" /\ next = "tools" => Gated
  BY DEF DeveloperRaises, ToolsHalt, ToolsRaise, At
<1>3. next # END
  BY DEF DeveloperRaises, ToolsHalt, ToolsRaise, At, END
<1>4. acted' \subseteq [at : Nat \X Nat, tool : resolved_tools(cfg.settings), tainted : BOOLEAN]
  <2>1. CASE DeveloperRaises
    BY <2>1 DEF DeveloperRaises, TypeInv, TypeOK
  <2>2. CASE ToolsHalt \/ ToolsRaise
    <3>1. acted' = acted \cup Ran /\ next = "tools"
      BY <2>2 DEF ToolsHalt, ToolsRaise, At
    <3>2. dev_messages # <<>>
      BY <3>1 DEF TypeInv, ModeInv
    <3>3. acted \subseteq [at : Nat \X Nat, tool : resolved_tools(cfg.settings),
                           tainted : BOOLEAN]
      BY DEF TypeInv, TypeOK
    <3> QED
      BY <3>1, <3>2, <3>3, RanType
  <2> QED
    BY <2>1, <2>2
<1>5. TypeOK'
  BY <1>1, <1>3, <1>4 DEF TypeInv, TypeOK, Payloads, Batch
<1>6. RoundInv' /\ ModeInv'
  BY <1>1, <1>2 DEF TypeInv, RoundInv, ModeInv, Gated, Batch
<1> QED
  BY <1>1, <1>5, <1>6 DEF TypeInv

\* The results of a batch, one for each call, follow it.
LEMMA ToolsAppends ==
  ASSUME TypeInv, tools
  PROVE  \E results \in [1..Len(Batch) -> cfg.results \cup {Refusal}] :
           /\ \A nr \in 1..Len(Batch) :
                ToolMessage(Last(dev_messages).id, nr, results[nr]) \in Messages
           /\ dev_messages' \in Seq(Messages)
           /\ Len(dev_messages') = Len(dev_messages) + Len(Batch)
           /\ \A i \in 1..Len(dev_messages) : dev_messages'[i] = dev_messages[i]
           /\ \A nr \in 1..Len(Batch) :
                dev_messages'[Len(dev_messages) + nr]
                  = ToolMessage(Last(dev_messages).id, nr, results[nr])
<1>1. PICK results \in [1..Len(Batch) -> cfg.results \cup {Refusal}] :
        dev_messages' = dev_messages \o
          [nr \in 1..Len(Batch) |-> ToolMessage(Last(dev_messages).id, nr, results[nr])]
  BY DEF tools
<1> DEFINE N == Len(Batch)
           L == Len(dev_messages)
           new == [nr \in 1..N |-> ToolMessage(Last(dev_messages).id, nr, results[nr])]
<1>2. dev_messages # <<>> /\ dev_messages \in Seq(Messages)
  BY DEF tools, At, TypeInv, ModeInv
<1>3. N \in Nat /\ L \in Nat /\ Last(dev_messages).id \in Nat
  BY <1>2, BatchProperties
<1>4. cfg.results \subseteq Results /\ Refusal \in Results
  BY Counters, ProfileType DEF IsProfile, Refusal, Results
<1> HIDE DEF N
<1>5. ASSUME NEW nr \in 1..N
      PROVE  ToolMessage(Last(dev_messages).id, nr, results[nr]) \in Messages
  <2>1. nr \in 1..Len(Batch) /\ nr \in Nat
    BY <1>3 DEF N
  <2>2. results[nr] \in cfg.results \cup {Refusal}
    BY <2>1
  <2>3. results[nr] \in [size : Nat, hit : BOOLEAN]
    BY <1>4, <2>2 DEF Results
  <2> QED
    BY <1>3, <2>1, <2>3, MessageTypes DEF Messages
<1>6. new \in Seq(Messages) /\ Len(new) = N
  BY <1>3, <1>5
<1>7. \A nr \in 1..N : new[nr] = ToolMessage(Last(dev_messages).id, nr, results[nr])
  OBVIOUS
<1>8. dev_messages' = dev_messages \o new
  BY <1>1 DEF N
<1> HIDE DEF new, L
<1>9. /\ dev_messages' \in Seq(Messages) /\ Len(dev_messages') = L + N
      /\ \A i \in 1..L + N :
           dev_messages'[i] = IF i <= L THEN dev_messages[i] ELSE new[i - L]
  BY <1>2, <1>6, <1>8, ConcatProperties DEF L
<1>10. \A i \in 1..L : dev_messages'[i] = dev_messages[i]
  <2>1. \A i \in 1..L : i \in 1..L + N /\ i <= L
    BY <1>3
  <2> QED
    BY <1>9, <2>1
<1>11. ASSUME NEW nr \in 1..N
       PROVE  dev_messages'[L + nr] = ToolMessage(Last(dev_messages).id, nr, results[nr])
  <2> DEFINE i == L + nr
  <2>1. i \in 1..L + N /\ ~(i <= L) /\ i - L = nr
    BY <1>3
  <2> HIDE DEF i
  <2>2. dev_messages'[i] = new[nr]
    BY <1>9, <2>1
  <2> QED
    BY <1>7, <2>2 DEF i
<1> QED
  BY <1>1, <1>5, <1>9, <1>10, <1>11 DEF L, N

LEMMA ToolsTypes ==
  ASSUME TypeInv, tools
  PROVE  TypeInv'
<1>1. /\ UNCHANGED <<cfg, dev_round, revision_round, mode, verdicts, budget, learned, review,
                     spilled, spent, shown>>
      /\ mode = "live" /\ next = "tools" /\ next' = "developer" /\ acted' = acted \cup Ran
  BY DEF tools, At
<1>2. dev_messages # <<>>
  BY <1>1 DEF TypeInv, ModeInv
<1>3. /\ dev_messages' \in Seq(Messages)
      /\ Len(dev_messages') = Len(dev_messages) + Len(Batch)
      /\ \A i \in 1..Len(dev_messages) : dev_messages'[i] = dev_messages[i]
  BY ToolsAppends
<1>4. Payloads \subseteq Payloads'
  <2>1. Len(dev_messages) <= Len(dev_messages')
    BY <1>2, <1>3, BatchProperties
  <2> QED
    BY <1>3, <2>1, Counters, PayloadsGrow
<1>5. acted' \subseteq [at : Nat \X Nat, tool : resolved_tools(cfg.settings), tainted : BOOLEAN]
  <2>1. acted \subseteq [at : Nat \X Nat, tool : resolved_tools(cfg.settings), tainted : BOOLEAN]
    BY DEF TypeInv, TypeOK
  <2> QED
    BY <1>1, <1>2, <2>1, RanType
<1>6. TypeOK'
  BY <1>1, <1>4, <1>5 DEF TypeInv, TypeOK, END
<1>7. RoundInv'
  <2>1. dev_round <= cfg.max_dev_rounds /\ revision_round <= cfg.max_revisions
    BY <1>1 DEF TypeInv, RoundInv, END
  <2>2. dev_round <= cfg.max_dev_rounds + spent.invocations - 1
    BY <2>1, Counters
  <2> QED
    BY <1>1, <2>1, <2>2 DEF RoundInv
<1>8. ModeInv'
  BY <1>1 DEF ModeInv
<1> QED
  BY <1>3, <1>6, <1>7, <1>8 DEF TypeInv

\* What the reviewer's verdict does to the transcript.
LEMMA DecidesProperties ==
  ASSUME TypeInv, At("reviewer"), Decides
  PROVE  /\ next' \in {"developer", END} /\ mode' = (IF next' = END THEN "returned" ELSE "live")
         /\ revision_round' = revision_round + 1
         /\ next' = "developer" => dev_round' = 0 /\ revision_round < cfg.max_revisions
         /\ dev_round' \in {0, dev_round}
         /\ dev_messages' \in Seq(Messages)
         /\ \/ dev_messages' = dev_messages /\ next' = END
            \/ /\ Len(dev_messages') = Len(dev_messages) + 1
               /\ \A i \in 1..Len(dev_messages) : dev_messages'[i] = dev_messages[i]
               /\ dev_messages'[Len(dev_messages) + 1] = HumanMessage(1)
         /\ dev_messages' # <<>>
<1>1. HumanMessage(1) \in Messages
  BY MessageTypes DEF Messages
<1>2. dev_messages \in Seq(Messages) /\ dev_messages # <<>>
  BY DEF TypeInv, ModeInv, At
<1>3. CASE /\ next' = END /\ mode' = "returned"
           /\ revision_round' = revision_round + 1
           /\ UNCHANGED <<dev_messages, dev_round>>
  BY <1>2, <1>3 DEF END
<1>4. CASE /\ dev_messages' = Append(dev_messages, HumanMessage(1))
           /\ dev_round' = 0
           /\ revision_round' = revision_round + 1
           /\ next' = (IF revision_round < cfg.max_revisions THEN "developer" ELSE END)
           /\ mode' = (IF revision_round < cfg.max_revisions THEN "live" ELSE "returned")
  <2>1. /\ dev_messages' \in Seq(Messages) /\ dev_messages' # <<>>
        /\ Len(dev_messages') = Len(dev_messages) + 1
        /\ \A i \in 1..Len(dev_messages) : dev_messages'[i] = dev_messages[i]
        /\ dev_messages'[Len(dev_messages) + 1] = HumanMessage(1)
    BY <1>1, <1>2, <1>4, AppendProperties
  <2>2. /\ next' \in {"developer", END} /\ mode' = (IF next' = END THEN "returned" ELSE "live")
        /\ next' = "developer" => revision_round < cfg.max_revisions
    BY <1>4 DEF END
  <2> QED
    BY <1>4, <2>1, <2>2
<1> QED
  BY <1>3, <1>4 DEF Decides

LEMMA ReviewTypes ==
  ASSUME TypeInv, structured \/ structured_via_json_prompt
  PROVE  TypeInv'
<1>1. /\ At("reviewer") /\ ReviewOnly
      /\ \/ Decides
         \/ /\ Undecided /\ mode' \in {"live", "down"}
  BY DEF structured, structured_via_json_prompt
<1>2. learned' \in BOOLEAN /\ review' \in [knew : BOOLEAN, primary : Nat, fallback : Nat]
  <2>1. review \in [knew : BOOLEAN, primary : Nat, fallback : Nat] /\ learned \in BOOLEAN
    BY DEF TypeInv, TypeOK
  <2>2. CASE structured
    <3>1. PICK answer \in cfg.answers :
            /\ review' = [review EXCEPT !.primary = @ + 1]
            /\ learned' = fallback_due(answer, review.primary + 1)
      BY <2>2 DEF structured
    <3>2. fallback_due(answer, review.primary + 1) \in BOOLEAN
      BY DEF fallback_due
    <3> QED
      BY <2>1, <3>1, <3>2
  <2>3. CASE structured_via_json_prompt
    BY <2>1, <2>3 DEF structured_via_json_prompt
  <2> QED
    BY <2>2, <2>3
<1>3. /\ UNCHANGED <<cfg, verdicts, budget, spilled, spent, shown, acted>>
      /\ mode = "live" /\ next = "reviewer" /\ dev_messages # <<>>
  BY <1>1 DEF ReviewOnly, At, TypeInv, ModeInv
<1>4. revision_round <= cfg.max_revisions
  BY <1>3 DEF TypeInv, RoundInv, END
<1>5. CASE Undecided /\ mode' \in {"live", "down"}
  <2>1. UNCHANGED <<dev_messages, dev_round, revision_round, next>>
    BY <1>5 DEF Undecided
  <2>2. TypeOK'
    BY <1>2, <1>3, <1>5, <2>1 DEF TypeInv, TypeOK, Payloads, END
  <2>3. RoundInv' /\ ModeInv'
    BY <1>3, <1>5, <2>1 DEF TypeInv, RoundInv, ModeInv
  <2> QED
    BY <2>1, <2>2, <2>3 DEF TypeInv
<1>6. CASE Decides
  <2>1. /\ next' \in {"developer", END} /\ mode' = (IF next' = END THEN "returned" ELSE "live")
        /\ revision_round' = revision_round + 1
        /\ next' = "developer" => dev_round' = 0 /\ revision_round < cfg.max_revisions
        /\ dev_round' \in {0, dev_round}
        /\ dev_messages' \in Seq(Messages) /\ dev_messages' # <<>>
        /\ \/ dev_messages' = dev_messages
           \/ /\ Len(dev_messages') = Len(dev_messages) + 1
              /\ \A i \in 1..Len(dev_messages) : dev_messages'[i] = dev_messages[i]
    BY <1>1, <1>6, DecidesProperties
  <2>2. Payloads \subseteq Payloads'
    <3>1. CASE dev_messages' = dev_messages
      BY <3>1 DEF Payloads
    <3>2. CASE /\ Len(dev_messages') = Len(dev_messages) + 1
               /\ \A i \in 1..Len(dev_messages) : dev_messages'[i] = dev_messages[i]
      <4>1. Len(dev_messages) <= Len(dev_messages')
        BY <1>3, <3>2, BatchProperties
      <4> QED
        BY <2>1, <3>2, <4>1, Counters, PayloadsGrow
    <3> QED
      BY <2>1, <3>1, <3>2
  <2>3. /\ dev_round' \in 0..cfg.max_dev_rounds + spent.invocations
        /\ revision_round' \in 0..cfg.max_revisions + 1
        /\ 0 <= cfg.max_dev_rounds + spent.invocations - 1
    <3>1. dev_round \in 0..cfg.max_dev_rounds + spent.invocations
      BY DEF TypeInv, TypeOK
    <3>2. 0 \in 0..cfg.max_dev_rounds + spent.invocations
          /\ 0 <= cfg.max_dev_rounds + spent.invocations - 1
      BY Counters
    <3>3. revision_round + 1 \in 0..cfg.max_revisions + 1
      BY <1>4, Counters
    <3> QED
      BY <2>1, <3>1, <3>2, <3>3
  <2>4. TypeOK'
    <3>1. mode' \in {"live", "returned"} /\ ((mode' = "returned") <=> (next' = END))
          /\ next' \in {"developer", END}
      BY <2>1
    <3> QED
      BY <1>2, <1>3, <2>2, <2>3, <3>1 DEF TypeInv, TypeOK, END
  <2>5. RoundInv'
    <3>1. next' = "developer" => revision_round' <= cfg.max_revisions
      BY <2>1, Counters
    <3> QED
      BY <1>3, <2>1, <2>3, <3>1 DEF RoundInv, END
  <2>6. ModeInv'
    BY <2>1 DEF ModeInv, END
  <2> QED
    BY <2>1, <2>4, <2>5, <2>6 DEF TypeInv
<1> QED
  BY <1>1, <1>5, <1>6

LEMMA ResumeTypes ==
  ASSUME TypeInv, ResumeToolCall \/ ResumeAtReviewer
  PROVE  TypeInv'
<1>1. /\ Recompiled /\ UNCHANGED review /\ mode \in {"halted", "down"}
      /\ next' = next \/ next' = "developer"
      /\ ResumeToolCall => next' = next
  BY DEF ResumeToolCall, ResumeAtReviewer
<1>2. /\ UNCHANGED <<cfg, dev_messages, dev_round, revision_round, spilled, acted>>
      /\ spent.invocations < MaxInvocations
      /\ spent' = [spent EXCEPT !.invocations = @ + 1]
      /\ budget' = Fresh /\ learned' = FALSE /\ mode' = "live"
  BY <1>1 DEF Recompiled, NewTransport
<1>3. /\ spent' \in [tokens : Nat, calls : Nat, invocations : 1..MaxInvocations]
      /\ spent'.invocations = spent.invocations + 1
  <2>1. MaxInvocations \in Nat
    BY LoopAssumption
  <2>2. spent.invocations + 1 \in 1..MaxInvocations
    BY <1>2, <2>1, Counters
  <2> QED
    BY <1>2, <2>2, Counters
<1>4. budget' \in [tokens : Nat, calls : Nat]
  BY <1>2 DEF Fresh
<1>5. dev_round \in 0..cfg.max_dev_rounds + spent'.invocations
      /\ dev_round <= cfg.max_dev_rounds + spent'.invocations - 1
  <2> DEFINE rounds == cfg.max_dev_rounds
             n == spent.invocations
             m == spent'.invocations
  <2>1. dev_round \in 0..rounds + n
    BY DEF TypeInv, TypeOK
  <2>2. rounds \in Nat /\ n \in Nat
    BY Counters
  <2>3. m = n + 1
    BY <1>3
  <2> HIDE DEF rounds, n, m
  <2>4. dev_round \in 0..rounds + m /\ dev_round <= rounds + m - 1
    BY <2>1, <2>2, <2>3
  <2> QED
    BY <2>4 DEF rounds, m
<1>6. next # END
  BY <1>1 DEF TypeInv, TypeOK
<1>7. next' # END
  BY <1>1, <1>6 DEF END
<1>8. /\ verdicts' \in Seq({"approve", "deny"}) /\ shown' \subseteq Nat \X Nat
      /\ next' = "tools" => CallsTools(Last(dev_messages)) /\ Len(verdicts') <= Len(Batch)
  <2>1. CASE ResumeToolCall
    <3>1. /\ mode = "halted" /\ next = "tools" /\ Gated /\ Len(verdicts) < Len(Batch)
          /\ dev_messages # <<>>
      BY <2>1 DEF ResumeToolCall, TypeInv, ModeInv
    <3>2. PICK decision \in {"approve", "deny", "garbled"} :
            /\ verdicts' = Append(verdicts, classify_decision(decision))
            /\ shown' = IF decision = "approve"
                        THEN shown \cup {<<Last(dev_messages).id, Len(verdicts) + 1>>} ELSE shown
      BY <2>1 DEF ResumeToolCall
    <3>3. /\ verdicts \in Seq({"approve", "deny"}) /\ shown \subseteq Nat \X Nat
          /\ CallsTools(Last(dev_messages))
      BY <3>1 DEF TypeInv, TypeOK
    <3>4. classify_decision(decision) \in {"approve", "deny"}
      BY DEF classify_decision
    <3>5. verdicts' \in Seq({"approve", "deny"}) /\ Len(verdicts') = Len(verdicts) + 1
      BY <3>2, <3>3, <3>4, AppendProperties
    <3>6. Len(verdicts) \in Nat /\ Len(Batch) \in Nat /\ Last(dev_messages).id \in Nat
      BY <3>1, <3>3, BatchProperties, LenProperties
    <3>7. shown' \subseteq Nat \X Nat
      <4>1. Len(verdicts) + 1 \in Nat
        BY <3>6
      <4> QED
        BY <3>2, <3>3, <3>6, <4>1
    <3>8. Len(verdicts') <= Len(Batch)
      BY <3>1, <3>5, <3>6
    <3> QED
      BY <3>3, <3>5, <3>7, <3>8
  <2>2. CASE ResumeAtReviewer
    BY <2>2 DEF ResumeAtReviewer, TypeInv, TypeOK
  <2> QED
    BY <2>1, <2>2
<1>9. TypeOK'
  <2>1. review \in [knew : BOOLEAN, primary : Nat, fallback : Nat] /\ spilled \subseteq Payloads
        /\ acted \subseteq [at : Nat \X Nat, tool : resolved_tools(cfg.settings),
                            tainted : BOOLEAN]
        /\ next \in {"developer", "tools", "reviewer", END}
        /\ cfg \in Profiles /\ revision_round \in 0..cfg.max_revisions + 1
    BY DEF TypeInv, TypeOK
  <2> QED
    BY <1>1, <1>2, <1>3, <1>4, <1>5, <1>7, <1>8, <2>1 DEF TypeOK, Payloads, Batch
<1>10. RoundInv'
  <2>1. revision_round <= cfg.max_revisions /\ (next = "tools" => dev_round <= cfg.max_dev_rounds)
    BY <1>6 DEF TypeInv, RoundInv
  <2> QED
    BY <1>1, <1>2, <1>5, <2>1 DEF RoundInv
<1>11. ModeInv'
  BY <1>1, <1>2 DEF TypeInv, ModeInv
<1> QED
  BY <1>2, <1>9, <1>10, <1>11 DEF TypeInv

LEMMA InitTypes == Init => TypeInv
<1> SUFFICES ASSUME Init
             PROVE  TypeInv
  OBVIOUS
<1>1. /\ dev_messages = <<>> /\ dev_round = 0 /\ revision_round = 0 /\ next = "developer"
      /\ mode = "live" /\ verdicts = <<>> /\ spent = [tokens |-> 0, calls |-> 0, invocations |-> 1]
      /\ spilled = {} /\ shown = {} /\ acted = {} /\ cfg \in Profiles
      /\ budget = Fresh /\ learned = FALSE
      /\ review = [knew |-> FALSE, primary |-> 0, fallback |-> 0]
  BY DEF Init
<1>2. cfg.max_dev_rounds \in Nat \ {0} /\ cfg.max_revisions \in Nat /\ MaxInvocations \in Nat \ {0}
  BY <1>1, ProfileType DEF IsProfile
<1>3. dev_messages \in Seq(Messages) /\ verdicts \in Seq({"approve", "deny"})
  BY <1>1, EmptySeq
<1>4. spent \in [tokens : Nat, calls : Nat, invocations : 1..MaxInvocations]
      /\ spent.invocations = 1
  BY <1>1, <1>2
<1>5. /\ 0 \in 0..cfg.max_dev_rounds + spent.invocations /\ 0 \in 0..cfg.max_revisions + 1
      /\ 0 <= cfg.max_dev_rounds + spent.invocations - 1 /\ 0 <= cfg.max_revisions
  BY <1>2, <1>4
<1>6. TypeOK
  BY <1>1, <1>3, <1>4, <1>5 DEF TypeOK, Fresh, END
<1>7. RoundInv /\ ModeInv
  BY <1>1, <1>5 DEF RoundInv, ModeInv
<1> QED
  BY <1>3, <1>6, <1>7 DEF TypeInv

LEMMA StepTypes == TypeInv /\ [Next]_vars => TypeInv'
<1> SUFFICES ASSUME TypeInv, [Next]_vars
             PROVE  TypeInv'
  OBVIOUS
<1>1. CASE developer_react
  BY <1>1, DeveloperTypes
<1>2. CASE DeveloperRaises \/ ToolsHalt \/ ToolsRaise
  BY <1>2, BrokenOffTypes
<1>3. CASE tools
  BY <1>3, ToolsTypes
<1>4. CASE structured \/ structured_via_json_prompt
  BY <1>4, ReviewTypes
<1>5. CASE ResumeToolCall \/ ResumeAtReviewer
  BY <1>5, ResumeTypes
<1>6. CASE UNCHANGED vars
  BY <1>6 DEF vars, TypeInv, TypeOK, RoundInv, ModeInv, Payloads, Batch, Gated
<1> QED
  BY <1>1, <1>2, <1>3, <1>4, <1>5, <1>6 DEF Next, Step

LEMMA LoopTypes == Spec => []TypeInv
<1> QED
  BY InitTypes, StepTypes, PTL DEF Spec

\* Type correctness of the loop: among the types, how far the tool rounds and the revisions
\* can come over any number of resumes, and that only results a transcript holds are in the
\* spill store (developer_react.py, transport.py, tools/spill.py).
THEOREM TypeCorrect == Spec => []TypeOK
<1>1. TypeInv => TypeOK
  BY DEF TypeInv
<1> QED
  BY <1>1, LoopTypes, PTL

-----------------------------------------------------------------------------
(***************************************************************************)
(* The retries of a structured call.                                       *)
(***************************************************************************)

\* What the calls of the review at hand have cost, and what they have taught: a transport
\* that knows its model starts with the prompt, and one that does not has not tried it yet.
ReviewInv ==
  /\ StructuredRetriesAreBounded
  /\ At("reviewer") /\ ~learned =>
       ~review.knew /\ review.primary < Attempts /\ review.fallback = 0
  /\ At("reviewer") /\ learned => review.fallback < Attempts

LEMMA StepReview == TypeInv /\ ReviewInv /\ [Next]_vars => ReviewInv'
<1> SUFFICES ASSUME TypeInv, ReviewInv, [Next]_vars
             PROVE  ReviewInv'
  OBVIOUS
<1> USE DEF ReviewInv, StructuredRetriesAreBounded, Attempts, At
<1>1. review \in [knew : BOOLEAN, primary : Nat, fallback : Nat] /\ learned \in BOOLEAN
  BY DEF TypeInv, TypeOK
<1>2. CASE developer_react
  <2>1. UNCHANGED learned
    BY <1>2 DEF developer_react
  <2>2. \/ mode' = "down" /\ UNCHANGED review
        \/ review' = [knew |-> learned, primary |-> 0, fallback |-> 0]
    BY <1>2 DEF developer_react
  <2> QED
    BY <1>1, <2>1, <2>2
<1>3. CASE DeveloperRaises \/ ToolsHalt \/ ToolsRaise
  BY <1>3 DEF DeveloperRaises, ToolsHalt, ToolsRaise
<1>4. CASE tools
  BY <1>4 DEF tools
<1>5. CASE structured
  <2>1. PICK answer \in cfg.answers :
          /\ review' = [review EXCEPT !.primary = @ + 1]
          /\ learned' = fallback_due(answer, review.primary + 1)
          /\ IF answer = "parsed" THEN Decides ELSE Undecided
          /\ answer # "parsed" => mode' = IF answer = "error" THEN "down" ELSE "live"
    BY <1>5 DEF structured
  <2>2. ~learned /\ At("reviewer")
    BY <1>5 DEF structured
  <2>3. /\ review'.primary = review.primary + 1 /\ review'.fallback = 0 /\ ~review'.knew
        /\ review.primary < 2 /\ review.primary \in Nat
    BY <1>1, <2>1, <2>2
  <2>4. CASE answer = "parsed"
    <3>1. next' # "reviewer"
      BY <2>1, <2>2, <2>4, DecidesProperties DEF END
    <3> QED
      BY <2>3, <3>1
  <2>5. CASE answer = "error"
    BY <2>1, <2>3, <2>5
  <2>6. CASE answer \in {"none", "unparsed"}
    <3>1. ~learned' => review.primary + 1 # 2
      BY <2>1, <2>6 DEF fallback_due
    <3> QED
      BY <2>3, <3>1
  <2> QED
    BY <1>1, <2>4, <2>5, <2>6, Counters, ProfileType DEF IsProfile
<1>6. CASE structured_via_json_prompt
  <2>1. PICK answer \in cfg.answers \ {"none"} :
          /\ review' = [review EXCEPT !.fallback = @ + 1]
          /\ IF answer = "parsed" THEN Decides ELSE Undecided
          /\ answer # "parsed" =>
               mode' = IF answer = "error" \/ review.fallback + 1 = Attempts THEN "down" ELSE "live"
    BY <1>6 DEF structured_via_json_prompt
  <2>2. learned /\ At("reviewer") /\ UNCHANGED learned
    BY <1>6 DEF structured_via_json_prompt
  <2>3. /\ review'.fallback = review.fallback + 1 /\ review'.primary = review.primary
        /\ review'.knew = review.knew
        /\ review.fallback < 2 /\ review.fallback \in Nat
    BY <1>1, <2>1, <2>2
  <2>4. CASE answer = "parsed"
    <3>1. next' # "reviewer"
      BY <2>1, <2>2, <2>4, DecidesProperties DEF END
    <3> QED
      BY <2>3, <3>1
  <2>5. CASE answer # "parsed"
    BY <2>1, <2>2, <2>3, <2>5
  <2> QED
    BY <2>4, <2>5
<1>7. CASE ResumeToolCall
  <2>1. next' = "tools"
    BY <1>7 DEF ResumeToolCall, TypeInv, ModeInv
  <2> QED
    BY <1>7, <2>1 DEF ResumeToolCall
<1>8. CASE ResumeAtReviewer
  BY <1>8 DEF ResumeAtReviewer
<1>9. CASE UNCHANGED vars
  BY <1>9 DEF vars
<1> QED
  BY <1>2, <1>3, <1>4, <1>5, <1>6, <1>7, <1>8, <1>9 DEF Next, Step

\* A structured call costs at most Attempts model calls each way, whatever the model
\* answers, and a transport asks a model that failed once only by prompt
\* (transport.py:_needs_json_fallback).
THEOREM RetriesAreBounded == Spec => []StructuredRetriesAreBounded
<1>1. Init => ReviewInv
  BY DEF Init, ReviewInv, StructuredRetriesAreBounded, Attempts, At
<1>2. ReviewInv => StructuredRetriesAreBounded
  BY DEF ReviewInv
<1> QED
  BY <1>1, <1>2, StepReview, LoopTypes, PTL DEF Spec

-----------------------------------------------------------------------------
(***************************************************************************)
(* Who lets a tool act.                                                    *)
(***************************************************************************)

\* An approved call of the batch at hand is one that a user was shown.
ShownInv ==
  Gated /\ next = "tools" =>
    \A nr \in 1..Len(verdicts) :
      verdicts[nr] = "approve" => <<Last(dev_messages).id, nr>> \in shown

Permitted(a) ==
  /\ cfg.settings.tool_mode = "read_only" =>
       a.tool \in {"glob", "read_text"} \cup cfg.settings.readers
  /\ Gated => a.at \in shown
  /\ a.tool \in {"shell", "memory"} \ cfg.settings.mcp => cfg.settings[a.tool]
  /\ cfg.guardrail = "block" /\ a.tainted => a.tool \notin Checked

PermitInv == ShownInv /\ \A a \in acted : Permitted(a)

\* The tools a developer holds are those the settings grant.
LEMMA ResolvedTools ==
  ASSUME NEW s, NEW t \in resolved_tools(s)
  PROVE  /\ s.tool_mode = "read_only" => t \in {"glob", "read_text"} \cup s.readers
         /\ t = "shell" /\ t \notin s.mcp => s.shell
         /\ t = "memory" /\ t \notin s.mcp => s.memory
<1>1. /\ t \in server_node(s).tools
      /\ s.tool_mode = "read_only" => is_read_only(s, t)
  BY DEF resolved_tools, apply_policy
<1>2. \/ t \in PresetTools \cap available_tool_names(s)
      \/ s.memory /\ t = "memory"
      \/ t \in s.mcp
  <2>1. server_node(s).tools = (PresetTools \cap available_tool_names(s))
                                 \cup (IF s.memory THEN {"memory"} ELSE {}) \cup s.mcp
    BY DEF server_node
  <2>2. CASE s.memory
    BY <1>1, <2>1, <2>2
  <2>3. CASE ~s.memory
    BY <1>1, <2>1, <2>3
  <2> QED
    BY <2>2, <2>3
<1>3. t = "shell" /\ t \notin s.mcp => s.shell
  BY <1>2 DEF available_tool_names
<1>4. t = "memory" /\ t \notin s.mcp => s.memory
  BY <1>2 DEF available_tool_names
<1>5. s.tool_mode = "read_only" => t \in {"glob", "read_text"} \cup s.readers
  BY <1>1 DEF is_read_only
<1> QED
  BY <1>3, <1>4, <1>5

LEMMA RanPermitted ==
  ASSUME TypeInv, ShownInv, next = "tools", NEW a \in Ran
  PROVE  Permitted(a)
<1>1. PICK nr \in 1..Len(Batch) :
        /\ Runs(nr)
        /\ a = [at |-> <<Last(dev_messages).id, nr>>, tool |-> Batch[nr].tool,
                tainted |-> Batch[nr].tainted]
  BY DEF Ran
<1>2. a.at = <<Last(dev_messages).id, nr>> /\ a.tool = Batch[nr].tool
      /\ a.tainted = Batch[nr].tainted
  BY <1>1
<1>3. Approved(nr) /\ a.tool \in resolved_tools(cfg.settings) /\ ~Trips(nr)
  BY <1>1, <1>2 DEF Runs, Executed
<1>4. Gated => a.at \in shown
  <2>1. SUFFICES ASSUME Gated
                 PROVE  a.at \in shown
    OBVIOUS
  <2>2. nr <= Len(verdicts) /\ verdicts[nr] = "approve"
    BY <1>3, <2>1 DEF Approved
  <2>3. Len(verdicts) \in Nat /\ nr \in Nat /\ nr >= 1
    <3>1. verdicts \in Seq({"approve", "deny"})
      BY DEF TypeInv, TypeOK
    <3>2. dev_messages # <<>>
      BY DEF TypeInv, ModeInv
    <3> QED
      BY <3>1, <3>2, BatchProperties, LenProperties
  <2>4. nr \in 1..Len(verdicts)
    BY <2>2, <2>3
  <2> QED
    BY <1>2, <2>1, <2>2, <2>4 DEF ShownInv
<1>5. cfg.guardrail = "block" /\ a.tainted => a.tool \notin Checked
  BY <1>2, <1>3 DEF Trips
<1>6. /\ cfg.settings.tool_mode = "read_only" =>
           a.tool \in {"glob", "read_text"} \cup cfg.settings.readers
      /\ a.tool = "shell" /\ a.tool \notin cfg.settings.mcp => cfg.settings.shell
      /\ a.tool = "memory" /\ a.tool \notin cfg.settings.mcp => cfg.settings.memory
  BY <1>3, ResolvedTools
<1>7. cfg.settings \in [shell : BOOLEAN, memory : BOOLEAN, mcp : SUBSET cfg.settings.mcp,
                        readers : SUBSET cfg.settings.mcp, tool_mode : ToolModeNames]
  BY Counters, ProfileType DEF IsProfile, SettingsOver
<1>8. a.tool \in {"shell", "memory"} \ cfg.settings.mcp => cfg.settings[a.tool]
  BY <1>6, <1>7
<1> QED
  BY <1>4, <1>5, <1>6, <1>8 DEF Permitted

LEMMA StepPermits == TypeInv /\ PermitInv /\ [Next]_vars => PermitInv'
<1> SUFFICES ASSUME TypeInv, PermitInv, [Next]_vars
             PROVE  PermitInv'
  OBVIOUS
<1>1. ASSUME UNCHANGED cfg, shown \subseteq shown', NEW a, Permitted(a)
      PROVE  Permitted(a)'
  BY <1>1 DEF Permitted, Gated, Checked
<1>2. ASSUME UNCHANGED <<cfg, shown>>, next = "tools", acted' = acted \cup Ran
      PROVE  \A a \in acted' : Permitted(a)'
  <2>1. \A a \in acted' : Permitted(a)
    BY <1>2, RanPermitted DEF PermitInv
  <2> QED
    BY <1>1, <1>2, <2>1
<1>3. CASE developer_react
  <2>1. UNCHANGED <<cfg, shown, acted>> /\ (next' = "tools" => verdicts' = <<>>)
    BY <1>3 DEF developer_react, At
  <2>2. ShownInv'
    <3>1. next' = "tools" => Len(verdicts') = 0
      BY <2>1, EmptySeq
    <3> QED
      BY <3>1 DEF ShownInv
  <2> QED
    BY <1>1, <2>1, <2>2 DEF PermitInv
<1>4. CASE DeveloperRaises
  <2>1. UNCHANGED <<cfg, dev_messages, next, verdicts, shown, acted>>
    BY <1>4 DEF DeveloperRaises
  <2> QED
    BY <1>1, <2>1 DEF PermitInv, ShownInv, Gated
<1>5. CASE ToolsHalt \/ ToolsRaise
  <2>1. /\ UNCHANGED <<cfg, dev_messages, next, verdicts, shown>>
        /\ next = "tools" /\ acted' = acted \cup Ran
    BY <1>5 DEF ToolsHalt, ToolsRaise, At
  <2> QED
    BY <1>2, <2>1 DEF PermitInv, ShownInv, Gated
<1>6. CASE tools
  <2>1. /\ UNCHANGED <<cfg, verdicts, shown>> /\ next' = "developer"
        /\ next = "tools" /\ acted' = acted \cup Ran
    BY <1>6 DEF tools, At
  <2> QED
    BY <1>2, <2>1 DEF PermitInv, ShownInv
<1>7. CASE structured \/ structured_via_json_prompt
  <2>1. UNCHANGED <<cfg, shown, acted>> /\ next' # "tools"
    <3>1. At("reviewer") /\ ReviewOnly /\ (Decides \/ Undecided)
      BY <1>7 DEF structured, structured_via_json_prompt
    <3>2. Decides => next' # "tools"
      BY <3>1, DecidesProperties DEF END
    <3> QED
      BY <3>1, <3>2 DEF ReviewOnly, Undecided, At
  <2> QED
    BY <1>1, <2>1 DEF PermitInv, ShownInv
<1>8. CASE ResumeToolCall
  <2>1. PICK decision \in {"approve", "deny", "garbled"} :
          /\ verdicts' = Append(verdicts, classify_decision(decision))
          /\ shown' = IF decision = "approve"
                      THEN shown \cup {<<Last(dev_messages).id, Len(verdicts) + 1>>} ELSE shown
    BY <1>8 DEF ResumeToolCall
  <2>2. UNCHANGED <<cfg, dev_messages, next, acted>> /\ next = "tools"
    BY <1>8 DEF ResumeToolCall, Recompiled, TypeInv, ModeInv
  <2>3. verdicts \in Seq({"approve", "deny"}) /\ classify_decision(decision) \in {"approve", "deny"}
        /\ (classify_decision(decision) = "approve" <=> decision = "approve")
    BY DEF TypeInv, TypeOK, classify_decision
  <2>4. /\ Len(verdicts') = Len(verdicts) + 1 /\ Len(verdicts) \in Nat
        /\ \A nr \in 1..Len(verdicts) : verdicts'[nr] = verdicts[nr]
        /\ verdicts'[Len(verdicts) + 1] = classify_decision(decision)
    BY <2>1, <2>3, AppendProperties, LenProperties
  <2>5. ShownInv'
    <3>1. SUFFICES ASSUME Gated, NEW nr \in 1..Len(verdicts'), verdicts'[nr] = "approve"
                   PROVE  <<Last(dev_messages).id, nr>> \in shown'
      BY <2>2 DEF ShownInv, Gated
    <3>2. CASE nr \in 1..Len(verdicts)
      BY <2>1, <2>2, <2>4, <3>1, <3>2 DEF PermitInv, ShownInv
    <3>3. CASE nr = Len(verdicts) + 1
      BY <2>1, <2>3, <2>4, <3>1, <3>3
    <3> QED
      BY <2>4, <3>2, <3>3
  <2> QED
    BY <1>1, <2>1, <2>2, <2>5 DEF PermitInv
<1>9. CASE ResumeAtReviewer
  <2>1. UNCHANGED <<cfg, shown, acted>> /\ next' = "developer"
    BY <1>9 DEF ResumeAtReviewer, Recompiled
  <2> QED
    BY <1>1, <2>1 DEF PermitInv, ShownInv
<1>10. CASE UNCHANGED vars
  BY <1>1, <1>10 DEF vars, PermitInv, ShownInv, Gated
<1> QED
  BY <1>3, <1>4, <1>5, <1>6, <1>7, <1>8, <1>9, <1>10 DEF Next, Step

\* Whatever the model asks for, and however often the tool node starts over between two
\* verdicts, a tool acts only with leave of the policy, the settings, the guardrail and, in
\* approval mode, of a user who approved that very call (_approval.py, policy.py, react_runtime.py).
THEOREM ToolsActWithLeave == Spec => []OnlyPermittedToolsAct
<1>1. Init => PermitInv
  BY DEF Init, PermitInv, ShownInv
<1>2. PermitInv => OnlyPermittedToolsAct
  BY DEF PermitInv, OnlyPermittedToolsAct, Permitted
<1> QED
  BY <1>1, <1>2, StepPermits, LoopTypes, PTL DEF Spec

-----------------------------------------------------------------------------
(***************************************************************************)
(* What a task may cost.                                                   *)
(***************************************************************************)

\* A finite set of naturals has the greatest element that Max names.
LEMMA GreatestNat ==
  ASSUME NEW T, T \subseteq Nat, T # {}, IsFiniteSet(T)
  PROVE  Max(T) \in T /\ \A x \in T : x <= Max(T)
<1> DEFINE Top(U) == \E x \in U : \A y \in U : y <= x
           Bad == { n \in Nat : \E U \in SUBSET Nat : /\ U # {} /\ IsFiniteSet(U)
                                                      /\ Cardinality(U) = n /\ ~Top(U) }
<1>1. Bad = {}
  <2>1. SUFFICES ASSUME Bad # {}
                 PROVE  FALSE
    OBVIOUS
  <2>2. PICK n \in Bad : \A m \in Bad : n <= m
    <3>1. Bad \subseteq Nat
      OBVIOUS
    <3> HIDE DEF Bad
    <3> QED
      BY <2>1, <3>1, LeastNat
  <2>3. PICK U \in SUBSET Nat : /\ U # {} /\ IsFiniteSet(U) /\ Cardinality(U) = n /\ ~Top(U)
    BY <2>2
  <2>4. PICK x \in U : TRUE
    BY <2>3
  <2> DEFINE V == U \ {x}
  <2>5. IsFiniteSet(V) /\ Cardinality(V) = n - 1 /\ n \in Nat
    BY <2>2, <2>3, <2>4, FS_RemoveElement, FS_CardinalityType
  <2>6. Cardinality(V) \in Nat
    BY <2>5, FS_CardinalityType
  <2>7. V # {}
    <3>1. SUFFICES ASSUME V = {}
                   PROVE  FALSE
      OBVIOUS
    <3>2. \A y \in U : y = x
      BY <3>1
    <3>3. Top(U)
      BY <2>4, <3>2
    <3> QED
      BY <2>3, <3>3
  <2>8. n - 1 \notin Bad
    <3>1. n \in Nat /\ \A m \in Bad : n <= m
      BY <2>2, <2>5
    <3> HIDE DEF Bad
    <3> QED
      BY <3>1
  <2>9. Top(V)
    <3>1. n - 1 \in Nat /\ V \in SUBSET Nat
      BY <2>5, <2>6
    <3> QED
      BY <2>5, <2>7, <2>8, <3>1
  <2>10. PICK v \in V : \A y \in V : y <= v
    BY <2>9
  <2>11. v \in Nat /\ x \in Nat /\ \A y \in U : y \in V \/ y = x
    BY <2>4
  <2>12. CASE x <= v
    <3>1. \A y \in U : y <= v
      BY <2>10, <2>11, <2>12
    <3> QED
      BY <2>3, <3>1
  <2>13. CASE v <= x
    <3>1. \A y \in U : y <= x
      <4>1. \A y \in V : y \in Nat
        OBVIOUS
      <4> HIDE DEF V
      <4> QED
        BY <2>10, <2>11, <2>13, <4>1
    <3> QED
      BY <2>3, <2>4, <3>1
  <2> QED
    BY <2>11, <2>12, <2>13
<1>2. Cardinality(T) \in Nat
  BY FS_CardinalityType
<1>3. Top(T)
  BY <1>1, <1>2
<1>4. \E x \in T : \A y \in T : x >= y
  BY <1>3
<1>5. Max(T) \in T /\ \A y \in T : Max(T) >= y
  BY <1>4 DEF Max
<1> QED
  BY <1>5

\* The most one call adds, and so the most one invocation spends.
MaxTokens == cfg.max_tokens + Max(cfg.usages)
MaxCalls == cfg.max_tool_calls + Max({ Len(a) : a \in cfg.asks })

LEMMA CallBounds ==
  ASSUME cfg \in Profiles
  PROVE  /\ cfg.max_tokens \in Nat /\ cfg.max_tool_calls \in Nat
         /\ Max(cfg.usages) \in Nat /\ \A u \in cfg.usages : u <= Max(cfg.usages)
         /\ Max({ Len(a) : a \in cfg.asks }) \in Nat
         /\ \A a \in cfg.asks : Len(a) <= Max({ Len(b) : b \in cfg.asks })
         /\ MaxTokens \in Nat /\ MaxCalls \in Nat
<1> DEFINE lens == { Len(a) : a \in cfg.asks }
<1>1. /\ cfg.max_tokens \in Nat /\ cfg.max_tool_calls \in Nat
      /\ cfg.asks \subseteq Seq(Calls) /\ <<>> \in cfg.asks
      /\ cfg.usages \subseteq Nat /\ cfg.usages # {}
      /\ IsFiniteSet(cfg.usages) /\ IsFiniteSet(cfg.asks)
  BY ProfileType DEF IsProfile
<1>2. Max(cfg.usages) \in Nat /\ \A u \in cfg.usages : u <= Max(cfg.usages)
  BY <1>1, GreatestNat
<1>3. lens \subseteq Nat /\ lens # {}
  <2>1. \A a \in cfg.asks : Len(a) \in Nat
    BY <1>1, LenProperties
  <2> QED
    BY <1>1, <2>1
<1>4. IsFiniteSet(lens)
  <2> DEFINE f == [a \in cfg.asks |-> Len(a)]
  <2>1. f \in [cfg.asks -> lens] /\ \A n \in lens : \E a \in cfg.asks : f[a] = n
    OBVIOUS
  <2>2. f \in Surjection(cfg.asks, lens)
    BY <2>1 DEF Surjection
  <2> QED
    BY <1>1, <2>2, FS_Surjection
<1>5. Max(lens) \in lens /\ \A n \in lens : n <= Max(lens)
  <2> HIDE DEF lens
  <2> QED
    BY <1>3, <1>4, GreatestNat
<1>6. Max(lens) \in Nat /\ \A a \in cfg.asks : Len(a) <= Max(lens)
  BY <1>3, <1>5
<1>7. MaxTokens \in Nat /\ MaxCalls \in Nat
  BY <1>1, <1>2, <1>6 DEF MaxTokens, MaxCalls
<1> QED
  BY <1>1, <1>2, <1>6, <1>7

\* Every invocation but the one at hand spent at most MaxTokens and MaxCalls; the one at hand
\* is within its ceilings until its tracker raises.
SpendInv ==
  /\ spent.tokens <= spent.invocations * MaxTokens
  /\ spent.calls <= spent.invocations * MaxCalls
  /\ mode # "down" =>
       /\ budget.tokens <= cfg.max_tokens /\ budget.calls <= cfg.max_tool_calls
       /\ spent.tokens <= (spent.invocations - 1) * MaxTokens + budget.tokens
       /\ spent.calls <= (spent.invocations - 1) * MaxCalls + budget.calls

LEMMA OneMore ==
  ASSUME NEW n \in Int, NEW k \in Nat
  PROVE  (n - 1) * k + k = n * k /\ (n - 1) * k \in Int /\ n * k \in Int
OBVIOUS

LEMMA DeveloperSpends ==
  ASSUME TypeInv, SpendInv, developer_react
  PROVE  SpendInv'
<1>1. PICK used \in cfg.usages, calls \in (IF budget_used THEN {<<>>} ELSE cfg.asks) :
        LET tracker == record(budget, used, Len(calls)) IN
        /\ budget' = [tokens |-> tracker.tokens, calls |-> tracker.calls]
        /\ spent' = [spent EXCEPT !.tokens = @ + used, !.calls = @ + Len(calls)]
        /\ IF tracker.raises THEN mode' = "down" ELSE UNCHANGED mode
  BY DEF developer_react
<1>2. UNCHANGED cfg /\ mode = "live"
  BY DEF developer_react, At
<1>3. /\ cfg \in Profiles /\ budget \in [tokens : Nat, calls : Nat]
      /\ spent \in [tokens : Nat, calls : Nat, invocations : 1..MaxInvocations]
      /\ spent.invocations \in Nat \ {0}
  BY Counters
<1> DEFINE tracker == record(budget, used, Len(calls))
           n == Len(calls)
           mt == cfg.max_tokens
           mc == cfg.max_tool_calls
           ut == Max(cfg.usages)
           uc == Max({ Len(a) : a \in cfg.asks })
           inv == spent.invocations
<1>4. /\ used \in Nat /\ used <= ut /\ n \in Nat /\ n <= uc
      /\ mt \in Nat /\ mc \in Nat /\ ut \in Nat /\ uc \in Nat
  <2>1. used \in Nat /\ calls \in cfg.asks /\ cfg.asks \subseteq Seq(Calls)
    BY <1>3, ProfileType DEF IsProfile
  <2> QED
    BY <1>3, <2>1, CallBounds, LenProperties
<1>5. /\ tracker.tokens = budget.tokens + used
      /\ tracker.calls = IF tracker.tokens > mt THEN budget.calls ELSE budget.calls + n
      /\ tracker.tokens \in Nat /\ tracker.calls \in Nat
      /\ tracker.raises <=> tracker.tokens > mt \/ tracker.calls > mc
  BY <1>3, <1>4, RecordType
<1>6. /\ budget'.tokens = tracker.tokens /\ budget'.calls = tracker.calls
      /\ spent'.tokens = spent.tokens + used /\ spent'.calls = spent.calls + n
      /\ spent'.invocations = inv
      /\ tracker.raises => mode' = "down"
      /\ ~tracker.raises => mode' = "live"
  <2>1. budget' = [tokens |-> tracker.tokens, calls |-> tracker.calls]
    BY <1>1
  <2>2. spent' = [spent EXCEPT !.tokens = @ + used, !.calls = @ + n]
    BY <1>1
  <2>3. IF tracker.raises THEN mode' = "down" ELSE UNCHANGED mode
    BY <1>1
  <2> HIDE DEF tracker
  <2> QED
    BY <1>2, <1>3, <2>1, <2>2, <2>3
<1> DEFINE pt == (inv - 1) * (mt + ut)
           pc == (inv - 1) * (mc + uc)
           qt == inv * (mt + ut)
           qc == inv * (mc + uc)
<1>7. pt \in Int /\ pc \in Int /\ qt = pt + mt + ut /\ qc = pc + mc + uc
  <2>1. inv \in Int /\ mt + ut \in Nat /\ mc + uc \in Nat
    BY <1>3, <1>4
  <2>2. (inv - 1) * (mt + ut) + (mt + ut) = inv * (mt + ut) /\ (inv - 1) * (mt + ut) \in Int
    <3> HIDE DEF inv, mt, ut
    <3> QED
      BY <2>1, OneMore
  <2>3. (inv - 1) * (mc + uc) + (mc + uc) = inv * (mc + uc) /\ (inv - 1) * (mc + uc) \in Int
    <3> HIDE DEF inv, mc, uc
    <3> QED
      BY <2>1, OneMore
  <2> HIDE DEF inv, mt, ut, mc, uc
  <2>4. pt \in Int /\ qt = pt + (mt + ut) /\ pc \in Int /\ qc = pc + (mc + uc)
    BY <2>2, <2>3
  <2> HIDE DEF pt, qt, pc, qc
  <2> QED
    BY <1>4, <2>4
<1>8. /\ budget.tokens <= mt /\ budget.calls <= mc
      /\ spent.tokens <= pt + budget.tokens /\ spent.calls <= pc + budget.calls
  BY <1>2 DEF SpendInv, MaxTokens, MaxCalls
<1>9. /\ spent.tokens \in Nat /\ spent.calls \in Nat /\ budget.tokens \in Nat
      /\ budget.calls \in Nat
  BY <1>3
<1> HIDE DEF tracker, n, pt, pc, qt, qc, mt, mc, ut, uc, inv
<1>10. spent'.tokens <= qt /\ spent'.calls <= qc
  <2>1. \A s, b, p \in Int : s <= p + b /\ b <= mt /\ used <= ut => s + used <= p + mt + ut
    BY <1>4
  <2>2. \A s, b, p \in Int : s <= p + b /\ b <= mc /\ n <= uc => s + n <= p + mc + uc
    BY <1>4
  <2>3. spent.tokens + used <= qt
    BY <1>4, <1>7, <1>8, <1>9, <2>1
  <2>4. spent.calls + n <= qc
    BY <1>4, <1>7, <1>8, <1>9, <2>2
  <2> QED
    BY <1>6, <2>3, <2>4
<1>11. mode' # "down" =>
         /\ budget'.tokens <= mt /\ budget'.calls <= mc
         /\ spent'.tokens <= pt + budget'.tokens /\ spent'.calls <= pc + budget'.calls
  <2>1. SUFFICES ASSUME ~tracker.raises
                 PROVE  /\ budget'.tokens <= mt /\ budget'.calls <= mc
                        /\ spent'.tokens <= pt + budget'.tokens
                        /\ spent'.calls <= pc + budget'.calls
    BY <1>6
  <2>2. tracker.tokens <= mt /\ tracker.calls <= mc /\ tracker.calls = budget.calls + n
    BY <1>4, <1>5, <2>1
  <2>3. \A s, b, p, u \in Int : s <= p + b => s + u <= p + (b + u)
    OBVIOUS
  <2>4. spent.tokens + used <= pt + (budget.tokens + used)
    BY <1>4, <1>7, <1>8, <1>9, <2>3
  <2>5. spent.calls + n <= pc + (budget.calls + n)
    BY <1>4, <1>7, <1>8, <1>9, <2>3
  <2> QED
    BY <1>5, <1>6, <2>2, <2>4, <2>5
<1>12. MaxTokens' = mt + ut /\ MaxCalls' = mc + uc /\ cfg'.max_tokens = mt
       /\ cfg'.max_tool_calls = mc
  BY <1>2 DEF MaxTokens, MaxCalls, mt, ut, mc, uc
<1> QED
  BY <1>6, <1>10, <1>11, <1>12 DEF SpendInv, pt, pc, qt, qc

LEMMA StepSpends == TypeInv /\ SpendInv /\ [Next]_vars => SpendInv'
<1> SUFFICES ASSUME TypeInv, SpendInv, [Next]_vars
             PROVE  SpendInv'
  OBVIOUS
<1>1. ASSUME UNCHANGED <<cfg, budget, spent>>, mode # "down"
      PROVE  SpendInv'
  BY <1>1 DEF SpendInv, MaxTokens, MaxCalls
<1>2. CASE developer_react
  BY <1>2, DeveloperSpends
<1>3. CASE DeveloperRaises \/ ToolsHalt \/ ToolsRaise \/ tools
  BY <1>1, <1>3 DEF DeveloperRaises, ToolsHalt, ToolsRaise, tools, At
<1>4. CASE structured \/ structured_via_json_prompt
  BY <1>1, <1>4 DEF structured, structured_via_json_prompt, ReviewOnly, At
<1>5. CASE ResumeToolCall \/ ResumeAtReviewer
  <2>1. /\ UNCHANGED cfg /\ mode' = "live" /\ budget' = [tokens |-> 0, calls |-> 0]
        /\ spent' = [spent EXCEPT !.invocations = @ + 1]
    BY <1>5 DEF ResumeToolCall, ResumeAtReviewer, Recompiled, NewTransport, Fresh
  <2> DEFINE inv == spent.invocations
  <2>2. /\ spent \in [tokens : Nat, calls : Nat, invocations : 1..MaxInvocations]
        /\ inv \in Nat \ {0} /\ cfg \in Profiles
    BY Counters
  <2>3. /\ spent'.invocations = inv + 1 /\ spent'.tokens = spent.tokens
        /\ spent'.calls = spent.calls /\ spent.tokens \in Nat /\ spent.calls \in Nat
    BY <2>1, <2>2
  <2> DEFINE kt == MaxTokens
             kc == MaxCalls
  <2>4. /\ kt \in Nat /\ kc \in Nat /\ MaxTokens' = kt /\ MaxCalls' = kc
        /\ cfg'.max_tokens \in Nat /\ cfg'.max_tool_calls \in Nat
    BY <2>1, <2>2, CallBounds DEF MaxTokens, MaxCalls
  <2>5. spent.tokens <= inv * kt /\ spent.calls <= inv * kc
    BY DEF SpendInv
  <2> HIDE DEF inv, kt, kc
  <2>6. inv + 1 \in Int /\ (inv + 1) - 1 = inv
    BY <2>2
  <2>7. inv * kt + kt = (inv + 1) * kt /\ inv * kt \in Int
        /\ inv * kc + kc = (inv + 1) * kc /\ inv * kc \in Int
    BY <2>4, <2>6, OneMore
  <2> DEFINE pt == inv * kt
             pc == inv * kc
             qt == (inv + 1) * kt
             qc == (inv + 1) * kc
  <2>8. pt + kt = qt /\ pt \in Int /\ pc + kc = qc /\ pc \in Int
        /\ spent.tokens <= pt /\ spent.calls <= pc
    BY <2>5, <2>7
  <2> HIDE DEF pt, pc, qt, qc
  <2>9. /\ spent.tokens <= qt /\ spent.calls <= qc
        /\ spent.tokens <= pt + 0 /\ spent.calls <= pc + 0
    BY <2>3, <2>4, <2>8
  <2>10. spent'.tokens <= spent'.invocations * MaxTokens'
         /\ spent'.calls <= spent'.invocations * MaxCalls'
    BY <2>3, <2>4, <2>9 DEF qt, qc
  <2>11. budget'.tokens = 0 /\ budget'.calls = 0
    BY <2>1
  <2>12. spent'.invocations - 1 = inv
    BY <2>3, <2>6
  <2>13. /\ spent'.tokens <= (spent'.invocations - 1) * MaxTokens' + budget'.tokens
         /\ spent'.calls <= (spent'.invocations - 1) * MaxCalls' + budget'.calls
    BY <2>3, <2>4, <2>9, <2>11, <2>12 DEF pt, pc
  <2>14. budget'.tokens <= cfg'.max_tokens /\ budget'.calls <= cfg'.max_tool_calls
    BY <2>4, <2>11
  <2> QED
    BY <2>10, <2>13, <2>14 DEF SpendInv
<1>6. CASE UNCHANGED vars
  BY <1>6 DEF vars, SpendInv, MaxTokens, MaxCalls
<1> QED
  BY <1>2, <1>3, <1>4, <1>5, <1>6 DEF Next, Step

\* The tracker raises after the call that exceeds a ceiling, and each resume starts a new one:
\* a task spends, over all its invocations, at most one call more than it may in each
\* (budget.py:37).
THEOREM SpendingHasACeiling == Spec => []SpendingIsBounded
<1>1. Init => SpendInv
  <2>1. SUFFICES ASSUME Init
                 PROVE  SpendInv
    OBVIOUS
  <2>2. /\ spent = [tokens |-> 0, calls |-> 0, invocations |-> 1] /\ cfg \in Profiles
        /\ budget = [tokens |-> 0, calls |-> 0]
    BY <2>1 DEF Init, Fresh
  <2>3. MaxTokens \in Nat /\ MaxCalls \in Nat /\ cfg.max_tokens \in Nat
        /\ cfg.max_tool_calls \in Nat
    BY <2>2, CallBounds
  <2>4. \A k \in Nat : 0 <= 1 * k /\ 0 <= (1 - 1) * k + 0
    OBVIOUS
  <2> QED
    BY <2>2, <2>3, <2>4 DEF SpendInv
<1>2. SpendInv => SpendingIsBounded
  BY DEF SpendInv, SpendingIsBounded, MaxTokens, MaxCalls
<1> QED
  BY <1>1, <1>2, StepSpends, LoopTypes, PTL DEF Spec

-----------------------------------------------------------------------------
(***************************************************************************)
(* The transcript.                                                         *)
(***************************************************************************)

\* The four things that happen to a transcript: nothing, a turn of the developer, the results
\* of a batch, the feedback of a review.
LEMMA TranscriptSteps ==
  ASSUME TypeInv, [Next]_vars
  PROVE  /\ UNCHANGED cfg
         /\ \/ /\ UNCHANGED dev_messages
               /\ \/ next' = next
                  \/ next = "reviewer" /\ next' = END
                  \/ mode = "down" /\ next' = "developer"
            \/ /\ next = "developer" /\ ~Tripped
               /\ \E calls \in Seq(Calls) :
                    /\ dev_messages' = Append(convo, AIMessage(Len(convo) + 1, calls))
                    /\ next' = IF calls = <<>> THEN "reviewer" ELSE "tools"
            \/ tools
            \/ /\ next = "reviewer" /\ next' \in {"developer", END}
               /\ dev_messages' = Append(dev_messages, HumanMessage(1))
<1>1. CASE developer_react
  <2>1. UNCHANGED cfg /\ next = "developer" /\ ~Tripped
    BY <1>1 DEF developer_react, At
  <2>2. PICK used \in cfg.usages, calls \in (IF budget_used THEN {<<>>} ELSE cfg.asks) :
          IF record(budget, used, Len(calls)).raises
          THEN UNCHANGED <<dev_messages, next>>
          ELSE /\ dev_messages' = Append(convo, AIMessage(Len(convo) + 1, calls))
               /\ next' = IF calls = <<>> THEN "reviewer" ELSE "tools"
    BY <1>1 DEF developer_react
  <2>3. calls \in Seq(Calls)
    BY Counters, ProfileType, EmptySeq DEF IsProfile
  <2> QED
    BY <2>1, <2>2, <2>3
<1>2. CASE DeveloperRaises \/ ToolsHalt \/ ToolsRaise
  BY <1>2 DEF DeveloperRaises, ToolsHalt, ToolsRaise
<1>3. CASE tools
  BY <1>3 DEF tools
<1>4. CASE structured \/ structured_via_json_prompt
  <2>1. /\ At("reviewer") /\ ReviewOnly /\ (Decides \/ Undecided)
    BY <1>4 DEF structured, structured_via_json_prompt
  <2>2. Decides => \/ next' = END /\ UNCHANGED dev_messages
                   \/ /\ dev_messages' = Append(dev_messages, HumanMessage(1))
                      /\ next' \in {"developer", END}
    BY DEF Decides
  <2> QED
    BY <2>1, <2>2 DEF ReviewOnly, Undecided, At
<1>5. CASE ResumeToolCall
  BY <1>5 DEF ResumeToolCall, Recompiled
<1>6. CASE ResumeAtReviewer
  BY <1>6 DEF ResumeAtReviewer, Recompiled
<1>7. CASE UNCHANGED vars
  BY <1>7 DEF vars
<1> QED
  BY <1>1, <1>2, <1>3, <1>4, <1>5, <1>6, <1>7 DEF Next, Step

Prefix(ms, mt) == Len(ms) <= Len(mt) /\ \A i \in 1..Len(ms) : mt[i] = ms[i]

\* What was grouped and answered stays so as a transcript grows.
LEMMA GroupedGrows ==
  ASSUME NEW ms \in Seq(Messages), NEW mt \in Seq(Messages), Prefix(ms, mt), Grouped(ms),
         \A i \in Len(ms) + 1..Len(mt) : mt[i].kind = "tool" => GroupedAt(mt, i)
  PROVE  Grouped(mt)
<1>1. Len(ms) \in Nat /\ Len(mt) \in Nat
  BY LenProperties
<1>2. ASSUME NEW i \in 1..Len(ms), mt[i].kind = "tool"
      PROVE  GroupedAt(mt, i)
  <2>1. mt[i] = ms[i]
    BY DEF Prefix
  <2>2. GroupedAt(ms, i)
    BY <1>2, <2>1 DEF Grouped
  <2> DEFINE nr == ms[i].nr
  <2>3. nr \in 1..i - 1 /\ i - nr \in 1..Len(ms)
    BY <1>1, <2>2 DEF GroupedAt
  <2>4. \A j \in i - nr + 1..i : j \in 1..Len(ms)
    BY <1>1, <2>3
  <2>5. mt[i - nr] = ms[i - nr] /\ \A j \in i - nr + 1..i : mt[j] = ms[j]
    BY <2>3, <2>4 DEF Prefix
  <2> QED
    BY <2>1, <2>2, <2>5 DEF GroupedAt
<1>3. \A i \in 1..Len(mt) : i \in 1..Len(ms) \/ i \in Len(ms) + 1..Len(mt)
  BY <1>1
<1> QED
  BY <1>2, <1>3 DEF Grouped

LEMMA AnsweredGrows ==
  ASSUME NEW ms \in Seq(Messages), NEW mt \in Seq(Messages), Prefix(ms, mt),
         NEW i \in 1..Len(ms), AnsweredAt(ms, i)
  PROVE  AnsweredAt(mt, i)
<1>1. Len(ms) \in Nat /\ Len(mt) \in Nat /\ mt[i] = ms[i] /\ Len(ms) <= Len(mt)
  BY LenProperties DEF Prefix
<1>2. ASSUME NEW nr \in 1..Len(mt[i].calls)
      PROVE  /\ i + nr <= Len(mt) /\ mt[i + nr].kind = "tool" /\ mt[i + nr].nr = nr
             /\ mt[i + nr].id = mt[i].id
  <2>1. /\ i + nr <= Len(ms) /\ ms[i + nr].kind = "tool" /\ ms[i + nr].nr = nr
        /\ ms[i + nr].id = ms[i].id
    BY <1>1, <1>2 DEF AnsweredAt
  <2>2. nr \in Nat /\ i + nr \in 1..Len(ms)
    BY <1>1, <2>1
  <2>3. mt[i + nr] = ms[i + nr]
    BY <2>2 DEF Prefix
  <2> QED
    BY <1>1, <2>1, <2>2, <2>3
<1> QED
  BY <1>2 DEF AnsweredAt

\* A batch that a gated node left by an exception: nothing follows it that answers.
SkippedAt(ms, i) == Gated /\ (i < Len(ms) => ms[i + 1].kind # "tool")

CallsInv(ms, pending) ==
  \A i \in 1..Len(ms) : CallsTools(ms[i]) =>
    \/ AnsweredAt(ms, i)
    \/ i = Len(ms) /\ pending
    \/ SkippedAt(ms, i)

\* How a transcript begins, and that its messages belong together.
Wellformed(ms) ==
  /\ Len(ms) >= 2 /\ ms[1].kind = "system" /\ ms[2].kind = "human"
  /\ \A i \in 1..Len(ms) : ms[i].kind = "ai" => ms[i].id = i
  /\ Grouped(ms)

TranscriptInv ==
  dev_messages # <<>> => Wellformed(dev_messages) /\ CallsInv(dev_messages, next = "tools")

LEMMA ConvoInv ==
  ASSUME TypeInv, TranscriptInv, next # "tools"
  PROVE  Wellformed(convo) /\ CallsInv(convo, FALSE)
<1>1. /\ convo \in Seq(Messages)
      /\ dev_messages # <<>> => convo = dev_messages
      /\ dev_messages = <<>> =>
           Len(convo) = 2 /\ convo[1] = SystemMessage /\ convo[2] = HumanMessage(cfg.task)
  BY Counters, NotedProperties
<1>2. CASE dev_messages # <<>>
  BY <1>1, <1>2 DEF TranscriptInv, CallsInv
<1>3. CASE dev_messages = <<>>
  <2>1. Len(convo) = 2 /\ convo[1].kind = "system" /\ convo[2].kind = "human"
    BY <1>1, <1>3 DEF SystemMessage, HumanMessage, Message
  <2>2. ASSUME NEW i \in 1..Len(convo)
        PROVE  convo[i].kind \in {"system", "human"}
    <3>1. i \in 1..2
      BY <2>1, <2>2
    <3>2. i = 1 \/ i = 2
      BY <3>1
    <3> QED
      BY <2>1, <3>2
  <2> QED
    BY <2>1, <2>2 DEF Wellformed, CallsInv, CallsTools, Grouped
<1> QED
  BY <1>2, <1>3

\* One more message, no result.
LEMMA AppendKeeps ==
  ASSUME NEW ms \in Seq(Messages), NEW m \in Messages, Wellformed(ms), CallsInv(ms, FALSE),
         m.kind # "tool", m.kind = "ai" => m.id = Len(ms) + 1,
         NEW pending, CallsTools(m) => pending
  PROVE  Wellformed(Append(ms, m)) /\ CallsInv(Append(ms, m), pending)
<1> DEFINE L == Len(ms)
           mt == Append(ms, m)
<1>1. /\ mt \in Seq(Messages) /\ Len(mt) = L + 1 /\ L \in Nat /\ L >= 2
      /\ \A i \in 1..L : mt[i] = ms[i]
      /\ mt[L + 1] = m
  BY AppendProperties, LenProperties DEF Wellformed
<1> HIDE DEF mt
<1>2. Prefix(ms, mt)
  BY <1>1 DEF Prefix
<1>3. \A i \in 1..L + 1 : i \in 1..L \/ i = L + 1
  BY <1>1
<1>4. \A i \in L + 1..L + 1 : i = L + 1
  BY <1>1
<1>5. Grouped(mt)
  BY <1>1, <1>2, <1>4, GroupedGrows DEF Wellformed
<1>6. mt[1] = ms[1] /\ mt[2] = ms[2]
  BY <1>1
<1>7. Wellformed(mt)
  BY <1>1, <1>3, <1>5, <1>6 DEF Wellformed
<1>8. ASSUME NEW i \in 1..L, CallsTools(mt[i])
      PROVE  AnsweredAt(mt, i) \/ SkippedAt(mt, i)
  <2>1. mt[i] = ms[i]
    BY <1>1
  <2>2. CASE AnsweredAt(ms, i)
    BY <1>1, <1>2, <2>2, AnsweredGrows
  <2>3. CASE SkippedAt(ms, i)
    <3>1. CASE i < L
      <4>1. i + 1 \in 1..L /\ i < L + 1
        BY <1>1, <3>1
      <4>2. mt[i + 1] = ms[i + 1]
        BY <1>1, <4>1
      <4> QED
        BY <1>1, <2>3, <3>1, <4>2 DEF SkippedAt
    <3>2. CASE i = L
      BY <1>1, <2>3, <3>2 DEF SkippedAt
    <3> QED
      BY <1>1, <3>1, <3>2
  <2> QED
    BY <1>8, <2>1, <2>2, <2>3 DEF CallsInv
<1>9. CallsInv(mt, pending)
  BY <1>1, <1>3, <1>8 DEF CallsInv
<1> QED
  BY <1>7, <1>9 DEF mt

LEMMA ToolsKeep ==
  ASSUME TypeInv, TranscriptInv, tools
  PROVE  TranscriptInv'
<1> DEFINE ms == dev_messages
           mt == dev_messages'
           L == Len(ms)
           N == Len(Batch)
           id == Last(dev_messages).id
<1>1. PICK results \in [1..N -> cfg.results \cup {Refusal}] :
        /\ \A nr \in 1..N : ToolMessage(id, nr, results[nr]) \in Messages
        /\ mt \in Seq(Messages) /\ Len(mt) = L + N
        /\ \A i \in 1..L : mt[i] = ms[i]
        /\ \A nr \in 1..N : mt[L + nr] = ToolMessage(id, nr, results[nr])
  BY ToolsAppends
<1>2. /\ next = "tools" /\ next' = "developer" /\ UNCHANGED cfg
  BY DEF tools, At
<1>3. /\ ms # <<>> /\ ms \in Seq(Messages) /\ CallsTools(Last(ms))
  BY <1>2 DEF TypeInv, ModeInv, TypeOK
<1>4. /\ L \in Nat \ {0} /\ N \in Nat /\ Last(ms) = ms[L] /\ N = Len(ms[L].calls)
      /\ id = ms[L].id
  BY <1>3, BatchProperties DEF Batch
<1>5. Wellformed(ms) /\ CallsInv(ms, TRUE)
  BY <1>2, <1>3 DEF TranscriptInv
<1>6. \A nr \in 1..N : mt[L + nr].kind = "tool" /\ mt[L + nr].nr = nr /\ mt[L + nr].id = id
  BY <1>1 DEF ToolMessage, Message
<1> HIDE DEF ms, mt, L, N, id
<1>7. Prefix(ms, mt)
  BY <1>1, <1>4 DEF Prefix, L
<1>8. ASSUME NEW i \in L + 1..L + N
      PROVE  GroupedAt(mt, i)
  <2> DEFINE nr == i - L
  <2>1. nr \in 1..N /\ L + nr = i /\ i - nr = L /\ L \in 1..L /\ nr \in 1..i - 1
    BY <1>4
  <2>2. mt[i].kind = "tool" /\ mt[i].nr = nr /\ mt[i].id = id
    BY <1>6, <2>1
  <2>3. mt[L].kind = "ai" /\ mt[L].id = id
    BY <1>1, <1>3, <1>4, <2>1 DEF CallsTools
  <2>4. ASSUME NEW j \in L + 1..i
        PROVE  mt[j].kind = "tool" /\ mt[j].nr = j - L
    <3>1. j - L \in 1..N /\ L + (j - L) = j
      BY <1>4
    <3> QED
      BY <1>6, <3>1
  <2> HIDE DEF nr
  <2> QED
    BY <2>1, <2>2, <2>3, <2>4 DEF GroupedAt
<1>9. Grouped(mt)
  BY <1>1, <1>3, <1>5, <1>7, <1>8, GroupedGrows DEF Wellformed, L
<1>10. \A i \in 1..L + N : i \in 1..L \/ i \in L + 1..L + N
  BY <1>4
<1>11. ASSUME NEW i \in 1..L + N, mt[i].kind = "ai"
       PROVE  i \in 1..L /\ mt[i] = ms[i]
  <2>1. i \notin L + 1..L + N
    <3>1. SUFFICES ASSUME i \in L + 1..L + N
                   PROVE  FALSE
      OBVIOUS
    <3>2. i - L \in 1..N /\ L + (i - L) = i
      BY <1>4, <3>1
    <3> QED
      BY <1>6, <1>11, <3>2
  <2> QED
    BY <1>1, <1>10, <2>1
<1>12. Wellformed(mt)
  <2>1. 1 \in 1..L /\ 2 \in 1..L /\ L + N >= 2
    BY <1>4, <1>5 DEF Wellformed, L
  <2> QED
    BY <1>1, <1>5, <1>9, <1>11, <2>1 DEF Wellformed, L
<1>13. ASSUME NEW i \in 1..L + N, CallsTools(mt[i])
       PROVE  AnsweredAt(mt, i) \/ SkippedAt(mt, i)
  <2>1. i \in 1..L /\ mt[i] = ms[i]
    BY <1>11, <1>13 DEF CallsTools
  <2>2. CASE i = L
    <3>1. ASSUME NEW nr \in 1..N
          PROVE  /\ i + nr <= L + N /\ mt[i + nr].kind = "tool" /\ mt[i + nr].nr = nr
                 /\ mt[i + nr].id = mt[i].id
      BY <1>4, <1>6, <2>1, <2>2
    <3> QED
      BY <1>1, <1>4, <2>1, <2>2, <3>1 DEF AnsweredAt
  <2>3. CASE i # L
    <3>1. AnsweredAt(ms, i) \/ SkippedAt(ms, i)
      BY <1>5, <1>13, <2>1, <2>3 DEF CallsInv, L
    <3>2. CASE AnsweredAt(ms, i)
      BY <1>1, <1>3, <1>7, <2>1, <3>2, AnsweredGrows DEF L
    <3>3. CASE SkippedAt(ms, i)
      <4>1. i + 1 \in 1..L /\ i < L
        BY <1>4, <2>1, <2>3
      <4>2. mt[i + 1] = ms[i + 1]
        BY <1>1, <4>1
      <4> QED
        BY <3>3, <4>1, <4>2 DEF SkippedAt, L
    <3> QED
      BY <3>1, <3>2, <3>3
  <2> QED
    BY <2>2, <2>3
<1>14. Gated' <=> Gated
  BY <1>2 DEF Gated
<1>15. CallsInv(dev_messages, next = "tools")'
  <2>1. dev_messages' = mt /\ Len(mt) = L + N
    BY <1>1 DEF mt
  <2>2. \A i \in 1..Len(mt) : CallsTools(mt[i]) => AnsweredAt(mt, i) \/ SkippedAt(mt, i)
    BY <1>13, <2>1
  <2> HIDE DEF mt
  <2> QED
    BY <1>14, <2>1, <2>2 DEF CallsInv, SkippedAt, AnsweredAt, CallsTools
<1>16. Wellformed(dev_messages)'
  <2>1. dev_messages' = mt
    BY DEF mt
  <2> QED
    BY <1>12, <2>1 DEF Wellformed, Grouped, GroupedAt
<1> QED
  BY <1>15, <1>16 DEF TranscriptInv

LEMMA StepTranscript == TypeInv /\ TranscriptInv /\ [Next]_vars => TranscriptInv'
<1> SUFFICES ASSUME TypeInv, TranscriptInv, [Next]_vars
             PROVE  TranscriptInv'
  OBVIOUS
<1>1. UNCHANGED cfg
  BY TranscriptSteps
<1>2. Gated' <=> Gated
  BY <1>1 DEF Gated
<1>3. ASSUME NEW ms, dev_messages' = ms,
             ms # <<>> => Wellformed(ms) /\ CallsInv(ms, next' = "tools")
      PROVE  TranscriptInv'
  BY <1>2, <1>3 DEF TranscriptInv, Wellformed, Grouped, GroupedAt, CallsInv, CallsTools, AnsweredAt,
                    SkippedAt
<1>4. CASE UNCHANGED dev_messages /\ (next' = next \/ (next = "reviewer" /\ next' = END))
  <2>1. dev_messages # <<>> => Wellformed(dev_messages) /\ CallsInv(dev_messages, next' = "tools")
    BY <1>4 DEF TranscriptInv, CallsInv, END
  <2> QED
    BY <1>3, <1>4, <2>1
<1>5. CASE UNCHANGED dev_messages /\ mode = "down" /\ next' = "developer"
  <2>1. next = "tools" => Gated
    BY <1>5 DEF TypeInv, ModeInv
  <2>2. dev_messages # <<>> => Wellformed(dev_messages) /\ CallsInv(dev_messages, next' = "tools")
    <3>1. ASSUME dev_messages # <<>>
          PROVE  Wellformed(dev_messages) /\ CallsInv(dev_messages, next = "tools")
      BY <3>1 DEF TranscriptInv
    <3>2. ASSUME NEW i \in 1..Len(dev_messages), i = Len(dev_messages), Gated
          PROVE  SkippedAt(dev_messages, i)
      <4>1. Len(dev_messages) \in Nat
        BY Counters, LenProperties
      <4>2. ~(i < Len(dev_messages))
        BY <3>2, <4>1
      <4> QED
        BY <3>2, <4>2 DEF SkippedAt
    <3> QED
      BY <1>5, <2>1, <3>1, <3>2 DEF CallsInv
  <2> QED
    BY <1>3, <1>5, <2>2
<1>6. ASSUME next = "developer", NEW calls \in Seq(Calls),
             dev_messages' = Append(convo, AIMessage(Len(convo) + 1, calls)),
             next' = IF calls = <<>> THEN "reviewer" ELSE "tools"
      PROVE  TranscriptInv'
  <2> DEFINE m == AIMessage(Len(convo) + 1, calls)
  <2>1. convo \in Seq(Messages) /\ Len(convo) \in Nat
    BY Counters, NotedProperties
  <2>2. m \in Messages
    BY <2>1, MessageTypes DEF Messages
  <2>3. m.kind = "ai" /\ m.id = Len(convo) + 1 /\ (CallsTools(m) => next' = "tools")
    BY <1>6 DEF AIMessage, Message, CallsTools
  <2>4. Wellformed(convo) /\ CallsInv(convo, FALSE)
    BY <1>6, ConvoInv
  <2> HIDE DEF m
  <2>5. Wellformed(Append(convo, m)) /\ CallsInv(Append(convo, m), next' = "tools")
    BY <2>1, <2>2, <2>3, <2>4, AppendKeeps
  <2> QED
    BY <1>3, <1>6, <2>5 DEF m
<1>7. ASSUME next = "reviewer", next' \in {"developer", END},
             dev_messages' = Append(dev_messages, HumanMessage(1))
      PROVE  TranscriptInv'
  <2> DEFINE m == HumanMessage(1)
  <2>1. dev_messages \in Seq(Messages) /\ dev_messages # <<>>
    BY <1>7 DEF TypeInv, ModeInv
  <2>2. m \in Messages
    BY MessageTypes DEF Messages
  <2>3. m.kind = "human" /\ ~CallsTools(m)
    BY DEF HumanMessage, Message, CallsTools
  <2>4. Wellformed(dev_messages) /\ CallsInv(dev_messages, FALSE)
    BY <1>7, <2>1 DEF TranscriptInv, CallsInv
  <2> HIDE DEF m
  <2>5. Wellformed(Append(dev_messages, m)) /\ CallsInv(Append(dev_messages, m), next' = "tools")
    BY <2>1, <2>2, <2>3, <2>4, AppendKeeps
  <2> QED
    BY <1>3, <1>7, <2>5 DEF m
<1>8. tools => TranscriptInv'
  BY ToolsKeep
<1>9. \/ UNCHANGED dev_messages /\ (next' = next \/ (next = "reviewer" /\ next' = END))
      \/ UNCHANGED dev_messages /\ mode = "down" /\ next' = "developer"
      \/ /\ next = "developer"
         /\ \E calls \in Seq(Calls) :
              /\ dev_messages' = Append(convo, AIMessage(Len(convo) + 1, calls))
              /\ next' = IF calls = <<>> THEN "reviewer" ELSE "tools"
      \/ tools
      \/ /\ next = "reviewer" /\ next' \in {"developer", END}
         /\ dev_messages' = Append(dev_messages, HumanMessage(1))
  BY TranscriptSteps
<1> QED
  BY <1>4, <1>5, <1>6, <1>7, <1>8, <1>9

LEMMA TranscriptsBelongTogether == Spec => [](TypeInv /\ TranscriptInv)
<1>1. Init => TranscriptInv
  BY DEF Init, TranscriptInv
<1> QED
  BY <1>1, StepTranscript, LoopTypes, PTL DEF Spec

\* With no batch abandoned, what the transcript says is what a provider accepts.
LEMMA TranscriptIsLegal ==
  ASSUME NEW ms \in Seq(Messages), Wellformed(ms), CallsInv(ms, FALSE),
         \A i \in 1..Len(ms) : CallsTools(ms[i]) => ~SkippedAt(ms, i)
  PROVE  Legal(ms)
<1>1. ASSUME NEW i \in 1..Len(ms), ms[i].kind = "tool"
      PROVE  i > ms[i].nr /\ ms[i - ms[i].nr].kind = "ai" /\ ms[i - ms[i].nr].id = ms[i].id
  <2>1. GroupedAt(ms, i)
    BY <1>1 DEF Wellformed, Grouped
  <2>2. Len(ms) \in Nat
    BY LenProperties
  <2> QED
    BY <2>1, <2>2 DEF GroupedAt
<1>2. ASSUME NEW i \in 1..Len(ms), CallsTools(ms[i])
      PROVE  AnsweredAt(ms, i)
  BY <1>2 DEF CallsInv
<1> QED
  BY <1>1, <1>2 DEF Legal, AnsweredAt

\* A marker is a human message of its size.
LEMMA MarkerTypes ==
  ASSUME TypeInv, NEW size \in cfg.markers
  PROVE  /\ Marker(size) \in Messages
         /\ Marker(size).kind = "human" /\ Marker(size).size = size /\ ~Marker(size).hit
<1>1. size \in Nat
  BY Counters, ProfileType DEF IsProfile
<1> QED
  BY <1>1, MessageTypes DEF Messages, Marker, HumanMessage, Message

\* Whatever a window drops and its marker says, what the model gets is a transcript its
\* provider accepts (engine.py:199-206), as long as the protected head ends before the first
\* batch and no tool node raised.
THEOREM PromptsStayLegal == Spec => []PromptsAreLegal
<1>1. TypeInv /\ TranscriptInv => PromptsAreLegal
  <2> SUFFICES ASSUME TypeInv, TranscriptInv, AboutToAsk, cfg.engine.first <= 2, ~Abandoned,
                      NEW size \in cfg.markers
               PROVE  Legal(llm_input(size))
    BY DEF PromptsAreLegal
  <2> DEFINE e == cfg.engine
             note == HumanMessage(1)
  <2>1. next = "developer"
    BY DEF AboutToAsk, At
  <2>2. e \in Engines
    BY Counters, ProfileType DEF IsProfile
  <2>3. /\ convo \in Seq(Messages) /\ Len(convo) \in Nat \ {0}
        /\ dev_messages # <<>> => convo = dev_messages
        /\ dev_messages = <<>> =>
             Len(convo) = 2 /\ convo[1] = SystemMessage /\ convo[2] = HumanMessage(cfg.task)
        /\ noted \in Seq(Messages)
        /\ noted = convo \/ noted = Append(convo, note)
    BY Counters, NotedProperties DEF noted
  <2>4. Wellformed(convo) /\ CallsInv(convo, FALSE)
    BY <2>1, ConvoInv
  <2>5. \A i \in 1..Len(convo) : CallsTools(convo[i]) => ~SkippedAt(convo, i)
    <3>1. CASE dev_messages # <<>>
      BY <2>3, <3>1 DEF Abandoned, SkippedAt
    <3>2. CASE dev_messages = <<>>
      <4>1. ASSUME NEW i \in 1..Len(convo)
            PROVE  i = 1 \/ i = 2
        <5> HIDE DEF convo
        <5>1. i \in 1..2
          BY <2>3, <3>2
        <5> QED
          BY <5>1
      <4> QED
        BY <2>3, <3>2, <4>1 DEF CallsTools, SystemMessage, HumanMessage, Message
    <3> QED
      BY <3>1, <3>2
  <2>6. /\ note \in Messages /\ note.kind = "human" /\ ~CallsTools(note)
    BY MessageTypes DEF Messages, HumanMessage, Message, CallsTools
  <2>7. Wellformed(noted) /\ Legal(noted)
    <3>1. Legal(convo)
      BY <2>3, <2>4, <2>5, TranscriptIsLegal
    <3> HIDE DEF note
    <3>2. ASSUME NEW ms, ms = Append(convo, note)
          PROVE  Wellformed(ms) /\ Legal(ms)
      <4>1. /\ ms \in Seq(Messages) /\ Len(ms) = Len(convo) + 1 /\ ms[Len(convo) + 1] = note
            /\ \A i \in 1..Len(convo) : ms[i] = convo[i]
        BY <2>3, <2>6, <3>2, AppendProperties
      <4>2. Wellformed(ms) /\ CallsInv(ms, FALSE)
        BY <2>3, <2>4, <2>6, <3>2, AppendKeeps
      <4>3. \A i \in 1..Len(ms) : CallsTools(ms[i]) => ~SkippedAt(ms, i)
        <5>1. ASSUME NEW i \in 1..Len(ms), CallsTools(ms[i]), SkippedAt(ms, i)
              PROVE  FALSE
          <6>1. i \in 1..Len(convo) /\ ms[i] = convo[i]
            <7>1. i # Len(convo) + 1
              BY <2>6, <4>1, <5>1
            <7>2. i \in 1..Len(convo)
              BY <2>3, <4>1, <7>1
            <7> QED
              BY <4>1, <7>2
          <6>2. AnsweredAt(convo, i)
            BY <2>4, <2>5, <5>1, <6>1 DEF CallsInv
          <6>3. 1 \in 1..Len(convo[i].calls)
            <7>1. convo[i].calls \in Seq(Calls)
              <8> HIDE DEF convo
              <8>1. convo[i] \in Messages
                BY <2>3, <6>1, ElementOfSeq
              <8> QED
                BY <8>1 DEF Messages, MessagesOf
            <7>2. convo[i].calls # <<>>
              BY <5>1, <6>1 DEF CallsTools
            <7> QED
              BY <7>1, <7>2, EmptySeq
          <6>4. i + 1 <= Len(convo) /\ convo[i + 1].kind = "tool"
            BY <6>2, <6>3 DEF AnsweredAt
          <6>5. i + 1 \in 1..Len(convo) /\ i < Len(ms)
            BY <2>3, <4>1, <6>1, <6>4
          <6>6. ms[i + 1].kind = "tool"
            BY <4>1, <6>4, <6>5
          <6> QED
            BY <5>1, <6>5, <6>6 DEF SkippedAt
        <5> QED
          BY <5>1
      <4> QED
        BY <4>1, <4>2, <4>3, TranscriptIsLegal
    <3> QED
      BY <2>3, <2>4, <3>1, <3>2
  <2>8. \A i \in 1..Len(noted) : i <= e.first => noted[i].kind \in {"system", "human"}
    <3>1. ASSUME NEW i \in 1..Len(noted), i <= e.first
          PROVE  i = 1 \/ i = 2
      BY <3>1, <2>2, EngineType
    <3> QED
      BY <2>7, <3>1 DEF Wellformed
  <2> HIDE DEF e, note
  <2>9. Legal(apply(e, noted, Marker(size)))
    BY <2>2, <2>3, <2>7, <2>8, MarkerTypes, WindowIsLegal DEF Wellformed, Messages
  <2> QED
    BY <2>9 DEF llm_input, e
<1> QED
  BY <1>1, TranscriptsBelongTogether, PTL

\* A limit in messages is kept (engine.py:117).  A prompt over a limit in tokens holds besides
\* the head and the marker, of whatever size, the newest message alone or no more than
\* target_ratio of what the head leaves.
THEOREM PromptsFit == Spec => []PromptFitsWindow
<1>1. TypeInv => PromptFitsWindow
  <2> DEFINE e == cfg.engine
             left == e.limit - count_tokens(SubSeq(noted, 1, head(e, noted)))
             over(size) == count_tokens(llm_input(size)) - e.limit
  <2> SUFFICES ASSUME TypeInv, NEW size \in cfg.markers, should_compress(e, llm_input(size))
               PROVE  /\ e.unit = "tokens"
                      /\ \/ left + over(size) <= size + Last(noted).size
                         \/ 100 * (left + over(size) - size) <= left * e.ratio
    BY DEF PromptFitsWindow
  <2>1. e \in Engines
    BY Counters, ProfileType DEF IsProfile
  <2>2. noted \in Seq(Messages) /\ noted # <<>>
    <3>1. noted \in Seq(Messages) /\ Len(convo) \in Nat \ {0}
          /\ (noted = convo \/ Len(noted) = Len(convo) + 1)
      BY Counters, NotedProperties
    <3> HIDE DEF noted, convo
    <3>2. Len(noted) # 0
      BY <3>1
    <3> QED
      BY <3>1, <3>2, EmptySeq
  <2>3. Sized(Messages)
    BY MessageTypes DEF Messages
  <2>4. Marker(size) \in Messages /\ Marker(size).size = size
    BY MarkerTypes
  <2> HIDE DEF noted, e
  <2> QED
    BY <2>1, <2>2, <2>3, <2>4, WindowFits DEF llm_input, e
<1> QED
  BY <1>1, LoopTypes, PTL

-----------------------------------------------------------------------------
(***************************************************************************)
(* What reaches the model.                                                 *)
(***************************************************************************)

\* In block mode a result that hits the guardrail stays among the newest results: the
\* developer raises on it before it can add anything.
BlockInv ==
  cfg.guardrail = "block" =>
    \A i \in 1..Len(dev_messages) : dev_messages[i].hit =>
      next = "developer" /\ \A k \in i..Len(dev_messages) : dev_messages[k].kind = "tool"

\* What passes the guardrail holds no hit at all.
LEMMA UntrippedIsClean ==
  ASSUME TypeInv, BlockInv, cfg.guardrail = "block", ~Tripped
  PROVE  \A i \in 1..Len(dev_messages) : ~dev_messages[i].hit
<1>1. SUFFICES ASSUME NEW i \in 1..Len(dev_messages), dev_messages[i].hit
               PROVE  FALSE
  OBVIOUS
<1>2. dev_messages \in Seq(Messages) /\ Len(dev_messages) \in Nat
  BY Counters, LenProperties
<1>3. dev_messages # <<>>
  BY <1>1, <1>2
<1>4. \A k \in i..Len(dev_messages) : dev_messages[k].kind = "tool"
  BY <1>1 DEF BlockInv
<1>5. dev_messages[i] \in new_tool_messages(dev_messages)
  BY <1>1, <1>4 DEF new_tool_messages
<1> QED
  BY <1>1, <1>3, <1>5 DEF Tripped

LEMMA StepBlocks == TypeInv /\ BlockInv /\ [Next]_vars => BlockInv'
<1> SUFFICES ASSUME TypeInv, BlockInv, [Next]_vars
             PROVE  BlockInv'
  OBVIOUS
<1> SUFFICES ASSUME cfg.guardrail = "block"
             PROVE  \A i \in 1..Len(dev_messages') : dev_messages'[i].hit =>
                      /\ next' = "developer"
                      /\ \A k \in i..Len(dev_messages') : dev_messages'[k].kind = "tool"
  <2>1. UNCHANGED cfg
    BY TranscriptSteps
  <2> QED
    BY <2>1 DEF BlockInv
<1>1. dev_messages \in Seq(Messages) /\ Len(dev_messages) \in Nat
  BY Counters, LenProperties
<1>2. CASE UNCHANGED dev_messages /\ (next' = next \/ (next = "reviewer" /\ next' = END))
  BY <1>2 DEF BlockInv
<1>3. CASE UNCHANGED dev_messages /\ mode = "down" /\ next' = "developer"
  BY <1>3 DEF BlockInv
<1>4. ASSUME NEW ms \in Seq(Messages), NEW m, dev_messages' = Append(ms, m), ~m.hit,
             \A i \in 1..Len(ms) : ~ms[i].hit
      PROVE  \A i \in 1..Len(dev_messages') : ~dev_messages'[i].hit
  <2>1. /\ Len(dev_messages') = Len(ms) + 1 /\ dev_messages'[Len(ms) + 1] = m
        /\ \A i \in 1..Len(ms) : dev_messages'[i] = ms[i] /\ Len(ms) \in Nat
    BY <1>4, LenProperties
  <2>2. ASSUME NEW i \in 1..Len(dev_messages')
        PROVE  i \in 1..Len(ms) \/ i = Len(ms) + 1
    BY <2>1, LenProperties
  <2> QED
    BY <1>4, <2>1, <2>2
<1>5. ASSUME next = "developer", ~Tripped, NEW calls \in Seq(Calls),
             dev_messages' = Append(convo, AIMessage(Len(convo) + 1, calls))
      PROVE  \A i \in 1..Len(dev_messages') : ~dev_messages'[i].hit
  <2> DEFINE m == AIMessage(Len(convo) + 1, calls)
  <2>1. ~m.hit
    BY DEF AIMessage, Message
  <2>2. /\ convo \in Seq(Messages)
        /\ dev_messages # <<>> => convo = dev_messages
        /\ dev_messages = <<>> =>
             Len(convo) = 2 /\ convo[1] = SystemMessage /\ convo[2] = HumanMessage(cfg.task)
    BY Counters, NotedProperties
  <2>3. \A i \in 1..Len(convo) : ~convo[i].hit
    <3>1. CASE dev_messages # <<>>
      BY <1>5, <2>2, <3>1, UntrippedIsClean
    <3>2. CASE dev_messages = <<>>
      <4>1. ASSUME NEW i \in 1..Len(convo)
            PROVE  i = 1 \/ i = 2
        <5> HIDE DEF convo
        <5>1. i \in 1..2
          BY <2>2, <3>2
        <5> QED
          BY <5>1
      <4> QED
        BY <2>2, <3>2, <4>1 DEF SystemMessage, HumanMessage, Message
    <3> QED
      BY <3>1, <3>2
  <2>4. dev_messages' = Append(convo, m)
    BY <1>5
  <2> HIDE DEF m
  <2> QED
    BY <1>4, <2>1, <2>2, <2>3, <2>4
<1>6. CASE tools
  <2> DEFINE ms == dev_messages
             mt == dev_messages'
             L == Len(ms)
             N == Len(Batch)
             id == Last(dev_messages).id
  <2>1. PICK results \in [1..N -> cfg.results \cup {Refusal}] :
          /\ \A nr \in 1..N : ToolMessage(id, nr, results[nr]) \in Messages
          /\ mt \in Seq(Messages) /\ Len(mt) = L + N
          /\ \A i \in 1..L : mt[i] = ms[i]
          /\ \A nr \in 1..N : mt[L + nr] = ToolMessage(id, nr, results[nr])
    BY <1>6, ToolsAppends
  <2>2. next = "tools" /\ next' = "developer" /\ N \in Nat
    BY <1>6, BatchProperties DEF tools, At, TypeInv, ModeInv
  <2>3. \A i \in 1..L : ~ms[i].hit
    BY <2>2 DEF BlockInv
  <2>4. \A nr \in 1..N : mt[L + nr].kind = "tool"
    BY <2>1 DEF ToolMessage, Message
  <2> HIDE DEF mt, ms, N, id
  <2>5. ASSUME NEW i \in 1..Len(mt), mt[i].hit
        PROVE  \A k \in i..Len(mt) : mt[k].kind = "tool"
    <3>1. i \notin 1..L
      BY <2>1, <2>3, <2>5
    <3>2. ASSUME NEW k \in i..Len(mt)
          PROVE  k - L \in 1..N /\ L + (k - L) = k
      BY <1>1, <2>1, <2>2, <3>1 DEF ms
    <3>3. ASSUME NEW k \in i..Len(mt)
          PROVE  mt[k].kind = "tool"
      <4>1. k - L \in 1..N /\ L + (k - L) = k
        BY <3>2
      <4> QED
        BY <2>4, <4>1
    <3> QED
      BY <3>3
  <2> QED
    BY <2>2, <2>5 DEF mt
<1>7. ASSUME next = "reviewer", dev_messages' = Append(dev_messages, HumanMessage(1))
      PROVE  \A i \in 1..Len(dev_messages') : ~dev_messages'[i].hit
  <2>1. \A i \in 1..Len(dev_messages) : ~dev_messages[i].hit
    BY <1>7 DEF BlockInv
  <2>2. ~HumanMessage(1).hit
    BY DEF HumanMessage, Message
  <2> QED
    BY <1>1, <1>4, <1>7, <2>1, <2>2
<1>8. \/ UNCHANGED dev_messages /\ (next' = next \/ (next = "reviewer" /\ next' = END))
      \/ UNCHANGED dev_messages /\ mode = "down" /\ next' = "developer"
      \/ /\ next = "developer" /\ ~Tripped
         /\ \E calls \in Seq(Calls) :
              dev_messages' = Append(convo, AIMessage(Len(convo) + 1, calls))
      \/ tools
      \/ next = "reviewer" /\ dev_messages' = Append(dev_messages, HumanMessage(1))
  BY TranscriptSteps
<1> QED
  BY <1>2, <1>3, <1>5, <1>6, <1>7, <1>8

\* In block mode no tool result that trips the guardrail is ever sent to the model, in
\* whichever place of its batch it came back, and after any number of resumes (guardrail.py:112).
THEOREM PoisonIsHeldBack == Spec => []PoisonNeverReachesModel
<1>1. Init => BlockInv
  BY DEF Init, BlockInv
<1>2. TypeInv /\ BlockInv => PoisonNeverReachesModel
  <2> SUFFICES ASSUME TypeInv, BlockInv, AboutToAsk, cfg.guardrail = "block",
                      NEW size \in cfg.markers, NEW m \in Range(llm_input(size))
               PROVE  ~m.hit
    BY DEF PoisonNeverReachesModel
  <2>1. cfg.engine \in Engines /\ noted \in Seq(Messages) /\ Marker(size) \in Messages
    BY Counters, ProfileType, NotedProperties, MarkerTypes DEF IsProfile
  <2>2. CASE m = Marker(size)
    BY <2>2, MarkerTypes
  <2>3. CASE m \in Range(noted)
    <3>1. PICK i \in 1..Len(noted) : m = noted[i]
      BY <2>1, <2>3, RangeEquality
    <3>2. m \in Range(dev_messages) \/ ~m.hit
      BY <3>1, NotedRange, Counters
    <3>3. CASE m \in Range(dev_messages)
      BY <3>3, Counters, RangeEquality, UntrippedIsClean DEF AboutToAsk
    <3> QED
      BY <3>2, <3>3
  <2>4. Range(llm_input(size)) \subseteq Range(noted) \cup {Marker(size)}
    BY <2>1, WindowRange DEF llm_input
  <2> QED
    BY <2>2, <2>3, <2>4
<1> QED
  BY <1>1, <1>2, StepBlocks, LoopTypes, PTL DEF Spec

\* The transcript is the beginning of what the window is made of.
LEMMA NotedPrefix ==
  ASSUME TypeInv, NEW i \in 1..Len(dev_messages)
  PROVE  i \in 1..Len(noted) /\ noted[i] = dev_messages[i]
<1>1. dev_messages \in Seq(Messages) /\ Len(dev_messages) \in Nat
  BY Counters, LenProperties
<1>2. dev_messages # <<>>
  BY <1>1
<1>3. convo = dev_messages
  BY <1>1, <1>2, NotedProperties, Counters
<1>4. \/ noted = dev_messages
      \/ /\ Len(noted) = Len(dev_messages) + 1
         /\ \A j \in 1..Len(dev_messages) : noted[j] = dev_messages[j]
  BY <1>3, NotedProperties, Counters
<1> QED
  BY <1>1, <1>4

\* A large result that a summary replaced can still be fetched from the spill store, also one
\* that was dropped only to keep the transcript legal (summary.py:170, spill.py:166).
THEOREM DroppedIsFetchable == Spec => DroppedResultsAreSpilled
<1>1. TypeInv /\ [Next]_vars =>
        [spent'.tokens > spent.tokens /\ cfg.engine.spill =>
           \A size \in cfg.markers :
             LET seen == Range(llm_input(size)) IN
             \A m \in Range(dev_messages) :
               Oversized(m) => m \in seen \/ Payload(m) \in spilled']_vars
  <2> SUFFICES ASSUME TypeInv, [Next]_vars, spent'.tokens > spent.tokens, cfg.engine.spill,
                      NEW size \in cfg.markers, NEW m \in Range(dev_messages), Oversized(m),
                      m \notin Range(llm_input(size))
               PROVE  Payload(m) \in spilled'
    OBVIOUS
  <2>1. spent.tokens \in Nat /\ spent \in [tokens : Nat, calls : Nat, invocations : 1..MaxInvocations]
    BY Counters
  <2>2. developer_react
    <3>1. ~(spent'.tokens = spent.tokens)
      BY <2>1
    <3>2. Recompiled => spent'.tokens = spent.tokens
      BY <2>1 DEF Recompiled
    <3>3. UNCHANGED spent => spent'.tokens = spent.tokens
      OBVIOUS
    <3>4. DeveloperRaises \/ ToolsHalt \/ ToolsRaise \/ tools \/ structured
            \/ structured_via_json_prompt \/ UNCHANGED vars => UNCHANGED spent
      BY DEF DeveloperRaises, ToolsHalt, ToolsRaise, tools, structured,
             structured_via_json_prompt, ReviewOnly, vars
    <3>5. ResumeToolCall \/ ResumeAtReviewer => Recompiled
      BY DEF ResumeToolCall, ResumeAtReviewer
    <3> QED
      BY <3>1, <3>2, <3>3, <3>4, <3>5 DEF Next, Step
  <2>3. summarize(cfg.engine, noted) \subseteq spilled'
    BY <2>2 DEF developer_react
  <2>4. cfg.engine \in Engines /\ noted \in Seq(Messages) /\ Marker(size) \in Messages
    BY Counters, ProfileType, NotedProperties, MarkerTypes DEF IsProfile
  <2>5. PICK i \in 1..Len(dev_messages) : m = dev_messages[i]
    BY Counters, RangeEquality
  <2>6. i \in 1..Len(noted) /\ noted[i] = m
    BY <2>5, NotedPrefix
  <2>7. m \in Range(dropped(cfg.engine, noted))
    BY <2>4, <2>6, WindowKeeps DEF llm_input
  <2>8. Payload(m) \in summarize(cfg.engine, noted)
    BY <2>7 DEF summarize, spill_messages
  <2> QED
    BY <2>3, <2>8
<1> QED
  BY <1>1, LoopTypes, PTL DEF Spec, DroppedResultsAreSpilled

\* The results at the end of a transcript answer one message: that message stands at `p`, and
\* each result is numbered by its distance from it.
LEMMA NewestBatch ==
  ASSUME NEW ms \in Seq(Messages), Grouped(ms), NEW j \in 1..Len(ms),
         \A k \in j..Len(ms) : ms[k].kind = "tool"
  PROVE  \E p \in 1..j - 1 :
           /\ ms[p].kind = "ai"
           /\ \A k \in p + 1..Len(ms) : ms[k].kind = "tool" /\ ms[k].nr = k - p
<1> DEFINE L == Len(ms)
           p == j - ms[j].nr
<1>1. L \in Nat
  BY LenProperties
<1>2. GroupedAt(ms, j)
  BY <1>1 DEF Grouped
<1>3. p \in 1..j - 1 /\ ms[p].kind = "ai" /\ \A k \in p + 1..j : ms[k].kind = "tool"
  BY <1>2 DEF GroupedAt
<1> HIDE DEF p
<1>4. \A k \in p + 1..L : ms[k].kind = "tool"
  <2>1. \A k \in p + 1..L : k \in p + 1..j \/ k \in j..L
    BY <1>1, <1>3
  <2> QED
    BY <1>3, <2>1
<1>5. ASSUME NEW k \in p + 1..L
      PROVE  ms[k].nr = k - p
  <2>1. k \in 1..L /\ ms[k].kind = "tool"
    BY <1>1, <1>3, <1>4
  <2>2. GroupedAt(ms, k)
    BY <2>1 DEF Grouped
  <2> DEFINE q == k - ms[k].nr
  <2>3. /\ ms[k].nr \in 1..k - 1 /\ ms[q].kind = "ai"
        /\ \A i \in q + 1..k : ms[i].kind = "tool"
    BY <2>2 DEF GroupedAt
  <2>4. q \in 1..k - 1
    BY <1>3, <2>3
  <2> HIDE DEF q
  <2>5. q \notin p + 1..L
    BY <1>4, <2>3
  <2>6. p \notin q + 1..k
    BY <1>3, <2>3
  <2>7. q = p
    BY <1>1, <1>3, <2>1, <2>4, <2>5, <2>6
  <2> QED
    BY <1>3, <2>1, <2>3, <2>7 DEF q
<1> QED
  BY <1>3, <1>4, <1>5

\* As many results as calls: none stands for two.
LEMMA ResultsDiffer ==
  ASSUME NEW ms \in Seq(Messages), NEW p \in 1..Len(ms),
         \A k \in p + 1..Len(ms) : ms[k].kind = "tool" /\ ms[k].nr = k - p
  PROVE  /\ IsFiniteSet(new_tool_messages(ms))
         /\ Cardinality(new_tool_messages(ms)) \in Nat
         /\ Len(ms) - p <= Cardinality(new_tool_messages(ms))
<1> DEFINE L == Len(ms)
           T == { j \in 1..L : \A k \in j..L : ms[k].kind = "tool" }
           new == new_tool_messages(ms)
           f == [j \in T |-> ms[j]]
           g == [k \in p + 1..L |-> ms[k]]
<1>1. L \in Nat
  BY LenProperties
<1>2. new = { ms[j] : j \in T }
  BY DEF new_tool_messages
<1>3. IsFiniteSet(new)
  <2>1. IsFiniteSet(T)
    <3>1. T \in SUBSET (1..L) /\ 1 \in Int /\ L \in Int
      BY <1>1
    <3> HIDE DEF T, L
    <3>2. IsFiniteSet(1..L)
      BY <3>1, FS_Interval
    <3> QED
      BY <3>1, <3>2, FS_Subset
  <2>2. f \in Surjection(T, new)
    BY <1>2 DEF Surjection
  <2> HIDE DEF T, new, f
  <2> QED
    BY <2>1, <2>2, FS_Surjection
<1>4. g \in Injection(p + 1..L, new)
  <2>1. ASSUME NEW k \in p + 1..L
        PROVE  k \in T
    <3>1. k \in 1..L /\ \A i \in k..L : i \in p + 1..L
      BY <1>1
    <3> QED
      BY <3>1
  <2>2. g \in [p + 1..L -> new]
    BY <1>2, <2>1
  <2>3. ASSUME NEW a \in p + 1..L, NEW b \in p + 1..L, g[a] = g[b]
        PROVE  a = b
    <3>1. ms[a].nr = ms[b].nr
      BY <2>3
    <3>2. a - p = b - p
      BY <3>1
    <3> QED
      BY <1>1, <3>2
  <2>4. DOMAIN g = p + 1..L
    OBVIOUS
  <2> HIDE DEF g, new
  <2> QED
    BY <2>2, <2>3, <2>4 DEF Injection, IsInjective
<1> HIDE DEF new, g
<1>5. Cardinality(p + 1..L) <= Cardinality(new)
  BY <1>3, <1>4, FS_Injection
<1>6. Cardinality(p + 1..L) = IF p + 1 > L THEN 0 ELSE L - (p + 1) + 1
  <2>1. p + 1 \in Int /\ L \in Int
    BY <1>1
  <2> HIDE DEF L
  <2> QED
    BY <2>1, FS_Interval
<1>7. Cardinality(new) \in Nat
  BY <1>3, FS_CardinalityType
<1> HIDE DEF L
<1>8. L - p <= Cardinality(new)
  BY <1>1, <1>5, <1>6, <1>7 DEF L
<1> QED
  BY <1>3, <1>7, <1>8 DEF new, L

\* A tail long enough reaches back to the message that made the calls.
LEMMA TailReachesBatch ==
  ASSUME NEW ms \in Seq(Messages), NEW e \in Engines, e.unit = "messages",
         should_compress(e, ms), NEW p \in 1..Len(ms), ms[p].kind # "tool",
         e.last > Len(ms) - p
  PROVE  tail(e, ms) <= p
<1>1. Len(ms) \in Nat /\ e.last \in Nat
  BY EngineType, LenProperties
<1>2. /\ tail_start(e, ms) = Len(ms) - e.last + 1
      /\ tail(e, ms) \in tail_start(e, ms)..Len(ms) + 1
      /\ \A k \in tail_start(e, ms)..tail(e, ms) - 1 : ms[k].kind = "tool"
  BY TailStartProperties, TailProperties
<1>3. p \notin tail_start(e, ms)..tail(e, ms) - 1
  BY <1>2
<1> QED
  BY <1>1, <1>2, <1>3

\* A model that asked for results gets to see them: a window that protects more messages than
\* the batch and the closing note drops none of the newest results (engine.py:130-136).
THEOREM ResultsAreSeen == Spec => []ResultsReachModel
<1>1. TypeInv /\ TranscriptInv => ResultsReachModel
  <2> DEFINE e == cfg.engine
             ms == dev_messages
             L == Len(ms)
             new == new_tool_messages(ms)
             extra == IF budget_used THEN 1 ELSE 0
  <2> SUFFICES ASSUME TypeInv, TranscriptInv, ms # <<>>, e.unit = "messages",
                      e.last > Cardinality(new) + extra, NEW size \in cfg.markers,
                      NEW m \in new, m \notin Range(llm_input(size))
               PROVE  FALSE
    BY DEF ResultsReachModel
  <2>1. ms \in Seq(Messages) /\ L \in Nat /\ Grouped(ms)
    BY Counters, LenProperties DEF TranscriptInv, Wellformed
  <2>2. PICK j \in 1..L : m = ms[j] /\ \A k \in j..L : ms[k].kind = "tool"
    BY DEF new_tool_messages
  <2>3. PICK p \in 1..j - 1 :
          /\ ms[p].kind = "ai"
          /\ \A k \in p + 1..L : ms[k].kind = "tool" /\ ms[k].nr = k - p
    BY <2>1, <2>2, NewestBatch
  <2>4. p \in 1..L /\ p < j
    BY <2>1, <2>3
  <2>5. Cardinality(new) \in Nat /\ L - p <= Cardinality(new)
    BY <2>1, <2>3, <2>4, ResultsDiffer
  <2>6. e \in Engines /\ noted \in Seq(Messages) /\ Marker(size) \in Messages
    BY Counters, ProfileType, NotedProperties, MarkerTypes DEF IsProfile
  <2>7. Len(noted) \in Nat /\ Len(noted) <= L + extra
    <3>1. convo = ms
      BY NotedProperties, Counters
    <3>2. noted = ms \/ (Len(noted) = L + 1 /\ budget_used)
      BY <3>1, NotedProperties, Counters
    <3> HIDE DEF ms, noted, budget_used
    <3> QED
      BY <2>1, <3>2
  <2>8. j \in 1..Len(noted) /\ noted[j] = m /\ p \in 1..Len(noted) /\ noted[p].kind = "ai"
    BY <2>2, <2>3, <2>4, NotedPrefix
  <2>9. should_compress(e, noted) /\ j \in head(e, noted) + 1..tail(e, noted) - 1
    BY <2>6, <2>8, WindowKeeps DEF llm_input
  <2>10. e.last > Len(noted) - p
    <3>1. e.last \in Nat /\ extra \in Nat
      BY <2>6, EngineType
    <3> HIDE DEF e, L, new, extra, noted
    <3> QED
      BY <2>1, <2>4, <2>5, <2>7, <3>1
  <2>11. tail(e, noted) <= p
    BY <2>6, <2>8, <2>9, <2>10, TailReachesBatch
  <2>12. tail(e, noted) \in Int
    BY <2>6, <2>7, <2>9, TailProperties, TailStartProperties
  <2> QED
    BY <2>4, <2>9, <2>11, <2>12
<1> QED
  BY <1>1, TranscriptsBelongTogether, PTL

\* What the developer's model is sent is legal, over its window's limit only for its head, its
\* marker or its newest message, and shows it the results that it asked for: for transcripts
\* of any length, any engine and markers of any size.
THEOREM PromptsStaySound == Spec => []PromptsAreSound
<1>1. PromptsAreLegal /\ PromptFitsWindow /\ ResultsReachModel => PromptsAreSound
  BY DEF PromptsAreSound
<1> QED
  BY <1>1, PromptsStayLegal, PromptsFit, ResultsAreSeen, PTL

=============================================================================
