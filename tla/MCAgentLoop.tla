----------------------------- MODULE MCAgentLoop -----------------------------
(***************************************************************************)
(* AgentLoop for TLC: one profile per question.                            *)
(***************************************************************************)
EXTENDS AgentLoop

Small == [size |-> 1, hit |-> FALSE]
Large == [size |-> 4, hit |-> FALSE]
Poison == [size |-> 1, hit |-> TRUE]

Call(t) == [tool |-> t, tainted |-> FALSE]
Tainted(t) == [tool |-> t, tainted |-> TRUE]

\* No calls, one, or a batch of two.
UpToTwo(calls) == {<<>>} \cup { <<c>> : c \in calls } \cup { <<c, d>> : c \in calls, d \in calls }

Trusted == [shell |-> TRUE, memory |-> TRUE, mcp |-> {}, readers |-> {},
            tool_mode |-> "unrestricted"]

Plain ==
  [settings |-> Trusted, engine |-> NoOp, guardrail |-> "off", max_tokens |-> 99,
   max_tool_calls |-> 99, max_dev_rounds |-> 3, max_revisions |-> 0, task |-> 1,
   asks |-> UpToTwo({Call("glob")}), results |-> {Small}, markers |-> {1},
   usages |-> {1}, answers |-> {"parsed"}]

Messages(limit, first, last) ==
  [NoOp EXCEPT !.unit = "messages", !.limit = limit, !.first = first, !.last = last,
               !.spill = TRUE]

Tokens(limit, first) ==
  [NoOp EXCEPT !.unit = "tokens", !.limit = limit, !.first = first, !.spill = TRUE]

\* Tokens are limited with a marker that fits everywhere, one that takes more than some
\* ratios leave, and one longer than every limit; the last engine leaves it nothing.
Windows ==
  { [Plain EXCEPT !.engine = e, !.results = {Small, Large}] :
      e \in {Messages(4, 2, 1), Messages(6, 2, 3), Messages(7, 2, 4), Messages(5, 1, 3)} }
  \cup { [Plain EXCEPT !.engine = e, !.results = {Small, Large}, !.markers = {1, 4, 15}, !.task = n] :
           e \in {Tokens(8, 2), Tokens(12, 2), Tokens(8, 0)}, n \in {1, 6} }
  \cup { [Plain EXCEPT !.engine = [Tokens(8, 2) EXCEPT !.ratio = 100], !.results = {Small, Large}] }

\* A second pass over a transcript that has feedback in it.
Revised ==
  { [Plain EXCEPT !.engine = e, !.max_revisions = 1, !.max_dev_rounds = 2] :
      e \in {Messages(6, 2, 3), Tokens(8, 2)} }

Guarded ==
  { [Plain EXCEPT !.guardrail = g, !.results = {Small, Poison}, !.engine = e,
                  !.max_dev_rounds = 2] :
      g \in {"warn", "block"}, e \in {NoOp, Messages(4, 2, 1)} }

Permissions ==
  { [Plain EXCEPT !.settings = [shell |-> shell, memory |-> FALSE, mcp |-> {"mail", "news"},
                                readers |-> {"news"}, tool_mode |-> m],
                  !.guardrail = "block", !.max_dev_rounds = 1,
                  !.asks = UpToTwo({Call("mail"), Call("news"), Tainted("write_text"),
                                    Call("write_text"), Call("shell"), Call("memory")})] :
      m \in {"unrestricted", "read_only"}, shell \in BOOLEAN }
  \cup { [Plain EXCEPT !.settings = [Trusted EXCEPT !.shell = FALSE, !.mcp = {"shell"}],
                       !.guardrail = "block", !.asks = UpToTwo({Tainted("shell")})] }
  \cup { [Plain EXCEPT !.settings.tool_mode = "approval", !.max_dev_rounds = 2,
                       !.guardrail = "block",
                       !.asks = UpToTwo({Call("glob"), Tainted("shell")})] }

Budgets ==
  { [Plain EXCEPT !.max_tokens = 3, !.max_tool_calls = n, !.usages = {1, 2}, !.max_revisions = 1,
                  !.answers = {"parsed", "error"}] : n \in {1, 3} }

Reviews ==
  { [Plain EXCEPT !.max_revisions = 2, !.max_dev_rounds = 1, !.asks = {<<>>},
                  !.answers = {"parsed", "unparsed", "none", "error"}] }

AllProfiles == Windows \cup Revised \cup Guarded \cup Permissions \cup Budgets \cup Reviews
=============================================================================
