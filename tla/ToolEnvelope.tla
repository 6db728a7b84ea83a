----------------------------- MODULE ToolEnvelope -----------------------------
(***************************************************************************)
(* Which tools the developer of a server graph holds:                      *)
(* server/react_runtime.py, tools/__init__.py, tools/registry.py,          *)
(* tools/spec_resolver.py, tools/policy.py and the validator of a node in  *)
(* spec.py.  All of it is decided when a graph is built.                   *)
(***************************************************************************)
EXTENDS Naturals, FiniteSets

PresetTools == {"glob", "read_text", "write_text", "shell"}

ToolModeNames == {"read_only", "approval", "unrestricted"}

\* `shell`: the allowlist is not empty.  `mcp`: the names the MCP servers offer, and
\* of those, the ones whose metadata says read_only.
SettingsOver(names) ==
  [shell : BOOLEAN, memory : BOOLEAN, mcp : SUBSET names, readers : SUBSET names,
   tool_mode : ToolModeNames]

register_builtin_tools(s) ==
  {"glob", "read_text", "write_text"} \cup { t \in {"shell"} : s.shell }
                                      \cup { t \in {"memory"} : s.memory }

registry(s) == register_builtin_tools(s) \cup s.mcp

\* Registering a name twice raises, and no graph is built.
registers(s) == register_builtin_tools(s) \cap s.mcp = {}

\* What the graph spec expects the registry to contain.
available_tool_names(s) ==
  {"glob", "read_text", "write_text"} \cup { t \in {"shell"} : s.shell }
                                      \cup { t \in {"memory"} : s.memory } \cup s.mcp

\* The developer node after the preset met the envelope.
server_node(s) ==
  LET tools == (PresetTools \cap available_tool_names(s))
                 \cup (IF s.memory THEN {"memory"} ELSE {}) \cup s.mcp
  IN [tools |-> tools, tool_mode |-> IF tools = {} THEN "none" ELSE s.tool_mode]

\* tool_mode requires tools.
valid(node) == node.tool_mode # "none" => node.tools # {}

\* The author's word, then the table of built-ins; anything else acts.
is_read_only(s, t) == t \in s.readers \/ t \in {"glob", "read_text"}

apply_policy(s, tools) ==
  IF s.tool_mode = "read_only" THEN { t \in tools : is_read_only(s, t) } ELSE tools

\* The tools bound to the model and held by the tool node.
resolved_tools(s) == apply_policy(s, server_node(s).tools)

\* What the build checks; anything else is an exception before a task starts.
Builds(s) ==
  /\ registers(s)
  /\ valid(server_node(s))
  /\ server_node(s).tools \subseteq registry(s)
  /\ resolved_tools(s) # {}
=============================================================================
