----------------------------- MODULE ToolAccess -----------------------------
(***************************************************************************)
(* Who may run which tool: the category policy (ToolAccessPolicy), the     *)
(* view of the runtime a role is given (RoleRuntimeView) and, over it, the *)
(* view whose active tools the model extends with request_tools            *)
(* (SelectableToolRuntimeView).  "full" access without the sandbox is      *)
(* allowed_tools = None in the code: every tool of the runtime.            *)
(***************************************************************************)
CONSTANTS
    Tools,        \* the tools the local runtime lists
    Category,     \* [Tools -> Categories]: tool_categories of the runtime context
    Subagents,    \* names in the subagent registry
    SubAccess,    \* [Subagents -> Access]: SubagentSpec.tool_access
    SubTools,     \* SubagentSpec.tools, a set of Tools or NoList
    NoList,       \* SubagentSpec.tools = None
    RoleTools     \* INITIAL_ROLE_TOOLS, by the name of the role

Categories == {"read", "write", "execute", "delete", "meta", "media_input",
               "web", "sandbox_execute", "hardware"}
ReadOnlyCategories == {"read", "meta", "media_input"}
SandboxCategories  == Categories \ {"hardware"}

Access == {"full", "read_only", "none"}

\* Where the tools of the team may act: sandbox_only, or the user's host.
Scopes == {"sandbox", "host"}

\* The three roles of the team.  The registry has subagents of these names too.
Roles == {"planner", "worker", "reviewer"}

ASSUME ToolAccessAssumption ==
    /\ Category \in [Tools -> Categories]
    /\ SubAccess \in [Subagents -> Access]
    /\ SubTools \in [Subagents -> (SUBSET Tools) \cup {NoList}]
    /\ RoleTools \in [{"worker", "reviewer"} -> SUBSET Tools]

OfCategory(categories) == {t \in Tools : Category[t] \in categories}

\* Mutation: the sandbox-only set of the worker is every tool.
AllowedToolNames_NoSandbox(access, scope) ==
    CASE access = "full"      -> Tools
      [] access = "none"      -> {}
      [] access = "read_only" -> OfCategory(ReadOnlyCategories)

\* ToolAccessPolicy.allowed_tool_names.
AllowedToolNames(access, scope) ==
    CASE access = "full"      -> IF scope = "host" THEN Tools ELSE OfCategory(SandboxCategories)
      [] access = "none"      -> {}
      [] access = "read_only" -> OfCategory(ReadOnlyCategories)

\* Mutation: the reviewer has the worker's access.
RoleAccess_ReviewerFull(role) == IF role = "planner" THEN "none" ELSE "full"

\* PLANNER_SPEC, WORKER_SPEC and REVIEWER_SPEC.
RoleAccess(role) ==
    CASE role = "planner"  -> "none"
      [] role = "worker"   -> "full"
      [] role = "reviewer" -> "read_only"

\* _role_runtime_view for a subagent: what its access allows, cut down to the
\* tools it asks for when it lists any.
SubAllowed(agent, scope) ==
    LET allowed == AllowedToolNames(SubAccess[agent], scope)
    IN  IF SubTools[agent] = NoList THEN allowed ELSE allowed \cap SubTools[agent]

\* The tools active at first (None, no filter, is every tool).  A subagent
\* without a list falls back on that of the role it is named after, if any.
InitialTools(name) == IF name \in DOMAIN RoleTools THEN RoleTools[name] ELSE Tools
SubInitialTools(agent) ==
    IF SubTools[agent] = NoList THEN InitialTools(agent) ELSE SubTools[agent]

\* Mutation: the role view under the selection does not check the tool again.
Executes_ActiveOnly(frame, t) == t \in frame.active

\* SelectableToolRuntimeView.call_tool and RoleRuntimeView.call_tool: what is
\* handed on to the local runtime.
Executes(frame, t) == t \in frame.active /\ t \in frame.allowed

\* _request_tools: of the names asked for, those the role view lists.
Activated(frame, names) == frame.active \cup (names \cap frame.allowed)
=============================================================================
