----------------------------- MODULE ToolTable -----------------------------
(***************************************************************************)
(* The tools registered in the local runtime: the permission category each *)
(* is registered under and its path arguments, required and optional.      *)
(* Arguments that name no path are left out.  Categories are the strings   *)
(* of mcp_shared/agent_contracts.py.                                       *)
(***************************************************************************)

\* Tools that are registered alike.
Row(names, category, required, optional) ==
    [names |-> names,
     tool |-> [category |-> category, required |-> required, optional |-> optional]]

Names(rows) == UNION {r.names : r \in rows}

\* system_tools.py
SystemTools ==
    {Row({"readfile", "exists", "fileinfo"}, "read", {"path"}, {}),
     Row({"listdir"}, "read", {}, {"path"}),
     Row({"writefile", "appendfile", "mkdir"}, "write", {"path"}, {}),
     Row({"movefile"}, "write", {"path", "target_path"}, {}),
     Row({"deletefile", "deletedir"}, "delete", {"path"}, {})}

\* code_tool_registry/read_write.py
ReadWriteTools ==
    {Row({"search_code", "find_files", "list_tree", "find_definition", "find_references"},
          "read", {}, {"path"}),
     Row({"read_lines", "get_python_symbols", "extract_imports"}, "read", {"path"}, {}),
     Row({"replace_in_file", "replace_lines"}, "write", {"path"}, {})}

\* code_tool_registry/python_tools.py
PythonTools ==
    {Row({"syntax_check_python", "python_compile_check"}, "read", {"path"}, {}),
     Row({"run_python_file", "python"}, "execute", {"path"}, {}),
     Row({"python_interpreter", "run_module", "run_tests", "lint_python", "format_python"},
          "execute", {}, {"path"})}

\* code_tool_registry/node_tools.py
NodeTools ==
    {Row({"node_syntax_check"}, "execute", {"path"}, {}),
     Row({"node_run_script", "node_test", "node_lint", "node_format", "ts_typecheck"},
          "execute", {}, {"path"})}

\* code_tool_registry/dotnet_tools.py
DotnetTools ==
    {Row({"dotnet_restore", "dotnet_build", "dotnet_test", "dotnet_run"},
          "execute", {}, {"path"})}

\* git_tools.py: only queries, each through a git process of its own.
GitTools ==
    {Row({"git_status", "git_diff", "git_log", "git_show", "git_branches", "git_ls_files"},
          "read", {}, {"path"}),
     Row({"git_blame"}, "read", {"path"}, {})}

\* hardware_tools.py
HardwareTools ==
    {Row({"serial_list_ports", "serial_send"}, "hardware", {}, {}),
     Row({"image_describe"}, "media_input", {"source"}, {"save_frame_path"})}

\* web_tools.py
WebTools ==
    {Row({"web_search", "web_fetch"}, "web", {}, {}),
     Row({"sandbox_run"}, "sandbox_execute", {}, {})}

\* data_tools.py
DataTools ==
    {Row({"determinar_tipo_dato"}, "read", {"path"}, {}),
     Row({"generar_grafico_barras"}, "execute", {"path"}, {})}

\* kv_tools.py and kv_search_tools.py
KVTools ==
    {Row({"kv_get", "kv_list"}, "read", {}, {}),
     Row({"kv_set", "kv_delete", "kv_clear_expired"}, "write", {}, {})}
KVSearchTools == {Row({"kv_search"}, "read", {}, {})}

\* The registry with everything in it, and pwd, which call_tool answers itself.
AllRows ==
    {Row({"pwd"}, "meta", {}, {})} \cup SystemTools \cup ReadWriteTools \cup PythonTools
        \cup NodeTools \cup DotnetTools \cup GitTools \cup KVTools \cup KVSearchTools
        \cup HardwareTools \cup WebTools \cup DataTools
AllTools == [t \in Names(AllRows) |-> (CHOOSE r \in AllRows : t \in r.names).tool]

\* build_tool_registry: the names registered under a configuration.
Registered(kv_cache_enabled, kv_embedding_enabled) ==
    {t \in DOMAIN AllTools :
        /\ t \in Names(KVTools \cup KVSearchTools) => kv_cache_enabled
        /\ t \in Names(KVSearchTools) => kv_embedding_enabled}

\* tooling.py, DEFAULT_PATH_TOOLS: where path is the base directory if not given.
DefaultPathTools ==
    {"listdir", "search_code", "find_files", "list_tree", "find_definition", "find_references",
     "run_module", "python", "python_interpreter", "run_tests", "lint_python", "format_python",
     "node_run_script", "node_test", "node_lint", "node_format", "ts_typecheck",
     "dotnet_restore", "dotnet_build", "dotnet_test", "dotnet_run",
     "git_status", "git_diff", "git_log", "git_show", "git_branches", "git_ls_files"}

\* arguments.py, DISCOVERABLE_FILE_PATH_TOOLS: where a path that does not exist
\* may stand for the one file of that name.
DiscoverableTools ==
    {"readfile", "read_lines", "fileinfo", "get_python_symbols", "extract_imports",
     "syntax_check_python", "python_compile_check"}

\* confirmation_required_tool_names.
SensitiveCategories ==
    {"write", "execute", "delete", "hardware", "media_input", "sandbox_execute"}
=============================================================================
