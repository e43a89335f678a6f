---------------------------- MODULE MCToolCalls ----------------------------
(* An instance of ToolCalls for TLC: two directories whose files differ in   *)
(* case, a protected file and a protected directory, and patterns on names    *)
(* and on paths.                                                             *)
EXTENDS ToolCalls

src  == <<"src">>
srcF == <<"src", "f">>
srcEnv == <<"src", ".env">>
lib  == <<"lib">>
libF == <<"lib", "F">>
git  == <<".git">>
gitC == <<".git", "c">>

MCPaths == {Base, src, srcF, srcEnv, lib, libF, git, gitC}
MCFold == [n \in {"src", "lib", "f", "F", ".env", ".git", "c"} |-> IF n = "F" THEN "f" ELSE n]

Relative(p) == [path |-> p, absolute |-> FALSE]
MCGivens ==
    {Relative(p) : p \in {Base, src, srcF, srcEnv, libF, <<"f">>, Outside}}
        \cup {[path |-> <<"f">>, absolute |-> TRUE]}

MCTrees ==
    {Base :> "dir" @@ src :> "dir" @@ srcF :> "old" @@ srcEnv :> "old" @@ lib :> "dir"
        @@ git :> "dir" @@ gitC :> "old",
     Base :> "dir" @@ src :> "dir" @@ srcF :> "bin" @@ lib :> "dir" @@ libF :> "old"}

env == {<<".env">>}                      \* ".env"
envBelow == {srcEnv}                     \* "**/.env"
gitBelow == {gitC}                       \* ".git/*"
MCDefaultPatterns == {env, envBelow, {git}, gitBelow}

Policy(categories, confirm, unreadable) ==
    [categories |-> categories, allowed |-> NoList, blocked |-> {"mkdir"}, confirm |-> confirm,
     approved |-> {"writefile"}, unwritable |-> {env, {git}, gitBelow, {libF}}, unreadable |-> unreadable,
     kv_cache |-> TRUE, kv_embedding |-> confirm]
All == {"meta", "read", "write", "delete", "execute", "media_input", "web", "sandbox_execute", "hardware"}
MCPolicies ==
    {[Policy(All, FALSE, MCDefaultPatterns) EXCEPT !.blocked = {}],
     [Policy({"read"}, TRUE, {}) EXCEPT !.allowed = {"readfile", "find_files", "mkdir"}],
     Policy(All \ {"delete", "execute"}, TRUE, {env, {srcF}, {libF}})}

MCAsked == {"nothing", "pwd", "readfile", "exists", "fileinfo", "read_lines", "extract_imports",
            "python_compile_check", "determinar_tipo_dato", "listdir", "list_tree", "find_files",
            "writefile", "appendfile", "mkdir", "deletefile", "deletedir", "movefile",
            "replace_lines", "git_blame", "python", "node_test", "dotnet_build",
            "generar_grafico_barras", "image_describe", "serial_send"}
=============================================================================
