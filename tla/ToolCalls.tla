----------------------------- MODULE ToolCalls -----------------------------
(***************************************************************************)
(* LocalToolRuntime.call_tool: one call of a tool from its arguments to    *)
(* its answer, with the permission policy, the path policy and what the    *)
(* tools do to the files below BASE_DIR.  The client calls one tool at a   *)
(* time; other programs change files between any two steps of a call.      *)
(*                                                                         *)
(* A path is the sequence of its names below BASE_DIR, which is <<>>.  The *)
(* tree maps the paths that exist to "dir" or to the text of a file; of    *)
(* texts only what the tools tell apart is kept.  There are no symbolic    *)
(* links, and no pattern matches the name of BASE_DIR itself.              *)
(*                                                                         *)
(* A pattern of protected paths is the set of paths fnmatch finds it to    *)
(* match: ".env" is {<<".env">>}, "src/*" all that is below <<"src">>.     *)
(***************************************************************************)
EXTENDS ToolTable, Integers, SequencesExt, FiniteSetsExt

CONSTANTS
    Paths,        \* bound: the paths that may exist
    Givens,       \* path arguments: [path, absolute]
    Outside,      \* the path of an argument that leads out of BASE_DIR
    Fold,         \* [names -> names]: a name in lower case
    SkipDirs,     \* SKIP_DIRS: directories no walk enters
    DefaultPatterns, \* DEFAULT_PROTECTED_PATH_PATTERNS
    Trees,        \* the trees a runtime may start on
    Policies,     \* configurations of the permission policy
    NoList,       \* no allowlist
    Asked,        \* the names the model calls, some of them of no tool
    AuditLimit,   \* ToolAuditTrail.limit
    MaxCalls,     \* bound: calls
    MaxChanges    \* bound: changes by other programs

Texts == {"old", "new", "bin"}   \* "bin" is no UTF-8
Base  == <<>>

ASSUME ToolCallsAssumption ==
    /\ Base \in Paths /\ Paths \subseteq Seq(DOMAIN Fold)
    /\ \A p \in Paths \ {Base} : Front(p) \in Paths
    /\ Outside \notin Paths
    /\ \A g \in Givens : g.path = Outside \/ g.path \in Seq(DOMAIN Fold)
    /\ \A t \in Trees :
          /\ Base \in DOMAIN t /\ t[Base] = "dir" /\ DOMAIN t \subseteq Paths
          /\ \A p \in DOMAIN t : \A i \in 0 .. Len(p) - 1 :
                SubSeq(p, 1, i) \in DOMAIN t /\ t[SubSeq(p, 1, i)] = "dir"
    /\ AuditLimit \in Nat \ {0} /\ MaxCalls \in Nat /\ MaxChanges \in Nat

VARIABLES
    tree,    \* the files below BASE_DIR
    policy,  \* the PermissionPolicy of this runtime
    call,    \* the call under way
    answer,  \* the last answer, with the paths its result shows
    audit,   \* ToolAuditTrail.events, the success of each
    calls, changes   \* counts for the bounds

vars == <<tree, policy, call, answer, audit, calls, changes>>

Idle == [at |-> "idle"]
None == [ok |-> TRUE, seen |-> {}]

(***************************************************************************)
(* The tree                                                                *)
(***************************************************************************)
IsFile(t, p) == p \in DOMAIN t /\ t[p] # "dir"
IsDir(t, p)  == p \in DOMAIN t /\ t[p] = "dir"
Subtree(t, p) == {q \in DOMAIN t : IsPrefix(p, q)}
Children(t, p) == {q \in Subtree(t, p) : Len(q) = Len(p) + 1}
Without(t, ps) == [q \in DOMAIN t \ ps |-> t[q]]
WithNode(t, p, node) == [q \in DOMAIN t \cup {p} |-> IF q = p THEN node ELSE t[q]]

\* Where a file can be opened for writing.
Writable(t, p) == p # Base /\ IsDir(t, Front(p)) /\ ~IsDir(t, p)

\* Path.mkdir(parents=True, exist_ok=True)
Ancestors(p) == {SubSeq(p, 1, i) : i \in 0 .. Len(p)}
CanMake(t, p) == \A q \in Ancestors(p) \cap DOMAIN t : t[q] = "dir"
Made(t, p) == [q \in DOMAIN t \cup Ancestors(p) |-> IF q \in DOMAIN t THEN t[q] ELSE "dir"]

Below(q, p) == SubSeq(q, Len(p) + 1, Len(q))
Renamed(t, p, target) ==
    [q \in (DOMAIN t \ Subtree(t, p)) \cup {target \o Below(s, p) : s \in Subtree(t, p)} |->
        IF IsPrefix(target, q) THEN t[p \o Below(q, target)] ELSE t[q]]

(***************************************************************************)
(* Protected paths and the walks that leave them out                       *)
(***************************************************************************)

\* matches_protected_path: by the name alone, or by the path relative to root.
MatchesProtected(p, patterns, root) ==
    LET named == IF p = Base THEN {} ELSE {<<Last(p)>>}
    IN  (named \cup {Below(p, root)}) \cap UNION patterns # {}

\* configure_read_policy: the helpers fall back on the defaults when the
\* configuration lists nothing, the policy does not.
ReadPatterns == IF policy.unreadable = {} THEN DefaultPatterns ELSE policy.unreadable

\* Mutation: a walk judges the directories by SKIP_DIRS alone.
Walk_SkipsOnly(root) ==
    {q \in Subtree(tree, root) :
        /\ IsFile(tree, q)
        /\ \A i \in Len(root) + 1 .. Len(q) - 1 : q[i] \notin SkipDirs}

\* _iter_all_files
Walk(root) ==
    IF IsFile(tree, root)
    THEN {root} \ {q \in {root} : MatchesProtected(q, ReadPatterns, Front(q))}
    ELSE {q \in Subtree(tree, root) :
            /\ IsFile(tree, q)
            /\ \A i \in Len(root) + 1 .. Len(q) :
                  /\ ~MatchesProtected(SubSeq(q, 1, i), ReadPatterns, root)
                  /\ i < Len(q) => q[i] \notin SkipDirs}

\* _append_tree and _sorted_children; listdir shows one level and no SKIP_DIRS rule.
Listed(root, skip) ==
    {q \in Subtree(tree, root) \ {root} :
        \A i \in Len(root) + 1 .. Len(q) :
            /\ q[i] \notin skip
            /\ ~MatchesProtected(SubSeq(q, 1, i), ReadPatterns, SubSeq(q, 1, i - 1))}

(***************************************************************************)
(* Arguments                                                               *)
(***************************************************************************)
Folded(p) == [i \in DOMAIN p |-> Fold[p[i]]]

\* _discover_relative_file, the candidates.
Matches(p) == {q \in Walk(Base) : IsSuffix(Folded(p), Folded(q))}

\* Mutation: a path that does not exist is looked for by its name for any tool.
Resolved_AnyTool(tool, key, given) ==
    IF given.path = Outside THEN {}
    ELSE IF /\ key = "path" /\ ~given.absolute
            /\ given.path \notin DOMAIN tree /\ given.path # Base
            /\ Matches(given.path) # {}
         THEN {q \in Matches(given.path) : Matches(given.path) = {q}}
         ELSE {given.path}

\* resolve_user_path: where an argument leads, {} when it is refused.
Resolved(tool, key, given) ==
    IF given.path = Outside THEN {}
    ELSE IF /\ key = "path" /\ tool \in DiscoverableTools /\ ~given.absolute
            /\ given.path \notin DOMAIN tree /\ given.path # Base
            /\ Matches(given.path) # {}
         THEN {q \in Matches(given.path) : Matches(given.path) = {q}}
         ELSE {given.path}

Tools == AllTools

\* The arguments the model may send: any of the path arguments the tool has.
ArgumentSets(tool) ==
    UNION {[keys -> Givens] : keys \in SUBSET (Tools[tool].required \cup Tools[tool].optional)}

\* The head of call_tool: path defaults to the base directory for some tools.
WithDefault(tool, args) ==
    IF tool \in DefaultPathTools /\ "path" \notin DOMAIN args
    THEN [k \in DOMAIN args \cup {"path"} |-> IF k = "path" THEN Base ELSE args[k]]
    ELSE args

\* Mutation: only a path of an argument "path" is looked at.
CandidatePaths_PathOnly(args) == {args[k] : k \in DOMAIN args \cap {"path"}}

\* ToolExecutionRequest.candidate_paths
CandidatePaths(args) ==
    {args[k] : k \in DOMAIN args \cap {"path", "target_path", "save_frame_path"}}

(***************************************************************************)
(* PermissionPolicy                                                        *)
(***************************************************************************)
\* denial_reason
Allowed(tool) ==
    LET category == Tools[tool].category
    IN  /\ tool \notin policy.blocked
        /\ policy.allowed = NoList \/ tool \in policy.allowed \/ category = "meta"
        /\ category = "meta" \/ category \in policy.categories

\* _approval_required_reason, with confirmation_required_tools of tooling.py.
NeedsApproval(tool) ==
    policy.confirm /\ Tools[tool].category \in SensitiveCategories /\ tool \notin policy.approved

\* _protected_path_reason
Protected(tool, args) ==
    LET category == Tools[tool].category
        patterns == IF category = "read" THEN policy.unreadable ELSE policy.unwritable
        paths == IF category = "media_input"
                 THEN {args[k] : k \in DOMAIN args \cap {"save_frame_path"}}
                 ELSE CandidatePaths(args)
    IN  /\ category \in {"read", "write", "delete", "media_input"}
        /\ \E p \in paths : MatchesProtected(p, patterns, Base)

(***************************************************************************)
(* The call                                                                *)
(***************************************************************************)
Answered(ok, seen) == answer' = [ok |-> ok, seen |-> seen]

\* after_tool: the event of a call that had a request, whatever became of it.
Audited(ok) ==
    LET events == Append(audit, ok)
    IN  audit' = SubSeq(events, Len(events) - Min({Len(events), AuditLimit}) + 1, Len(events))

\* Errors before the request exists: no such tool, arguments that are refused,
\* and deletedir of the base directory.  They leave no event.
RefuseEarly ==
    /\ Answered(FALSE, {})
    /\ UNCHANGED <<audit, call>>

\* Mutation: deletedir does not look at what it is to delete.
ErasesBase_Unchecked(tool, args) == FALSE

\* call_tool: deletedir must not be given the base directory.
ErasesBase(tool, args) ==
    tool = "deletedir" /\ ("path" \notin DOMAIN args \/ args.path = Base)

Ask(tool) ==
    /\ call = Idle /\ calls < MaxCalls
    /\ calls' = calls + 1
    /\ IF tool \notin Registered(policy.kv_cache, policy.kv_embedding)
       THEN RefuseEarly
       ELSE \E given \in ArgumentSets(tool) :
              LET found == [k \in DOMAIN given |-> Resolved(tool, k, given[k])]
              IN  IF \E k \in DOMAIN given : found[k] = {}
                  THEN RefuseEarly
                  ELSE LET args == WithDefault(tool, [k \in DOMAIN given |->
                                                        CHOOSE p \in found[k] : TRUE])
                       IN  IF ErasesBase(tool, args)
                           THEN RefuseEarly
                           ELSE IF ~Allowed(tool) \/ NeedsApproval(tool) \/ Protected(tool, args)
                           THEN /\ Answered(FALSE, {})
                                /\ Audited(FALSE)
                                /\ UNCHANGED call
                           ELSE /\ call' = [at |-> "granted", tool |-> tool, args |-> args,
                                            given |-> given]
                                /\ answer' = None
                                /\ UNCHANGED audit
    /\ UNCHANGED <<tree, policy, changes>>

\* The registry runs the function and turns what it raises into a failure.
Finish(ok, seen) ==
    /\ Answered(ok, seen)
    /\ Audited(ok)
    /\ call' = Idle

Running(tools, at) == call.at = at /\ call.tool \in tools
Goto(at) == call' = [call EXCEPT !.at = at] /\ UNCHANGED <<answer, audit>>
Rest == UNCHANGED <<policy, calls, changes>>

\* A call without an argument the function requires: TypeError.
Incomplete ==
    /\ call.at = "granted"
    /\ ~(Tools[call.tool].required \subseteq DOMAIN call.args)
    /\ Finish(FALSE, {})
    /\ UNCHANGED tree /\ Rest

Complete(tools) ==
    Running(tools, "granted") /\ Tools[call.tool].required \subseteq DOMAIN call.args

\* A tool that reads one path shows it if it can, and may fail for what it finds.
ReadsOne(tools, CanShow(_, _)) ==
    /\ Complete(tools)
    /\ LET p == call.args.path
       IN  \/ CanShow(call.tool, p) /\ Finish(TRUE, {p})
           \/ Finish(FALSE, {})
    /\ UNCHANGED tree /\ Rest

IsText(tool, p) == IsFile(tree, p) /\ tree[p] # "bin"

\* functions.py: fileinfo shows any path that exists, exists says so of any.
ShowsFile(tool, p) ==
    CASE tool = "exists"   -> TRUE
      [] tool = "fileinfo" -> p \in DOMAIN tree
      [] OTHER             -> IsText(tool, p)
ReadFile == ReadsOne({"readfile", "exists", "fileinfo"}, ShowsFile)

ReadLines == ReadsOne({"read_lines"}, IsText)

\* get_python_symbols and extract_imports parse what they read.
ReadSource == ReadsOne({"extract_imports", "get_python_symbols"}, IsText)

\* python_compile_check uses a module it does not import and always fails.
ShowsSyntax(tool, p) == tool = "syntax_check_python" /\ IsText(tool, p)
CheckSource == ReadsOne({"syntax_check_python", "python_compile_check"}, ShowsSyntax)

\* determinar_tipo_dato: a workbook is no text.
ShowsTable(tool, p) == IsFile(tree, p)
ReadTable == ReadsOne({"determinar_tipo_dato"}, ShowsTable)

ListDir ==
    /\ Complete({"listdir"})
    /\ \/ /\ IsDir(tree, call.args.path)
          /\ Finish(TRUE, Listed(call.args.path, {}) \cap Children(tree, call.args.path))
       \/ Finish(FALSE, {})
    /\ UNCHANGED tree /\ Rest

\* As deep as it is asked for.
ListTree ==
    /\ Complete({"list_tree"})
    /\ \/ \E depth \in 0 .. 2 :
             Finish(TRUE, {q \in Listed(call.args.path, SkipDirs) : Len(q) <= Len(call.args.path) + depth})
       \/ Finish(FALSE, {})
    /\ UNCHANGED tree /\ Rest

\* search_code, find_files, find_definition, find_references: some of what is walked.
Search ==
    /\ Complete({"find_files", "search_code", "find_definition", "find_references"})
    /\ \/ \E seen \in {Walk(call.args.path), {}} : Finish(TRUE, seen)
       \/ Finish(FALSE, {})
    /\ UNCHANGED tree /\ Rest

\* _resolve_repo_target and _discover_repo_root: where git is asked.
GitTarget(tool, p) == IF tool = "git_blame" THEN IsFile(tree, p) ELSE p \in DOMAIN tree

\* The git tools: a query of a git process, which may fail or last too long.
QueryGit ==
    /\ Complete(Names(GitTools))
    /\ \/ GitTarget(call.tool, call.args.path) /\ Finish(TRUE, {})
       \/ Finish(FALSE, {})
    /\ UNCHANGED tree /\ Rest

\* serial_list_ports and serial_send: a port is opened, written and read.
UseSerial ==
    /\ Complete({"serial_list_ports", "serial_send"})
    /\ \E ok \in BOOLEAN : Finish(ok, {})
    /\ UNCHANGED tree /\ Rest

\* pwd, and the tools of KVCache and Sandbox.
RunElsewhere ==
    /\ Complete({t \in DOMAIN Tools : Tools[t].category \in {"meta", "web", "sandbox_execute"}}
                   \cup Names(KVTools \cup KVSearchTools))
    /\ \E ok \in BOOLEAN : Finish(ok, {})
    /\ UNCHANGED tree /\ Rest

\* One file changed or removed, or a directory made, by a program.
SomeChange ==
    \E p \in Paths \ {Base} :
        /\ IsDir(tree, Front(p)) /\ Children(tree, p) = {}
        /\ \E node \in {"old", "dir", "none"} :
              tree' = IF node = "none" THEN Without(tree, {p}) ELSE WithNode(tree, p, node)

\* _run_subprocess: what the command does, also before its timeout.
Command ==
    /\ SomeChange \/ UNCHANGED tree
    /\ \E ok \in BOOLEAN : Finish(ok, {})
CommandOrNone(starts) ==
    \/ starts /\ Command
    \/ Finish(FALSE, {}) /\ UNCHANGED tree

\* _command_cwd, and what run_python_file and run_module take for it.
CommandDir(tool, p) ==
    IF tool = "run_module" \/ (IsDir(tree, p) /\ tool \notin {"python", "run_python_file"})
    THEN p ELSE Front(p)

Executes(rows) == Complete(Names({r \in rows : r.tool.category = "execute"}))

RunPython ==
    /\ Executes(PythonTools)
    /\ CommandOrNone(IsDir(tree, CommandDir(call.tool, call.args.path)))
    /\ Rest

\* The project of the path is looked for upwards, above BASE_DIR too; the
\* command, or the package manager it needs, may not be installed.
RunNode ==
    /\ Executes(NodeTools)
    /\ CommandOrNone(call.args.path \in DOMAIN tree)
    /\ Rest

RunDotnet ==
    /\ Executes(DotnetTools)
    /\ CommandOrNone(call.args.path \in DOMAIN tree)
    /\ Rest

\* guardar_grafico_estadistico draws into the path it is given.
SaveChart ==
    /\ Complete({"generar_grafico_barras"})
    /\ \/ /\ Writable(tree, call.args.path)
          /\ tree' = WithNode(tree, call.args.path, "bin")
          /\ Finish(TRUE, {})
       \/ Finish(FALSE, {}) /\ UNCHANGED tree
    /\ Rest

\* writefile with modo "x" looks first and opens later, exclusively.
CheckMissing ==
    /\ Complete({"writefile"})
    /\ IF call.args.path \in DOMAIN tree THEN Finish(FALSE, {}) ELSE Goto("opening")
    /\ UNCHANGED tree /\ Rest

\* open(path, "x")
Creates(p) == Writable(tree, p) /\ p \notin DOMAIN tree

CreateFile ==
    /\ Running({"writefile"}, "opening")
    /\ IF Creates(call.args.path)
       THEN tree' = WithNode(tree, call.args.path, "new") /\ Goto("reading back")
       ELSE Finish(FALSE, {}) /\ UNCHANGED tree
    /\ Rest

\* writefile with modo "w", and appendfile: what is appended to stays unreadable.
WriteFile ==
    /\ Complete({"writefile", "appendfile"})
    /\ LET p == call.args.path
       IN  IF Writable(tree, p)
           THEN /\ tree' = WithNode(tree, p, IF call.tool = "appendfile" /\ IsFile(tree, p)
                                                /\ tree[p] = "bin" THEN "bin" ELSE "new")
                /\ Goto("reading back")
           ELSE Finish(FALSE, {}) /\ UNCHANGED tree
    /\ Rest

\* _write_result reads the file back for the answer.
ReadBack ==
    /\ Running({"writefile", "appendfile"}, "reading back")
    /\ LET p == call.args.path
       IN  Finish(IsFile(tree, p) /\ tree[p] # "bin", {})
    /\ UNCHANGED tree /\ Rest

\* replace_in_file and replace_lines: read, then write the whole file.
ReadToReplace ==
    /\ Complete({"replace_in_file", "replace_lines"})
    /\ LET p == call.args.path
       IN  \/ IsFile(tree, p) /\ tree[p] # "bin" /\ Goto("replacing")
           \/ Finish(FALSE, {})
    /\ UNCHANGED tree /\ Rest
Replace ==
    /\ Running({"replace_in_file", "replace_lines"}, "replacing")
    /\ LET p == call.args.path
       IN  IF Writable(tree, p)
           THEN tree' = WithNode(tree, p, "new") /\ Finish(TRUE, {})
           ELSE Finish(FALSE, {}) /\ UNCHANGED tree
    /\ Rest

MakeDir ==
    /\ Complete({"mkdir"})
    /\ IF CanMake(tree, call.args.path)
       THEN tree' = Made(tree, call.args.path) /\ Finish(TRUE, {})
       ELSE Finish(FALSE, {}) /\ UNCHANGED tree
    /\ Rest

DeleteFile ==
    /\ Complete({"deletefile"})
    /\ LET p == call.args.path
       IN  IF IsFile(tree, p)
           THEN tree' = Without(tree, {p}) /\ Finish(TRUE, {})
           ELSE Finish(FALSE, {}) /\ UNCHANGED tree
    /\ Rest

\* deletedir: recursive, where rmtree may stop half way, or only if empty.
DeleteDir ==
    /\ Complete({"deletedir"})
    /\ LET p == call.args.path
       IN  IF ~IsDir(tree, p)
           THEN Finish(FALSE, {}) /\ UNCHANGED tree
           ELSE \/ tree' = Without(tree, Subtree(tree, p)) /\ Finish(TRUE, {})
                \/ \E gone \in SUBSET (Subtree(tree, p) \ {p}) :
                      /\ \A q \in gone : Subtree(tree, q) \subseteq gone
                      /\ tree' = Without(tree, gone)
                      /\ Finish(FALSE, {})
    /\ Rest

CheckMove ==
    /\ Complete({"movefile"})
    /\ \E overwrite \in BOOLEAN :
          IF call.args.path \in DOMAIN tree /\ (overwrite \/ call.args.target_path \notin DOMAIN tree)
          THEN Goto("moving")
          ELSE Finish(FALSE, {})
    /\ UNCHANGED tree /\ Rest

\* The parents of the target are made, then shutil.move renames, into the
\* target when that is a directory; it refuses to move a directory into itself.
Move ==
    /\ Running({"movefile"}, "moving")
    /\ LET p == call.args.path
           target == call.args.target_path
           parent == IF target = Base THEN Base ELSE Front(target)
           made == Made(tree, parent)
           real == IF IsDir(made, target) /\ p # Base /\ p # target THEN Append(target, Last(p)) ELSE target
       IN  CASE ~CanMake(tree, parent) -> Finish(FALSE, {}) /\ UNCHANGED tree
             [] CanMake(tree, parent) /\ p = target /\ p \in DOMAIN made ->
                   tree' = made /\ Finish(TRUE, {})
             [] OTHER ->
                   IF /\ p \in DOMAIN made /\ real # Base /\ ~IsPrefix(p, real)
                      /\ IsDir(made, Front(real))
                      /\ real # target => real \notin DOMAIN made
                      /\ real \in DOMAIN made => IsFile(made, p)
                   THEN tree' = Renamed(made, p, real) /\ Finish(TRUE, {})
                   ELSE tree' = made /\ Finish(FALSE, {})
    /\ Rest

\* image_describe: the frame of a file, camera or stream is loaded.
LoadFrame ==
    /\ Complete({"image_describe"})
    /\ Goto("saving") \/ Finish(FALSE, {})
    /\ UNCHANGED tree /\ Rest
SaveFrame ==
    /\ Running({"image_describe"}, "saving")
    /\ \/ "save_frame_path" \notin DOMAIN call.args /\ Goto("choosing") /\ UNCHANGED tree
       \/ /\ "save_frame_path" \in DOMAIN call.args
          /\ Writable(tree, call.args.save_frame_path)
          /\ tree' = WithNode(tree, call.args.save_frame_path, "bin")
          /\ Goto("choosing")
       \/ Finish(FALSE, {}) /\ UNCHANGED tree
    /\ Rest

\* _vision_model: the configured one, the one found earlier, or the best listed.
ChooseModel ==
    /\ Running({"image_describe"}, "choosing")
    /\ Goto("describing") \/ Finish(FALSE, {})
    /\ UNCHANGED tree /\ Rest

\* _describe_with_ollama
Describe ==
    /\ Running({"image_describe"}, "describing")
    /\ \E ok \in BOOLEAN : Finish(ok, {})
    /\ UNCHANGED tree /\ Rest

\* Another program: an editor, a build, a command that outlived its timeout.
OtherProgram ==
    /\ changes < MaxChanges /\ changes' = changes + 1
    /\ call # Idle
    /\ SomeChange
    /\ UNCHANGED <<policy, call, answer, audit, calls>>

Init ==
    /\ tree \in Trees /\ policy \in Policies
    /\ call = Idle /\ answer = None /\ audit = <<>>
    /\ calls = 0 /\ changes = 0

Step ==
    \/ \E tool \in Asked : Ask(tool)
    \/ Incomplete \/ ReadFile \/ ReadLines \/ ReadSource \/ CheckSource \/ ReadTable
    \/ ListDir \/ ListTree \/ Search \/ QueryGit \/ UseSerial \/ RunElsewhere
    \/ RunPython \/ RunNode \/ RunDotnet \/ SaveChart
    \/ CheckMissing \/ CreateFile \/ WriteFile \/ ReadBack \/ ReadToReplace \/ Replace
    \/ MakeDir \/ DeleteFile \/ DeleteDir \/ CheckMove \/ Move
    \/ LoadFrame \/ SaveFrame \/ ChooseModel \/ Describe
    \/ OtherProgram

Next == Step /\ DOMAIN tree' \subseteq Paths
Spec == Init /\ [][Next]_vars

(***************************************************************************)
(* Properties                                                              *)
(***************************************************************************)

\* BASE_DIR stays and the tree hangs together, whatever is moved into itself,
\* over its own parent or deleted (local.py, call_tool; functions.py, movefile
\* and deletedir).
BaseKept ==
    /\ IsDir(tree, Base)
    /\ \A p \in DOMAIN tree \ {Base} : IsDir(tree, Front(p))

\* A protected file that exists is not changed by a tool that writes, deletes or
\* saves a frame, by whichever of its arguments it is reached; it goes only along
\* with a directory above it that deletedir or movefile is given (security.py,
\* before_tool).
ProtectedKept ==
    [][(/\ call # Idle /\ call' # call
        /\ Tools[call.tool].category \in {"write", "delete", "media_input"}) =>
          \A p \in DOMAIN tree :
             MatchesProtected(p, policy.unwritable, Base) =>
                \/ p \in DOMAIN tree' /\ tree'[p] = tree[p]
                \/ /\ call.tool \in {"deletedir", "movefile"}
                   /\ IsStrictPrefix(call.args.path, p)]_vars

\* The tools that show what they find below a directory.
Walkers == {"listdir", "list_tree", "find_files", "search_code", "find_definition", "find_references"}

\* Patterns that protect a path by one of its names, with all that is below it,
\* as the default ones do with .git.
Sealing(patterns) ==
    \A c \in UNION patterns :
       \E i \in DOMAIN c : /\ <<c[i]>> \in UNION patterns
                          /\ \A j \in i + 1 .. Len(c) : SubSeq(c, 1, j) \in UNION patterns

\* A tool that reads one path never shows one the policy refuses.  A listing or a
\* search, which judges paths relative to where it starts and not to BASE_DIR, shows
\* one only by a pattern on its path, never by its name; only when it starts below
\* BASE_DIR or is list_tree, which judges each entry from its own directory; and
\* never with patterns that seal what they protect (path_policies.py; read_policy.py).
RefusedShownByPath ==
    [][(call # Idle /\ call' = Idle) =>
          \A p \in answer'.seen :
             MatchesProtected(p, policy.unreadable, Base) =>
                /\ call.tool \in Walkers
                /\ <<Last(p)>> \notin UNION policy.unreadable
                /\ call.args.path # Base \/ call.tool = "list_tree"
                /\ ~Sealing(policy.unreadable)]_vars

\* Whatever comes and goes between the look-up of a path and its use, a tool that is
\* no command changes only what is at or below a path it was given, spelled as it was
\* given, or makes the directories above it; what a reader may be led to by a name
\* alone no writer is (arguments.py, resolve_user_path and _discover_relative_file).
ChangesAsAsked ==
    [][(call # Idle /\ call' # call /\ Tools[call.tool].category # "execute") =>
          \A p \in DOMAIN tree \cup DOMAIN tree' :
             \/ p \in DOMAIN tree \cap DOMAIN tree' /\ tree'[p] = tree[p]
             \/ \E k \in DOMAIN call.given :
                   \/ IsPrefix(call.given[k].path, p)
                   \/ IsPrefix(p, call.given[k].path) /\ p \notin DOMAIN tree /\ tree'[p] = "dir"]_vars
=============================================================================
