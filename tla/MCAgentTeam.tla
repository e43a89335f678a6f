---------------------------- MODULE MCAgentTeam ----------------------------
(* Instances of AgentTeam for TLC: one tool of each kind that matters.      *)
EXTENDS AgentTeam, TLC

MCTools == {"readfile", "writefile", "run_process", "hardware_info"}
MCCategory == "readfile" :> "read" @@ "writefile" :> "write" @@
              "run_process" :> "execute" @@ "hardware_info" :> "hardware"

\* run_process is not among the worker's first tools.
MCRoleTools == "worker" :> {"readfile", "writefile"} @@ "reviewer" :> {"readfile"}

\* The built-in worker and file-inspector, and one loaded from a file that is
\* read-only and lists a tool that writes.
MCSubagents == {"worker", "inspector", "planner"}
MCSubAccess == "worker" :> "full" @@ "inspector" :> "read_only" @@ "planner" :> "none"
MCSubTools  == "worker" :> NoList @@ "inspector" :> {"readfile", "writefile"} @@
               "planner" :> {}
=============================================================================
