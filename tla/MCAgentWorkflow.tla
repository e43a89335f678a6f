-------------------------- MODULE MCAgentWorkflow --------------------------
(* Instances of AgentWorkflow for TLC.                                     *)
EXTENDS AgentWorkflow

CONSTANTS p1, p2, p3

\* p2 is another spelling of p1 ("A.txt" and "a.txt").
MCNorm == p1 :> p1 @@ p2 :> p1 @@ p3 :> p3
MCTools == {"writefile", "readfile"}
MCNoTools == {}

\* A tool result weighs more than what is said.
MCWeight == [r \in Roles |-> IF r = "tool" THEN 2 ELSE 1]

Turn(t) == <<User(t), Assistant("reply", <<>>)>>
ToolTurn(t) == <<User(t), Assistant("reply", <<"readfile", "writefile">>),
                 ToolResult("readfile"), ToolResult("writefile"),
                 Assistant("reply", <<>>)>>
\* An answer whose code blocks were written: results without calls.
WrittenTurn(t) == <<User(t), Assistant("reply", <<>>), ToolResult("writefile")>>
Summary == <<Assistant("summary", <<>>)>>
Trimmed == <<Assistant("note", <<>>)>>

\* A new conversation, and one of an earlier prompt.
MCShort == {<<>>, WrittenTurn("old")}

\* Longer ones, compacted, trimmed before or neither.
MCLong == {ToolTurn("old") \o WrittenTurn("old"),
           Turn("old") \o ToolTurn("old") \o Turn("old"),
           Summary \o ToolTurn("old") \o Turn("old") \o Turn("old"),
           Trimmed \o ToolTurn("old") \o Turn("old") \o WrittenTurn("old"),
           Summary \o Trimmed \o Turn("old") \o Turn("old")}

MCAll == MCShort \cup MCLong
=============================================================================
