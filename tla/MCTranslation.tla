----------------------------- MODULE MCTranslation -----------------------------
(***************************************************************************)
(* The four parts of the translation, side by side: a run is one of them, and  *)
(* the others stay as they began.                                             *)
(***************************************************************************)
EXTENDS StreamTranslation, ToolHistory, ServerTools, ToolNames

VARIABLE part

MCTranslationVars == <<streamVars, historyVars, toolVars, declared, part>>

\* Shells of two agents, a reader, a reader named another way, a tool that does
\* two things, and two tools of an MCP server, one with too long a name.
MCCapsOf == [Bash |-> {"shell"}, PowerShell |-> {"shell"}, shell |-> {"shell"}, Read |-> {"read"},
             read_file |-> {"read"}, run_and_read |-> {"shell", "read"}, Write |-> {"write"},
             mcp__fs__read |-> {"read"}, mcp__long |-> {}, cut |-> {}]
MCNames == DOMAIN MCCapsOf
MCFirstCap == [n \in MCNames |-> IF "shell" \in MCCapsOf[n] THEN "shell"
                                 ELSE IF "write" \in MCCapsOf[n] THEN "write" ELSE "read"]
MCShort == [mcp__long |-> "cut"]
MCVocab == [shell |-> "shell", read |-> "read_file", write |-> NoName]

MCTranslationInit ==
    /\ part \in {"streams", "history", "tools", "names"}
    /\ StreamInit /\ (part # "streams" => via = "chat" /\ indexed)
    /\ HistoryInit /\ ToolsInit /\ NamesInit

MCTranslationNext ==
    /\ \/ part = "streams" /\ StreamNext /\ UNCHANGED <<historyVars, toolVars, declared>>
       \/ part = "history" /\ HistoryNext /\ UNCHANGED <<streamVars, toolVars, declared>>
       \/ part = "tools" /\ ToolsNext /\ UNCHANGED <<streamVars, historyVars, declared>>
       \/ part = "names" /\ NamesNext /\ UNCHANGED <<streamVars, historyVars, toolVars>>
    /\ UNCHANGED part

MCTranslationSpec == MCTranslationInit /\ [][MCTranslationNext]_MCTranslationVars
=============================================================================
