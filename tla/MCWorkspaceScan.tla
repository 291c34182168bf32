-------------------------- MODULE MCWorkspaceScan --------------------------
EXTENDS WorkspaceScan, TLC

\* A directory with a workflow that sorts before the agent's instructions, the README, a file of
\* no interest and a directory that is passed over; the limits are such that each can be reached.
Names == <<".github", "ci.yml", "AGENTS.md", "README.md", "main.c", "vendor">>
Directory == (".github" :> "." @@ "ci.yml" :> ".github" @@ "AGENTS.md" :> "." @@ "README.md" :> "."
              @@ "main.c" :> "." @@ "vendor" :> ".")
Kinded == ("ci.yml" :> "AUTOMATION_CONFIG" @@ "AGENTS.md" :> "AGENT_INSTRUCTIONS"
           @@ "README.md" :> "REPOSITORY_DOCS" @@ "main.c" :> "")
Holds ==
    {[size |-> 1, text |-> FALSE, severity |-> "", long |-> FALSE],
     [size |-> 2, text |-> TRUE, severity |-> "HIGH", long |-> FALSE],
     [size |-> 1, text |-> TRUE, severity |-> "LOW", long |-> TRUE],
     [size |-> 3, text |-> TRUE, severity |-> "", long |-> FALSE]}
=============================================================================
