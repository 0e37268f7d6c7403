----------------------------- MODULE CodingAgent ----------------------------
(***************************************************************************)
(* The coding agent of examples/claude_sdk_coding_agent.py, with the MCP   *)
(* server of the README next to its built-in tools.  Glob and Grep are     *)
(* declared and ruled as Read is, Edit as Write, WebSearch as WebFetch.    *)
(* A path is inside the workspace, in a sibling whose name begins with     *)
(* that of the workspace, or outside; a command only reads, or is obviously *)
(* dangerous, or anything else.                                            *)
(***************************************************************************)
EXTENDS Authority

BuiltIn   == {"Read", "Write", "Bash", "WebFetch"}
McpTools  == {"get_issue", "mystery"}
AllTools  == BuiltIn \cup McpTools

Paths     == {"inside", "sibling", "outside"}
Commands  == {"readonly", "dangerous", "other"}
AllCalls  == ({"Read"} \X {"inside"}) \cup ({"Write"} \X Paths) \cup ({"Bash"} \X Commands)
                \cup (({"WebFetch"} \cup McpTools) \X {"any"})

\* Those of the example's principal, and the one of the server.
Scope == {"fs:read", "fs:write", "shell", "net:read", "mcp:gh"}

Tool(effect, tier, scopes, untrusted) ==
    [ cost_usd |-> 0, side_effect |-> effect, risk_tier |-> tier, required_scopes |-> scopes,
      reaches_untrusted |-> untrusted, output_classification |-> "internal", timeout_s |-> TRUE ]

\* The registry of the example; one tool of the server a human reviewed, too.
BuiltInManifest ==
    [ Read     |-> Tool("read", 1, {"fs:read"}, FALSE),
      Write    |-> Tool("write", 2, {"fs:write"}, FALSE),
      Bash     |-> Tool("write", 3, {"shell"}, FALSE),
      WebFetch |-> Tool("read", 1, {"net:read"}, TRUE) ]
UnknownTool == Tool("write", 3, {}, FALSE)
Reviewed == Tool("read", 1, {"mcp:gh"}, FALSE)

-----------------------------------------------------------------------------
(* The policy. *)

\* Mutant: a comparison of the strings' beginnings.
InsideWorkspaceByPrefix == {"inside", "sibling"}
\* commonpath of the resolved path is the workspace.
InsideWorkspace == {"inside"}
IsDangerous == {"dangerous"}
IsReadonly == {"readonly"}

On(tool, args) == {call \in AllCalls : call[1] = tool /\ call[2] \in args}
Rule(calls, effect, priority) ==
    [calls |-> calls, effect |-> effect, priority |-> priority, transformer |-> FALSE]

\* As the chain of allow, deny and require_approval leaves it.
CodingPolicy == Sorted(<<
    Rule(On("Read", Paths), "allow", 0),
    Rule(On("Write", InsideWorkspace), "allow", 0),
    Rule(On("Write", Paths \ InsideWorkspace), "deny", 10),
    Rule(On("Bash", IsDangerous), "deny", 10),
    Rule(On("Bash", IsReadonly), "allow", 0),
    Rule(On("Bash", Commands), "require_approval", 0),
    Rule(On("WebFetch", {"any"}), "allow", 0),
    Rule(AllCalls, "require_approval", 0) >>)

\* "*" and "Bash" allowed later, a rule that outranks the denials, and a rewrite
\* that lacks its function.
AllowAll == Rule(AllCalls, "allow", 0)
AllowBash == Rule(On("Bash", Commands), "allow", 5)
AllowSandboxed == Rule(On("Write", Paths) \cup On("Bash", Commands), "allow", 10)
DenyShell == Rule(On("Bash", Commands), "deny", 20)
RewriteNothing == Rule(AllCalls, "transform", 30)

-----------------------------------------------------------------------------
Later == {i \in DOMAIN history : i > Len(CodingPolicy)}
BuiltOn == Len(history) >= Len(CodingPolicy)
              /\ SubSeq(history, 1, Len(CodingPolicy)) = CodingPolicy

\* The sandbox of the example: no write outside the workspace and no dangerous
\* command runs, for any agent, approved or not, whatever rules up to the
\* denials' priority the host adds later; and whatever else is not on the list
\* runs unapproved only if the host added a rule that allows it.
SandboxHolds ==
    BuiltOn =>
        /\ \A call \in On("Write", {"sibling", "outside"}) \cup On("Bash", {"dangerous"}) :
              \A s \in Sessions(call) : ~Admits(Resolved, s, agent, call)
        /\ \A call \in On("Bash", {"other"}) \cup On("mystery", {"any"}) :
              \A s \in Sessions(call) :
                  s.approvals = {} /\ Admits(Resolved, s, agent, call)
                    => \E i \in Later : call \in history[i].calls /\ history[i].effect = "allow"
=============================================================================
