----------------------------- MODULE MCAuthority ----------------------------
(* The coding agent and one untrusted MCP server, for TLC. *)
EXTENDS CodingAgent

MCArgs == {call[2] : call \in AllCalls}
MCManifests == {BuiltInManifest[n] : n \in BuiltIn} \cup {UnknownTool, Reviewed, McpDefault}
                 \cup {ManifestFromMcp(h) : h \in Hints}
MCRegistered == [n \in AllTools |-> IF n \in BuiltIn THEN BuiltInManifest[n] ELSE Nothing]
\* The host may take Bash out of the registry and back, and register get_issue.
MCExplicit == [n \in AllTools |-> IF n = "Bash" THEN {BuiltInManifest[n]}
                                  ELSE IF n = "get_issue" THEN {Reviewed} ELSE {}]
MCOverlay == << <<{"get_issue"}, Reviewed>>, <<McpTools, McpDefault>> >>
\* Added in any order, on top of the example's policy or of an unsorted list.
MCRules == {AllowAll, AllowBash, AllowSandboxed, DenyShell, RewriteNothing}
MCConstructed == {CodingPolicy, <<AllowAll>> \o CodingPolicy}
MCRequests == {{"fs:read", "shell"}, {"fs:write", "mcp:gh", "shell"}}
=============================================================================
