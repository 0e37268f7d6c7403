\* The coding agent of the example, an untrusted server, rules added later.
CONSTANTS
    Names <- AllTools
    Manifests <- MCManifests
    Nothing = Nothing
    Registered <- MCRegistered
    Explicit <- MCExplicit
    Overlay <- MCOverlay
    ServerTools <- McpTools
    Listed = {"get_issue"}
    ServerScopes = {"mcp:gh"}
    Trusted = FALSE
    Default <- UnknownTool
    PolicyCalls <- AllCalls
    Rules <- MCRules
    Constructed <- MCConstructed
    Fallback = "deny"
    AgentScopes <- Scope
    Root <- Scope
    Requests <- MCRequests
    Args <- MCArgs
    AnyArgs = "*"
    NoLimit = NoLimit
    Principal <- Scope
    ApprovalThreshold = 12
    DenyThreshold = 20
    RequireApprovalWhenTainted = TRUE
    DenyIrreversible = FALSE
    MaxRules = 10
    MaxDepth = 2
SPECIFICATION Spec
INVARIANTS
    PriorityDecides
    DelegationNeverLoosens
    AnnouncingGainsNothing
    SandboxHolds
PROPERTIES
    OperatorDecides
