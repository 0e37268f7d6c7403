\* A policy that rewrites the arguments, and a taint stage that asks.
CONSTANTS
    Tools <- MCTools
    Args <- MCArgs
    AnyArgs = "*"
    Scopes = {"send"}
    Manifest <- MCManifest
    SchemaInvalid = {}
    Policy <- MCPolicy
    Rewrite <- MCRewrite
    GuardViolation = {}
    Stages <- MCStages
    BudgetLimit = NoLimit
    NoLimit = NoLimit
    MaxRepeats = 2
    RecentMax = 2
    MaxPending = 2
    ApprovalThreshold = 12
    DenyThreshold = 20
    RequireApprovalWhenTainted = TRUE
    DenyIrreversible = FALSE
    ApprovalIds <- MCApprovalIds
    Calls <- MCCalls
    Call <- RewriteCall
    Via <- RewriteVia
    UserNeeds = {}
    Overrides = {"b"}
    MaxInflight = 2
    NoArgs = NoArgs
    NoContext = NoContext
SPECIFICATION Spec
INVARIANT ApprovedArgumentsRun
