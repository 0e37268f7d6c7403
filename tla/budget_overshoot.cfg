\* A rate limiter that is asked over the network, after the budget was checked.
CONSTANTS
    Tools <- MCTools
    Args <- MCArgs
    AnyArgs = "*"
    Scopes = {"send"}
    Manifest <- MCManifest
    SchemaInvalid = {}
    Policy <- MCPolicy
    Rewrite <- MCRewrite
    GuardViolation = {}
    Stages <- SessionStages
    BudgetLimit = 2
    NoLimit = NoLimit
    MaxRepeats = 2
    RecentMax = 2
    MaxPending = 2
    ApprovalThreshold = 12
    DenyThreshold = 20
    RequireApprovalWhenTainted = TRUE
    DenyIrreversible = FALSE
    ApprovalIds <- MCApprovalIds
    Calls <- MCCalls
    Call <- PaidCall
    NoCall = NoCall
    Suspending = {"rate_limit"}
    Faults = {}
    GatewayModes <- Enforcing
    MaxAttempts = 2
SPECIFICATION Spec
INVARIANT BudgetNeverOvershoots
