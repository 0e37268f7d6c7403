\* An audit sink that writes to a service.
CONSTANTS
    Tools <- MCTools
    Args <- MCArgs
    AnyArgs = "*"
    Scopes = {"send"}
    Manifest <- MCManifest
    SchemaInvalid = {}
    Policy <- MCPolicy
    Rewrite <- MCRewrite
    GuardViolation = {}
    Stages <- SessionStages
    BudgetLimit = 4
    NoLimit = NoLimit
    MaxRepeats = 2
    RecentMax = 2
    MaxPending = 2
    ApprovalThreshold = 12
    DenyThreshold = 20
    RequireApprovalWhenTainted = TRUE
    DenyIrreversible = FALSE
    ApprovalIds <- MCApprovalIds
    Calls <- MCCalls
    Call <- TwinCall
    NoCall = NoCall
    Suspending = {"audit"}
    Faults = {}
    GatewayModes <- Enforcing
    MaxAttempts = 2
SPECIFICATION FairSpec
PROPERTY AdmittedOnlyIfApproved
