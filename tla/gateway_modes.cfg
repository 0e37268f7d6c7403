\* Shadow mode and fail-open gateways, with the stages of this repository.
CONSTANTS
    Tools <- MCTools
    Args <- MCArgs
    AnyArgs = "*"
    Scopes = {"send"}
    Manifest <- MCManifest
    SchemaInvalid = {}
    Policy <- MCPolicy
    Rewrite <- MCRewrite
    GuardViolation = {}
    Stages <- MCStages
    BudgetLimit = 3
    NoLimit = NoLimit
    MaxRepeats = 1
    RecentMax = 1
    MaxPending = 2
    ApprovalThreshold = 12
    DenyThreshold = 20
    RequireApprovalWhenTainted = TRUE
    DenyIrreversible = FALSE
    ApprovalIds <- MCApprovalIds
    Calls <- PairCalls
    Call <- PairCall
    NoCall = NoCall
    Suspending = {}
    Faults = {"tool", "stage_bug", "output_guard", "after_bug", "sink", "cancel"}
    GatewayModes <- Lenient
    MaxAttempts = 2
SPECIFICATION Spec
INVARIANTS
    ReservedIsHeld
    SpendIsCharged
    ShadowEnforcesNothing
