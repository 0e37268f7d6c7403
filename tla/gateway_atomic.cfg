\* Every stage and sink as in this repository: no await inside before suspends.
CONSTANTS
    Tools <- MCTools
    Args <- MCArgs
    AnyArgs = "*"
    Scopes = {"send"}
    Manifest <- MCManifest
    SchemaInvalid = {}
    Policy <- MCPolicy
    Rewrite <- MCRewrite
    GuardViolation = {}
    Stages <- MCStages
    BudgetLimit = 3
    NoLimit = NoLimit
    MaxRepeats = 1
    RecentMax = 1
    MaxPending = 2
    ApprovalThreshold = 12
    DenyThreshold = 20
    RequireApprovalWhenTainted = TRUE
    DenyIrreversible = FALSE
    ApprovalIds <- MCApprovalIds
    Calls <- MCCalls
    Call <- MCCall
    NoCall = NoCall
    Suspending = {}
    Faults = {"tool", "stage_bug", "output_guard", "after_bug", "sink", "cancel"}
    GatewayModes <- Enforcing
    MaxAttempts = 2
SPECIFICATION Spec
INVARIANTS
    TypeOK
    BudgetNeverOvershoots
    ReservedIsHeld
    SpendIsCharged
    ApprovalsAreGrants
PROPERTIES
    AdmittedOnlyIfApproved
    TaintBeforeResult
    QuestionsRedeemable
    PipelineIsOneStep
