\* A policy and a risk service suspend, before the limits are checked; no other
\* await does, and tools may hang until their timeout.
CONSTANTS
    Tools <- MCTools
    Args <- MCArgs
    AnyArgs = "*"
    Scopes = {"send"}
    Manifest <- MCManifest
    SchemaInvalid = {}
    Policy <- MCPolicy
    Rewrite <- MCRewrite
    GuardViolation = {}
    Stages <- SessionStages
    BudgetLimit = 2
    NoLimit = NoLimit
    MaxRepeats = 1
    RecentMax = 2
    MaxPending = 2
    ApprovalThreshold = 12
    DenyThreshold = 20
    RequireApprovalWhenTainted = TRUE
    DenyIrreversible = FALSE
    ApprovalIds <- MCApprovalIds
    Calls <- MCCalls
    Call <- PaidCall
    NoCall = NoCall
    Suspending <- BeforeLimits
    Faults = {"timeout"}
    GatewayModes <- Enforcing
    MaxAttempts = 2
SPECIFICATION FairSpec
INVARIANTS
    BudgetNeverOvershoots
    LoopBound
PROPERTIES
    ImplementsLedger
    CallsEnd
    ReservationsDrain
