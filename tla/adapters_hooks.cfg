\* Hook adapters whose dictionaries hold one call; no budget, as Claude asks without it.
CONSTANTS
    Tools <- MCTools
    Args <- MCArgs
    AnyArgs = "*"
    Scopes = {"send"}
    Manifest <- MCManifest
    SchemaInvalid = {}
    Policy <- MCPolicy
    Rewrite <- MCRewrite
    GuardViolation = {}
    Stages <- MCStages
    BudgetLimit = NoLimit
    NoLimit = NoLimit
    MaxRepeats = 2
    RecentMax = 2
    MaxPending = 2
    ApprovalThreshold = 12
    DenyThreshold = 20
    RequireApprovalWhenTainted = TRUE
    DenyIrreversible = FALSE
    ApprovalIds <- MCApprovalIds
    Calls <- MCCalls
    Call <- HookCall
    Via <- HookVia
    UserNeeds = {"c4"}
    Overrides = {}
    MaxInflight = 1
    NoArgs = NoArgs
    NoContext = NoContext
SPECIFICATION Spec
INVARIANTS
    TypeOK
    HeldIsReserved
    SpendIsCharged
