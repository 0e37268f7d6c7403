\* A call of the Claude SDK that costs more than the budget, and is approved.
CONSTANTS
    Tools <- MCTools
    Args <- MCArgs
    AnyArgs = "*"
    Scopes = {"send"}
    Manifest <- MCManifest
    SchemaInvalid = {}
    Policy <- MCPolicy
    Rewrite <- MCRewrite
    GuardViolation = {}
    Stages <- MCStages
    BudgetLimit = 1
    NoLimit = NoLimit
    MaxRepeats = 2
    RecentMax = 2
    MaxPending = 2
    ApprovalThreshold = 12
    DenyThreshold = 20
    RequireApprovalWhenTainted = TRUE
    DenyIrreversible = FALSE
    ApprovalIds <- MCApprovalIds
    Calls <- MCCalls
    Call <- AskedCall
    Via <- AskedVia
    UserNeeds = {}
    Overrides = {"b"}
    MaxInflight = 2
    NoArgs = NoArgs
    NoContext = NoContext
SPECIFICATION Spec
INVARIANT BudgetNeverOvershoots
