\* The wrappers and the OpenAI hooks, on a budget that does not suffice for all.
CONSTANTS
    Tools <- MCTools
    Args <- MCArgs
    AnyArgs = "*"
    Scopes = {"send"}
    Manifest <- MCManifest
    SchemaInvalid = {}
    Policy <- MCPolicy
    Rewrite <- MCRewrite
    GuardViolation = {}
    Stages <- MCStages
    BudgetLimit = 4
    NoLimit = NoLimit
    MaxRepeats = 2
    RecentMax = 2
    MaxPending = 2
    ApprovalThreshold = 12
    DenyThreshold = 20
    RequireApprovalWhenTainted = TRUE
    DenyIrreversible = FALSE
    ApprovalIds <- MCApprovalIds
    Calls <- MCCalls
    Call <- WrapCall
    Via <- WrapVia
    UserNeeds = {}
    Overrides = {"a"}
    MaxInflight = 2
    NoArgs = NoArgs
    NoContext = NoContext
SPECIFICATION Spec
INVARIANTS
    BudgetNeverOvershoots
    MoneyIsHeld
    SpendIsCharged
PROPERTIES
    NeverRunsUnapproved
