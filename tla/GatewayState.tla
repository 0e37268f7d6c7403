---------------------------- MODULE GatewayState ----------------------------
(***************************************************************************)
(* The data of the gateway and what its parts do with it: the manifests,   *)
(* the per-session state (context.py), the tool call context, the verdict  *)
(* of every built-in stage (stages/), and the three accounting operations  *)
(* reserve, release and settle (pipeline.py).  Everything here is a pure   *)
(* operator on a session record s and a call context x; the modules that   *)
(* extend this one decide when the operators are applied.                  *)
(***************************************************************************)
EXTENDS Integers, Sequences, FiniteSets

CONSTANTS
    Tools,          \* names of the registered tools
    Args,           \* argument objects, told apart only by hash_args
    AnyArgs,        \* the "*" of a wildcard approval "tool:*"
    Scopes,         \* permission scopes
    Manifest,       \* tool -> the fields of its ToolManifest the stages read
    SchemaInvalid,  \* <<tool, args>> rejected by the tool's input_schema
    Policy,         \* <<tool, args>> -> what RulePolicy.evaluate decides
    Rewrite,        \* <<tool, args>> -> the rewritten arguments of TRANSFORM
    GuardViolation, \* <<tool, args>> an input guard objects to
    Stages,         \* the gateway's stages, in order
    BudgetLimit,    \* budget_limit_usd in cents, or NoLimit
    NoLimit,
    MaxRepeats,     \* LoopDetectStage.max_repeats
    RecentMax,      \* maxlen of the recent_calls deque (256 in the code)
    MaxPending,     \* _MAX_PENDING_APPROVALS (256 in the code)
    ApprovalThreshold, DenyThreshold,   \* of the RiskScorer, in half points
    RequireApprovalWhenTainted, DenyIrreversible,   \* TaintStage options
    ApprovalIds     \* approval ids, unique per question asked

Decisions   == {"allow", "transform", "require_approval", "deny"}
SideEffects == {"read", "write", "irreversible"}
StageNames  == {"schema", "scope", "policy", "taint", "risk", "guardrails",
                "loop_detect", "budget", "rate_limit"}

\* output_classification: the four names the scorer knows, or any other one.
Classes == {"public", "internal", "confidential", "pii", "other"}

ManifestType == [ cost_usd : Nat, side_effect : SideEffects, risk_tier : 1..4,
                  required_scopes : SUBSET Scopes,
                  reaches_untrusted : BOOLEAN, output_classification : Classes,
                  timeout_s : BOOLEAN ]

ASSUME StateAssumption ==
    /\ AnyArgs \notin Args
    /\ Manifest \in [Tools -> ManifestType]
    /\ SchemaInvalid \subseteq Tools \X Args
    /\ GuardViolation \subseteq Tools \X Args
    /\ Policy \in [Tools \X Args -> Decisions]
    /\ Rewrite \in [Tools \X Args -> Args]
    /\ Stages \in Seq(StageNames) \ {<<>>}
    /\ NoLimit \notin Nat
    /\ BudgetLimit \in Nat \cup {NoLimit}
    /\ MaxRepeats \in Nat /\ RecentMax \in Nat \ {0} /\ MaxPending \in Nat \ {0}
    /\ ApprovalThreshold \in Nat /\ DenyThreshold \in Nat
    /\ RequireApprovalWhenTainted \in BOOLEAN /\ DenyIrreversible \in BOOLEAN

Keys == Tools \X (Args \cup {AnyArgs})    \* "tool:args_hash" and "tool:*"

-----------------------------------------------------------------------------
(* Session state.  Money is in cents.  recent_calls keeps no clock reading: *)
(* stale counts the oldest entries that have left the detector's window_s. *)

SessionType ==
    [ used : Nat, reserved : Nat, tainted : BOOLEAN, approvals : SUBSET Keys,
      pending : Seq([id : ApprovalIds, key : Keys]),
      recent : Seq(Tools \X Args), stale : Nat ]

NewSession == [ used |-> 0, reserved |-> 0, tainted |-> FALSE, approvals |-> {},
                pending |-> <<>>, recent |-> <<>>, stale |-> 0 ]

\* The ToolCallContext; reserved is metadata["_budget_reserved"], 0 when absent.
ContextType == [ tool : Tools, args : Args, scopes : SUBSET Scopes, depth : Nat,
                 reserved : Nat ]

CallType == [ tool : Tools, args : Args, scopes : SUBSET Scopes, depth : Nat ]

NewContext(call) == [ tool |-> call.tool, args |-> call.args,
                      scopes |-> call.scopes, depth |-> call.depth,
                      reserved |-> 0 ]

Cost(x) == Manifest[x.tool].cost_usd
ApprovalKey(x) == <<x.tool, x.args>>
WildcardKey(x) == <<x.tool, AnyArgs>>
\* Mutant: an approval of the tool with any arguments approves this call.
ApprovedByTool(s, x) == \E key \in s.approvals : key[1] = x.tool
Approved(s, x) == {ApprovalKey(x), WildcardKey(x)} \cap s.approvals # {}

\* Appending to a deque of maxlen RecentMax drops its oldest entry.
RecordCall(s, x) ==
    LET full == Len(s.recent) = RecentMax
    IN  [s EXCEPT !.recent = Append(IF full THEN Tail(@) ELSE @, ApprovalKey(x)),
                  !.stale  = IF full /\ @ > 0 THEN @ - 1 ELSE @]

\* Mutant: the list of questions is not bounded.
AddPendingUnbounded(s, id, key) ==
    [s EXCEPT !.pending = Append(@, [id |-> id, key |-> key])]

\* pending[id] = key, then evict the oldest while more than MaxPending.
AddPending(s, id, key) ==
    LET full == Len(s.pending) = MaxPending
    IN  [s EXCEPT !.pending = Append(IF full THEN Tail(@) ELSE @,
                                     [id |-> id, key |-> key])]

\* Mutant: the question forgotten is the oldest one, not the one answered.
RedeemPendingOldest(s, i) ==
    [s EXCEPT !.approvals = @ \cup {s.pending[i].key}, !.pending = Tail(@)]

\* pending_approvals.pop(id) and approvals.add(key), for the i-th entry.
RedeemPending(s, i) ==
    [s EXCEPT !.approvals = @ \cup {s.pending[i].key},
              !.pending = SubSeq(@, 1, i - 1) \o SubSeq(@, i + 1, Len(@))]

-----------------------------------------------------------------------------
(* Accounting: Gateway.reserve, release and settle. *)

\* The pair <<session, context>> after reserve; a context that already holds a
\* reservation, or a free tool, only gets its history entry.
Reserve(s, x) ==
    LET r == RecordCall(s, x)
    IN  IF Cost(x) = 0 \/ x.reserved > 0
          THEN <<r, x>>
          ELSE << [r EXCEPT !.reserved = @ + Cost(x)],
                  [x EXCEPT !.reserved = Cost(x)] >>

\* Mutant: metadata.get instead of metadata.pop.
ReleaseKeepsMark(s, x) ==
    << [s EXCEPT !.reserved = IF @ > x.reserved THEN @ - x.reserved ELSE 0], x >>

Release(s, x) ==
    << [s EXCEPT !.reserved = IF @ > x.reserved THEN @ - x.reserved ELSE 0],
       [x EXCEPT !.reserved = 0] >>

\* Mutant: what is spent is the reservation, not the cost.
SettleReservation(s, x) ==
    LET r == Release(s, x)
    IN  << [r[1] EXCEPT !.used = @ + x.reserved], r[2] >>

Settle(s, x) ==
    LET r == Release(s, x)
    IN  << [r[1] EXCEPT !.used = @ + Cost(x)], r[2] >>

-----------------------------------------------------------------------------
(* The verdicts of the stages. *)

SchemaVerdict(x) == IF ApprovalKey(x) \in SchemaInvalid THEN "deny" ELSE "allow"

ScopeVerdict(x) ==
    IF Manifest[x.tool].required_scopes \subseteq x.scopes THEN "allow" ELSE "deny"

PolicyVerdict(s, x) ==
    LET rule == Policy[ApprovalKey(x)]
    IN  IF rule = "require_approval" /\ Approved(s, x) THEN "allow" ELSE rule

TaintGates(s, x) == s.tainted /\ Manifest[x.tool].side_effect # "read"

TaintVerdict(s, x) ==
    IF TaintGates(s, x) /\ DenyIrreversible
                        /\ Manifest[x.tool].side_effect = "irreversible"
      THEN "deny"
    ELSE IF TaintGates(s, x) /\ RequireApprovalWhenTainted /\ ~Approved(s, x)
      THEN "require_approval"
      ELSE "allow"

\* The five default signals, in half points.
TierSignal == <<0, 3, 6, 12>>
SideEffectSignal == [read |-> 0, write |-> 4, irreversible |-> 8]
ClassSignal == [public |-> 0, internal |-> 0, confidential |-> 2, pii |-> 4,
                other |-> 1]

RiskScore(s, x) ==
    LET m == Manifest[x.tool]
    IN  TierSignal[m.risk_tier] + SideEffectSignal[m.side_effect]
          + (IF TaintGates(s, x) THEN 6 ELSE 0)
          + x.depth + ClassSignal[m.output_classification]

RiskVerdict(s, x) ==
    IF RiskScore(s, x) >= DenyThreshold THEN "deny"
    ELSE IF RiskScore(s, x) >= ApprovalThreshold /\ ~Approved(s, x)
      THEN "require_approval"
      ELSE "allow"

GuardVerdict(x) == IF ApprovalKey(x) \in GuardViolation THEN "deny" ELSE "allow"

\* Positions of the identical calls the detector still counts.
Repeats(s, key) == {i \in DOMAIN s.recent : i > s.stale /\ s.recent[i] = key}

\* Mutant: off by one.
LoopVerdictLate(s, x) ==
    IF Cardinality(Repeats(s, ApprovalKey(x))) > MaxRepeats THEN "deny" ELSE "allow"

LoopVerdict(s, x) ==
    IF Cardinality(Repeats(s, ApprovalKey(x))) >= MaxRepeats THEN "deny" ELSE "allow"

\* Mutant: calls in flight are not counted.
BudgetVerdictSpentOnly(s, x) ==
    IF BudgetLimit # NoLimit /\ s.used + Cost(x) > BudgetLimit
      THEN "deny" ELSE "allow"

BudgetVerdict(s, x) ==
    IF BudgetLimit # NoLimit /\ s.used + s.reserved + Cost(x) > BudgetLimit
      THEN "deny" ELSE "allow"

\* What stage st may answer.  The rate limiter is another object, shared with
\* other sessions: here it may let any call pass or stop it.
Verdicts(s, x, st) ==
    CASE st = "schema"      -> {SchemaVerdict(x)}
      [] st = "scope"       -> {ScopeVerdict(x)}
      [] st = "policy"      -> {PolicyVerdict(s, x)}
      [] st = "taint"       -> {TaintVerdict(s, x)}
      [] st = "risk"        -> {RiskVerdict(s, x)}
      [] st = "guardrails"  -> {GuardVerdict(x)}
      [] st = "loop_detect" -> {LoopVerdict(s, x)}
      [] st = "budget"      -> {BudgetVerdict(s, x)}
      [] st = "rate_limit"  -> {"allow", "deny"}

\* The session after the stage's after hook has seen the result.
AfterStage(s, x, st) ==
    IF st = "taint" /\ Manifest[x.tool].reaches_untrusted
      THEN [s EXCEPT !.tainted = TRUE] ELSE s
=============================================================================
