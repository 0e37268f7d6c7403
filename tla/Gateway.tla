------------------------------ MODULE Gateway -------------------------------
(***************************************************************************)
(* The gateway pipeline (pipeline.py): concurrent tool calls of one        *)
(* session, each a coroutine that goes through before, the execution of    *)
(* the tool, and after, together with the human who answers approvals and  *)
(* the framework that cancels tasks.                                       *)
(*                                                                         *)
(* All coroutines share one event loop.  A coroutine keeps the loop until  *)
(* an await suspends it; an await on a coroutine that never suspends (all  *)
(* stages and sinks in this repository) does not give the loop away.       *)
(* Suspending names the awaits that do: stages and "audit", the sink.      *)
(* With Suspending the set of all points, the calls interleave at every    *)
(* await, as they do when each runs on a loop of a thread of its own.      *)
(***************************************************************************)
EXTENDS GatewayStep

CONSTANTS
    Calls,          \* tool calls the agent issues in this session
    Call,           \* Calls -> tool, arguments, effective scopes, depth
    NoCall,         \* the loop is idle
    Suspending,     \* awaits that may suspend: stage names and "audit"
    Faults,         \* faults that may happen, of FaultNames
    GatewayModes,   \* dry_run and fail_closed of the gateways considered
    MaxAttempts     \* bound: times one call is evaluated by before

FaultNames == {"tool",          \* the tool raises
               "timeout",       \* timeout_s elapses
               "stage_bug",     \* a stage's before raises, a GatewayError or not
               "output_guard",  \* an output guard raises a GatewayError
               "after_bug",     \* a stage's after raises anything else
               "sink",          \* audit.emit raises
               "cancel"}        \* the task running the call is cancelled

ModeType == [dry_run : BOOLEAN, fail_closed : BOOLEAN]

ASSUME GatewayAssumption ==
    /\ Call \in [Calls -> CallType]
    /\ NoCall \notin Calls
    /\ Suspending \subseteq StageNames \cup {"audit"}
    /\ Faults \subseteq FaultNames
    /\ GatewayModes \subseteq ModeType
    /\ MaxAttempts \in Nat \ {0}
    /\ ApprovalIds = Calls \X (1..MaxAttempts)

VARIABLES
    gw,       \* the gateway's mode, fixed when it is constructed
    loop,     \* the call whose coroutine holds the event loop, or NoCall
    pc,       \* where each call is
    frame,    \* locals of the coroutine: stage index, final decision, ...
    ctx,      \* the ToolCallContext of each call
    session,  \* the SessionState all calls share
    granted   \* keys a human granted for the session, as authz.py returned them

vars == <<gw, loop, pc, frame, ctx, session, granted>>

Evaluating == {"before", "decide", "shadow", "commit"}
Running    == {"executing", "after"}
\* denied by a decision; aborted by a raising sink or a cancellation in before; lost
\* by a cancellation while the tool runs; uncharged when after is left half-way.
Finished   == {"asked", "denied", "aborted", "failed", "lost",
               "returned", "withheld", "uncharged"}
Locations  == {"idle"} \cup Evaluating \cup Running \cup Finished

\* idx is the loop variable of before and after, final the decision so far,
\* oneShot the key before_approved added, and attempt counts evaluations.
FrameType == [ idx : 0..(Len(Stages) + 1), final : Decisions, oneShot : SUBSET Keys,
               attempt : 0..MaxAttempts ]

\* before has a current stage, and is evaluating some attempt.
PositionOK ==
    \A c \in Calls :
        /\ pc[c] = "before" => frame[c].idx \in DOMAIN Stages
        /\ pc[c] \in Evaluating \cup {"asked"} => frame[c].attempt > 0

TypeOK ==
    /\ gw \in ModeType
    /\ loop \in Calls \cup {NoCall}
    /\ pc \in [Calls -> Locations]
    /\ frame \in [Calls -> FrameType]
    /\ ctx \in [Calls -> ContextType]
    /\ session \in SessionType
    /\ Len(session.recent) <= RecentMax /\ session.stale <= Len(session.recent)
    /\ Len(session.pending) <= MaxPending
    /\ granted \in SUBSET Keys
    /\ PositionOK

\* The locals of a coroutine that has not begun, or is over.
NewFrame == [idx |-> 0, final |-> "allow", oneShot |-> {}, attempt |-> 0]

Init ==
    /\ gw \in GatewayModes
    /\ loop = NoCall
    /\ pc = [c \in Calls |-> "idle"]
    /\ frame = [c \in Calls |-> NewFrame]
    /\ ctx = [c \in Calls |-> NewContext(Call[c])]
    /\ session = NewSession
    /\ granted = {}

-----------------------------------------------------------------------------
(* The event loop. *)

Turn(c)   == loop \in {c, NoCall}
KeepLoop(c) == loop' = c
FreeLoop  == loop' = NoCall
\* After an await on the given point the coroutine still runs, or is suspended.
Await(c, point) == loop' = IF point \in Suspending THEN NoCall ELSE c

Goto(c, l) == pc' = [pc EXCEPT ![c] = l]

-----------------------------------------------------------------------------
(* before: the stages in order. *)

Here(c) == Stages[frame[c].idx]

\* Gateway.call, or an adapter, builds a context and awaits before.
Start(c) ==
    /\ pc[c] = "idle" /\ loop = NoCall
    /\ Goto(c, "before")
    /\ frame' = [frame EXCEPT ![c].idx = 1, ![c].attempt = 1]
    /\ KeepLoop(c)
    /\ UNCHANGED <<gw, ctx, session, granted>>

\* The for loop goes on to the next stage, or ends.
NextStage(c) ==
    /\ Goto(c, IF frame[c].idx = Len(Stages) THEN "decide" ELSE "before")
    /\ Await(c, Here(c))

AtStage(c) == pc[c] = "before" /\ Turn(c)

StageAllows(c) ==
    /\ AtStage(c)
    /\ "allow" \in Verdicts(session, ctx[c], Here(c))
    /\ frame' = [frame EXCEPT ![c].idx = @ + 1]
    /\ NextStage(c)
    /\ UNCHANGED <<gw, ctx, session, granted>>

\* Mutant: what the transformer returns is dropped.
StageTransformsNothing(c) ==
    /\ AtStage(c)
    /\ "transform" \in Verdicts(session, ctx[c], Here(c))
    /\ frame' = [frame EXCEPT ![c].idx = @ + 1, ![c].final = "transform"]
    /\ NextStage(c)
    /\ UNCHANGED <<gw, ctx, session, granted>>

\* TRANSFORM rewrites ctx.args, so that later stages see the new ones.
StageTransforms(c) ==
    /\ AtStage(c)
    /\ "transform" \in Verdicts(session, ctx[c], Here(c))
    /\ ctx' = [ctx EXCEPT ![c].args = Rewrite[ApprovalKey(ctx[c])]]
    /\ frame' = [frame EXCEPT ![c].idx = @ + 1,
                              ![c].final = "transform"]
    /\ NextStage(c)
    /\ UNCHANGED <<gw, session, granted>>

StageBlocks(c) ==
    /\ AtStage(c)
    /\ \E v \in Verdicts(session, ctx[c], Here(c)) \cap {"deny", "require_approval"} :
          frame' = [frame EXCEPT ![c].final = v]
    /\ Goto(c, "decide")
    /\ Await(c, Here(c))
    /\ UNCHANGED <<gw, ctx, session, granted>>

\* A stage that raises denies; unless the gateway fails closed, or what is raised
\* is a GatewayError, the stage is skipped.
StageRaises(c) ==
    /\ "stage_bug" \in Faults /\ AtStage(c)
    /\ \/ /\ frame' = [frame EXCEPT ![c].final = "deny"]
          /\ Goto(c, "decide") /\ Await(c, Here(c))
       \/ /\ ~gw.fail_closed
          /\ frame' = [frame EXCEPT ![c].idx = @ + 1]
          /\ NextStage(c)
    /\ UNCHANGED <<gw, ctx, session, granted>>

-----------------------------------------------------------------------------
(* before: the decision is audited, then acted upon. *)

\* Mutant: shadow mode still denies.
ShadowOnlyQuestions(c) == gw.dry_run /\ frame[c].final \in {"require_approval", "transform"}
ShadowOnly(c) == gw.dry_run /\ frame[c].final # "allow"

EmitDecision(c) ==
    /\ pc[c] = "decide" /\ Turn(c)
    /\ Goto(c, IF ShadowOnly(c) THEN "shadow" ELSE "commit")
    /\ Await(c, "audit")
    /\ UNCHANGED <<gw, frame, ctx, session, granted>>

\* The finally clause of before_approved, on every way out of before.
WithdrawOneShot(s, c) == [s EXCEPT !.approvals = @ \ frame[c].oneShot]
LeaveBefore(c) == frame' = [frame EXCEPT ![c] = NewFrame]

\* audit.emit raises out of before: the call is not admitted.
EmitDecisionRaises(c) ==
    /\ "sink" \in Faults /\ pc[c] = "decide" /\ Turn(c)
    /\ session' = WithdrawOneShot(session, c)
    /\ LeaveBefore(c) /\ Goto(c, "aborted") /\ FreeLoop
    /\ UNCHANGED <<gw, ctx, granted>>

\* Shadow mode: the original arguments, no reservation and no history entry.
AdmitShadow(c) ==
    /\ pc[c] = "shadow" /\ Turn(c)
    /\ ctx' = [ctx EXCEPT ![c].args = Call[c].args]
    /\ session' = WithdrawOneShot(session, c)
    /\ LeaveBefore(c) /\ Goto(c, "executing") /\ FreeLoop
    /\ UNCHANGED <<gw, granted>>

Deny(c) ==
    /\ pc[c] = "commit" /\ frame[c].final = "deny" /\ Turn(c)
    /\ session' = WithdrawOneShot(session, c)
    /\ LeaveBefore(c) /\ Goto(c, "denied") /\ FreeLoop
    /\ UNCHANGED <<gw, ctx, granted>>

ApprovalId(c) == <<c, frame[c].attempt>>

RequireApproval(c) ==
    /\ pc[c] = "commit" /\ frame[c].final = "require_approval" /\ Turn(c)
    /\ session' = AddPending(WithdrawOneShot(session, c), ApprovalId(c),
                             ApprovalKey(ctx[c]))
    /\ frame' = [frame EXCEPT ![c] = [NewFrame EXCEPT !.attempt = frame[c].attempt]]
    /\ Goto(c, "asked") /\ FreeLoop
    /\ UNCHANGED <<gw, ctx, granted>>

\* reserve, and the caller goes on to run the tool.
Admit(c) ==
    /\ pc[c] = "commit" /\ frame[c].final \in {"allow", "transform"} /\ Turn(c)
    /\ LET r == Reserve(session, ctx[c])
       IN  /\ session' = WithdrawOneShot(r[1], c)
           /\ ctx' = [ctx EXCEPT ![c] = r[2]]
    /\ LeaveBefore(c) /\ Goto(c, "executing") /\ FreeLoop
    /\ UNCHANGED <<gw, granted>>

Before(c) ==
    \/ StageAllows(c) \/ StageTransforms(c) \/ StageBlocks(c) \/ StageRaises(c)
    \/ EmitDecision(c) \/ EmitDecisionRaises(c)
    \/ AdmitShadow(c) \/ Deny(c) \/ RequireApproval(c) \/ Admit(c)

-----------------------------------------------------------------------------
(* Execution, _fail and after. *)

\* Mutant: the after hooks start at the first stage and go down from there.
ToolReturnsForward(c) ==
    /\ pc[c] = "executing" /\ Turn(c)
    /\ frame' = [frame EXCEPT ![c].idx = 1]
    /\ Goto(c, "after") /\ KeepLoop(c)
    /\ UNCHANGED <<gw, ctx, session, granted>>

ToolReturns(c) ==
    /\ pc[c] = "executing" /\ Turn(c)
    /\ frame' = [frame EXCEPT ![c].idx = Len(Stages)]
    /\ Goto(c, "after") /\ KeepLoop(c)
    /\ UNCHANGED <<gw, ctx, session, granted>>

\* Mutants: a failed execution is charged; it keeps its reservation.
FailSettles(c) ==
    /\ pc[c] = "executing" /\ Turn(c)
    /\ LET r == Settle(session, ctx[c])
       IN  session' = r[1] /\ ctx' = [ctx EXCEPT ![c] = r[2]]
    /\ Goto(c, "failed") /\ FreeLoop
    /\ UNCHANGED <<gw, frame, granted>>
FailKeeps(c) ==
    /\ pc[c] = "executing" /\ Turn(c)
    /\ Goto(c, "failed") /\ FreeLoop
    /\ UNCHANGED <<gw, frame, ctx, session, granted>>

\* _fail: release, emit the execution event, re-raise.  Nothing but the
\* emission comes after the release, so it is part of the same step.
Fail(c) ==
    /\ pc[c] = "executing" /\ Turn(c)
    /\ LET r == Release(session, ctx[c])
       IN  session' = r[1] /\ ctx' = [ctx EXCEPT ![c] = r[2]]
    /\ Goto(c, "failed") /\ FreeLoop
    /\ UNCHANGED <<gw, frame, granted>>

ToolRaises(c) == "tool" \in Faults /\ Fail(c)
\* Mutant: no timeout for tools that only read.
ToolTimesOutWriters(c) ==
    /\ "timeout" \in Faults /\ Manifest[ctx[c].tool].timeout_s
    /\ Manifest[ctx[c].tool].side_effect # "read" /\ Fail(c)
ToolTimesOut(c) ==
    "timeout" \in Faults /\ Manifest[ctx[c].tool].timeout_s /\ Fail(c)

\* reversed(self.stages): each after hook sees the result.
AfterHook(c) ==
    /\ pc[c] = "after" /\ frame[c].idx > 0 /\ Turn(c)
    /\ session' = AfterStage(session, ctx[c], Here(c))
    /\ frame' = [frame EXCEPT ![c].idx = @ - 1]
    /\ Await(c, Here(c))
    /\ UNCHANGED <<gw, pc, ctx, granted>>

\* settle, then emit the execution event; nothing but the emission follows, so
\* it is part of the same step.
SettleTo(c, l) ==
    /\ LET r == Settle(session, ctx[c])
       IN  session' = r[1] /\ ctx' = [ctx EXCEPT ![c] = r[2]]
    /\ frame' = [frame EXCEPT ![c] = NewFrame]
    /\ Goto(c, l) /\ FreeLoop
    /\ UNCHANGED <<gw, granted>>

Return(c) ==
    pc[c] = "after" /\ frame[c].idx = 0 /\ Turn(c) /\ SettleTo(c, "returned")

\* The sink raises, or the task is cancelled in the emission: the call is
\* settled, its result reaches nobody.
ReturnRaises(c) ==
    /\ "sink" \in Faults \/ ("cancel" \in Faults /\ "audit" \in Suspending)
    /\ pc[c] = "after" /\ frame[c].idx = 0 /\ Turn(c)
    /\ SettleTo(c, "withheld")

\* Mutant: a call whose result is withheld gets its money back.
OutputGuardRefunds(c) ==
    /\ "output_guard" \in Faults
    /\ pc[c] = "after" /\ frame[c].idx > 0 /\ Turn(c)
    /\ Here(c) = "guardrails"
    /\ LET r == Release(session, ctx[c])
       IN  session' = r[1] /\ ctx' = [ctx EXCEPT ![c] = r[2]]
    /\ frame' = [frame EXCEPT ![c] = NewFrame]
    /\ Goto(c, "withheld") /\ FreeLoop
    /\ UNCHANGED <<gw, granted>>

\* An output guard withholds the result: except GatewayError settles.
OutputGuardRejects(c) ==
    /\ "output_guard" \in Faults
    /\ pc[c] = "after" /\ frame[c].idx > 0 /\ Turn(c)
    /\ Here(c) = "guardrails"
    /\ SettleTo(c, "withheld")

\* Any other exception of an after hook passes through after: no settle, and no
\* release either.
AfterHookRaises(c) ==
    /\ "after_bug" \in Faults
    /\ pc[c] = "after" /\ frame[c].idx > 0 /\ Turn(c)
    /\ frame' = [frame EXCEPT ![c] = NewFrame]
    /\ Goto(c, "uncharged") /\ FreeLoop
    /\ UNCHANGED <<gw, ctx, session, granted>>

\* CancelledError is no Exception: neither call nor after handles it.  It is
\* raised where the coroutine is suspended.
Cancel(c) ==
    /\ "cancel" \in Faults
    /\ loop = NoCall /\ pc[c] \in Evaluating \cup Running
    /\ session' = WithdrawOneShot(session, c)
    /\ LeaveBefore(c)
    /\ Goto(c, CASE pc[c] \in Evaluating -> "aborted"
                 [] pc[c] = "executing" -> "lost"
                 [] OTHER -> "uncharged")
    /\ UNCHANGED <<gw, loop, ctx, granted>>

Finish(c) ==
    \/ ToolReturns(c) \/ ToolRaises(c) \/ ToolTimesOut(c)
    \/ AfterHook(c) \/ Return(c) \/ ReturnRaises(c)
    \/ OutputGuardRejects(c) \/ AfterHookRaises(c)

-----------------------------------------------------------------------------
(* The host: answers to a question, and the passing of time. *)

\* Mutant: the key is withdrawn even when a human had granted it before.
ApproveOnceWithdraws(c) ==
    /\ pc[c] = "asked" /\ loop = NoCall /\ frame[c].attempt < MaxAttempts
    /\ LET key == ApprovalKey(ctx[c])
       IN  /\ frame' = [frame EXCEPT ![c] =
                          [idx |-> 1, final |-> "allow", attempt |-> @.attempt + 1,
                           oneShot |-> {key}]]
           /\ session' = [session EXCEPT !.approvals = @ \cup {key}]
    /\ Goto(c, "before") /\ KeepLoop(c)
    /\ UNCHANGED <<gw, ctx, granted>>

\* before_approved: the host approved exactly this call; its key is in the
\* approvals while before runs again on the same context.
ApproveOnce(c) ==
    /\ pc[c] = "asked" /\ loop = NoCall /\ frame[c].attempt < MaxAttempts
    /\ LET key == ApprovalKey(ctx[c])
       IN  /\ frame' = [frame EXCEPT ![c] =
                          [idx |-> 1, final |-> "allow", attempt |-> @.attempt + 1,
                           oneShot |-> {key} \ session.approvals]]
           /\ session' = [session EXCEPT !.approvals = @ \cup {key}]
    /\ Goto(c, "before") /\ KeepLoop(c)
    /\ UNCHANGED <<gw, ctx, granted>>

\* The agent issues the call again: a new context, the original arguments.
Reissue(c) ==
    /\ pc[c] = "asked" /\ loop = NoCall /\ frame[c].attempt < MaxAttempts
    /\ ctx' = [ctx EXCEPT ![c] = NewContext(Call[c])]
    /\ frame' = [frame EXCEPT ![c] =
                   [idx |-> 1, final |-> "allow", attempt |-> @.attempt + 1,
                    oneShot |-> {}]]
    /\ Goto(c, "before") /\ KeepLoop(c)
    /\ UNCHANGED <<gw, session, granted>>

\* grant_approval: a human approves the key, or the tool with any arguments.
GrantApproval(c) ==
    /\ pc[c] = "asked" /\ loop = NoCall
    /\ \E key \in {ApprovalKey(ctx[c]), WildcardKey(ctx[c])} :
          /\ session' = [session EXCEPT !.approvals = @ \cup {key}]
          /\ granted' = granted \cup {key}
    /\ UNCHANGED <<gw, loop, pc, frame, ctx>>

\* grant_approval_by_id, for an id that is known.
GrantApprovalById ==
    /\ loop = NoCall
    /\ \E i \in DOMAIN session.pending :
          /\ session' = RedeemPending(session, i)
          /\ granted' = granted \cup {session.pending[i].key}
    /\ UNCHANGED <<gw, loop, pc, frame, ctx>>

\* The host calls clear_taint after a human reviewed the content.
ClearTaint ==
    /\ loop = NoCall /\ session.tainted
    /\ session' = [session EXCEPT !.tainted = FALSE]
    /\ UNCHANGED <<gw, loop, pc, frame, ctx, granted>>

\* The oldest call the loop detector counts is now older than window_s.
WindowPasses ==
    /\ session.stale < Len(session.recent)
    /\ session' = [session EXCEPT !.stale = @ + 1]
    /\ UNCHANGED <<gw, loop, pc, frame, ctx, granted>>

Host == GrantApprovalById \/ ClearTaint \/ WindowPasses

Terminated == loop = NoCall /\ \A c \in Calls : pc[c] \in Finished
Quiet == Terminated /\ UNCHANGED vars

Next ==
    \/ \E c \in Calls : \/ Start(c) \/ Before(c) \/ Finish(c) \/ Cancel(c)
                        \/ ApproveOnce(c) \/ Reissue(c) \/ GrantApproval(c)
    \/ Host
    \/ Quiet

Spec == Init /\ [][Next]_vars

\* The loop runs every ready coroutine in turn, and timers fire; a tool need
\* never return, a human never answer, an agent never issue a call.
Progress(c) == Before(c) \/ ToolTimesOut(c) \/ AfterHook(c) \/ Return(c)
FairSpec == Spec /\ \A c \in Calls : WF_vars(Progress(c))

-----------------------------------------------------------------------------
(* What the gateway promises. *)

Enforces == ~gw.dry_run /\ gw.fail_closed

\* The configurations in which check and reservation are one step of the event
\* loop: a budget stage, and no await that suspends from it to the decision.
AtomicLimits ==
    /\ \E i \in DOMAIN Stages : Stages[i] = "budget"
    /\ \A i, j \in DOMAIN Stages :
          Stages[i] = "budget" /\ j >= i => Stages[j] \notin Suspending
    /\ "audit" \notin Suspending

\* Budget accounting is two-phase so that concurrent calls cannot overshoot
\* the session budget (pipeline.py, BudgetStage): what was spent and what the
\* calls in flight may still cost stay within the limit, whatever the order in
\* which calls are evaluated, fail, time out or are cancelled.
BudgetNeverOvershoots ==
    Enforces /\ BudgetLimit # NoLimit
        => session.used + session.reserved <= BudgetLimit

\* The money a call holds, one element per cent.
HeldBy(c) == {c} \X (1..ctx[c].reserved)
HeldCents == UNION {HeldBy(c) : c \in Calls}

\* budget_reserved_usd is exactly what the contexts' metadata still hold: no
\* path releases a reservation twice, or settles one without giving it back.
ReservedIsHeld == session.reserved = Cardinality(HeldCents)

\* The calls whose tool ran to its end, and those for which after came to its end.
Completed == {c \in Calls : pc[c] \in {"after", "returned", "withheld", "uncharged"}}
Charged == {c \in Calls : pc[c] \in {"returned", "withheld"}}

CostOfCalls(cs) == Cardinality(UNION {{c} \X (1..Cost(ctx[c])) : c \in cs})

\* budget_used_usd is the cost of the calls for which after came to its end, each
\* charged once, whether or not its result was delivered, in every mode.  A call
\* whose tool ran and that is not charged, or not yet, still has its cost reserved
\* (in shadow mode alone it may never have reserved any): no path frees the money
\* of a tool that ran.  The charge itself may be missing for ever: a call is left
\* uncharged when an after hook raises what is no GatewayError, or by cancellation.
SpendIsCharged ==
    /\ session.used = CostOfCalls(Charged)
    /\ ~gw.dry_run =>
          \A c \in Completed \ Charged : ctx[c].reserved = Cost(ctx[c])

\* LoopDetectStage: within the window no call is let through more often than
\* max_repeats times, though the detector only reads what reserve, several
\* stages and awaits later, writes.
LoopBound ==
    Enforces => \A key \in Tools \X Args :
                    Cardinality(Repeats(session, key)) <= MaxRepeats

\* Whether somebody has to approve call c as it now stands.
NeedsApproval(c) ==
    \/ frame[c].final = "allow" /\ Policy[ApprovalKey(ctx[c])] = "require_approval"
    \/ TaintGates(session, ctx[c]) /\ RequireApprovalWhenTainted
    \/ RiskScore(session, ctx[c]) >= ApprovalThreshold

\* The approvals call c may use: not those given to another call only.
OwnApprovals(c) ==
    session.approvals \ UNION {frame[d].oneShot : d \in Calls \ {c}}

\* When the tool is let run, the state of that very moment (taint, risk, the
\* rewritten arguments) needs no approval, or a human gave one that covers it,
\* for the session or for this call; an approval of another call does not do.
AdmittedOnlyIfApproved ==
    [][\A c \in Calls :
          Enforces /\ pc[c] = "commit" /\ pc'[c] = "executing" /\ NeedsApproval(c)
              => {ApprovalKey(ctx[c]), WildcardKey(ctx[c])} \cap OwnApprovals(c) # {}]_vars

\* before_approved gives an approval to one call and takes it back: the
\* session's approvals are what humans granted, plus the key of the call being
\* evaluated, on every way out of before, and no grant gets lost.
ApprovalsAreGrants ==
    /\ session.approvals = granted \cup UNION {frame[c].oneShot : c \in Calls}
    /\ \A c \in Calls : frame[c].oneShot # {} => pc[c] \in Evaluating

\* A human can answer every question by its id, for exactly the arguments the
\* stages saw: a question asked is listed with the key of its call, and leaves
\* the list when its key is granted, or as the oldest of a full list to which
\* another question is added; answers to other questions leave it alone.
Asks(c) == pc[c] # "asked" /\ pc'[c] = "asked"
Questions == {session.pending[i] : i \in DOMAIN session.pending}
QuestionsRedeemable ==
    [][/\ \A c \in Calls : Asks(c) =>
            [id |-> ApprovalId(c), key |-> ApprovalKey(ctx[c])] \in Questions'
       /\ \A i \in DOMAIN session.pending :
            \/ session.pending[i] \in Questions'
            \/ session.pending[i].key \in granted'
            \/ i = 1 /\ Len(session.pending) = MaxPending /\ \E c \in Calls : Asks(c)]_vars

\* dry_run enforces nothing, not even rewrites: no decision of the stages denies a
\* call or asks about it, and every call runs with the arguments it came with.
ShadowEnforcesNothing ==
    gw.dry_run => \A c \in Calls :
        /\ pc[c] \notin {"asked", "denied"}
        /\ pc[c] \in Running => ctx[c].args = Call[c].args

\* Tool output is untrusted input: when the result of a reaches_untrusted tool
\* gets back to the agent the session is tainted already.
TaintBeforeResult ==
    [][\A c \in Calls :
          pc[c] = "after" /\ pc'[c] = "returned" /\ Manifest[ctx[c].tool].reaches_untrusted
              => session.tainted]_vars

\* A context of call c with arguments a, as an evaluation may begin with it: those
\* it was issued with the first time, those asked about after before_approved.
Fresh(c, a) == [NewContext(Call[c]) EXCEPT !.args = a]
BeganWith(c, a) ==
    /\ frame[c].attempt = 1 => a = Call[c].args
    /\ frame[c].oneShot # {} => frame[c].oneShot = {<<Call[c].tool, a>>}

\* The decision of c takes effect; one that denies may come from a stage that raised.
Decided(c) ==
    /\ pc[c] = "commit"
    /\ pc'[c] \in {"executing", "asked"} \/ (pc'[c] = "denied" /\ "stage_bug" \notin Faults)

\* What the adapters' modules take before, before_approved and after for: as long as
\* no call has left the detector's window, what the coroutines of an enforcing gateway
\* come to, over all their awaits, is what the operators of GatewayStep say.
PipelineIsOneStep ==
    [][\A c \in Calls : Enforces =>
        /\ Decided(c) /\ session.stale = 0 =>
              \E a \in Args :
                 /\ BeganWith(c, a)
                 /\ [session |-> session', ctx |-> ctx'[c], decision |-> frame[c].final] \in
                       IF frame[c].oneShot = {}
                         THEN BeforeOutcomes(session, Fresh(c, a), ApprovalId(c))
                         ELSE BeforeApproved(WithdrawOneShot(session, c), Fresh(c, a), ApprovalId(c))
        /\ pc[c] = "after" /\ pc'[c] \in {"returned", "withheld"} =>
              session' \in AfterOutcomes(session, ctx[c])
        /\ pc[c] = "after" /\ pc'[c] = "uncharged" =>
              session' \in AfterRaised(session, ctx[c])]_vars

\* Where the ledger sees the money of each call.
Holding == Running \cup {"lost", "uncharged"}
Account(c) ==
    CASE pc[c] \in Holding -> "held"
      [] pc[c] \in {"returned", "withheld"} -> "charged"
      [] pc[c] = "failed" -> "released"
      [] OTHER -> "closed"

Ledger == INSTANCE BudgetLedger WITH
    Price   <- [c \in Calls |-> Manifest[Call[c].tool].cost_usd],
    Limit   <- BudgetLimit,
    account <- [c \in Calls |-> Account(c)],
    spent   <- session.used,
    held    <- session.reserved

\* Check, awaits and reservation together act as one atomic step of the
\* ledger: no other call's money comes in between.
ImplementsLedger == Ledger!LedgerSpec

\* A call that began to be evaluated comes to an end, and so does one whose
\* tool hangs, provided it has a timeout.
CallsEnd ==
    \A c \in Calls : pc[c] \in Evaluating \cup Running ~> pc[c] \in Finished

\* Money reserved is given back or spent in the end, so that the budget is not
\* eaten up by calls that are over.
ReservationsDrain == session.reserved > 0 ~> session.reserved = 0

\* The same as a state property: when all calls are over, nothing is reserved.
NothingReservedAtTheEnd == Terminated => session.reserved = 0
=============================================================================
