----------------------- MODULE GatewaySession_proofs ------------------------
(***************************************************************************)
(* Proofs about the other parts of a session: what it spent, what it       *)
(* approved, what shadow mode leaves alone.                                *)
(***************************************************************************)
EXTENDS GatewayBudget_proofs

-----------------------------------------------------------------------------
(* What is spent was charged. *)

SpentOn(c) == {c} \X (1..Cost(ctx[c]))
SpentCents == UNION {SpentOn(c) : c \in Charged}

\* The steps that release or settle.
EndsExecution(c) == \/ ToolRaises(c) \/ ToolTimesOut(c)
                    \/ Return(c) \/ ReturnRaises(c) \/ OutputGuardRejects(c)

SpendInv == HoldInv /\ IsFiniteSet(SpentCents) /\ session.used = Cardinality(SpentCents)

LEMMA SpentCount ==
  ASSUME TypeOK, NEW c \in Calls
  PROVE  /\ IsFiniteSet(SpentOn(c)) /\ Cardinality(SpentOn(c)) = Cost(ctx[c])
         /\ Cost(ctx[c]) \in Nat
  <1>1. Cost(ctx[c]) \in Nat
    BY CostType DEF TypeOK
  <1> QED BY <1>1, CentsCount DEF SpentOn

\* A step of one call changes what is spent only if it charges that call.
LEMMA SpentChange ==
  ASSUME TypeOK, IsFiniteSet(SpentCents), NEW c \in Calls, OthersStay(c),
         ctx'[c].tool = ctx[c].tool
  PROVE  /\ (c \in Charged <=> c \in Charged') => SpentCents' = SpentCents
         /\ c \notin Charged /\ c \in Charged' =>
               /\ IsFiniteSet(SpentCents)'
               /\ Cardinality(SpentCents)' = Cardinality(SpentCents) + Cost(ctx[c])
  <1>1. \A d \in Calls : SpentOn(d)' = SpentOn(d)
    <2> SUFFICES ASSUME NEW d \in Calls PROVE SpentOn(d)' = SpentOn(d)
      OBVIOUS
    <2>1. ctx'[d].tool = ctx[d].tool
      BY DEF OthersStay
    <2> QED BY <2>1 DEF SpentOn, Cost
  <1>2. \A d \in Calls \ {c} : d \in Charged' <=> d \in Charged
    BY DEF Charged, OthersStay
  <1>3. \A e : e \in SpentCents <=> \E d \in Calls : d \in Charged /\ e \in SpentOn(d)
    BY DEF SpentCents, Charged
  <1>4. \A e : e \in SpentCents' <=> \E d \in Calls : d \in Charged' /\ e \in SpentOn(d)'
    BY DEF SpentCents, Charged
  <1>5. ASSUME c \in Charged <=> c \in Charged' PROVE SpentCents' = SpentCents
    <2>1. \A d \in Calls : d \in Charged' <=> d \in Charged
      BY <1>2, <1>5
    <2>2. \A e : e \in SpentCents' <=> e \in SpentCents
      BY <1>1, <1>3, <1>4, <2>1
    <2>3. SpentCents = UNION {SpentOn(d) : d \in Charged}
          /\ SpentCents' = UNION {SpentOn(d)' : d \in Charged'}
      BY DEF SpentCents
    <2> QED BY <2>2, <2>3
  <1>6. ASSUME c \notin Charged, c \in Charged'
        PROVE  /\ IsFiniteSet(SpentCents)'
               /\ Cardinality(SpentCents)' = Cardinality(SpentCents) + Cost(ctx[c])
    <2> DEFINE S == SpentCents
               B == SpentOn(c)
    <2>1. SpentCents' = S \cup B
      <3>1. \A e : e \in SpentCents' <=> e \in S \/ e \in B
        BY <1>1, <1>2, <1>3, <1>4, <1>6
      <3>2. SpentCents' = UNION {SpentOn(d)' : d \in Charged'}
        BY DEF SpentCents
      <3> QED BY <3>1, <3>2
    <2>2. S \cap B = {}
      <3> SUFFICES ASSUME NEW e \in B, e \in S PROVE FALSE
        OBVIOUS
      <3>1. PICK d \in Calls : d \in Charged /\ e \in SpentOn(d)
        BY <1>3
      <3>2. e[1] = c /\ e[1] = d
        BY <3>1 DEF SpentOn
      <3> QED BY <1>6, <3>1, <3>2
    <2>3. IsFiniteSet(B) /\ Cardinality(B) = Cost(ctx[c]) /\ Cost(ctx[c]) \in Nat
      BY SpentCount
    <2> HIDE DEF S, B
    <2>4. IsFiniteSet(S) /\ Cardinality(S) \in Nat
      BY FS_CardinalityType DEF S
    <2>5. /\ IsFiniteSet(S \cup B)
          /\ Cardinality(S \cup B) = Cardinality(S) + Cardinality(B) - Cardinality(S \cap B)
      BY <2>3, <2>4, FS_Union
    <2>6. Cardinality(S \cap B) = 0
      BY <2>2, FS_EmptySet
    <2>7. Cardinality(S \cup B) = Cardinality(S) + Cost(ctx[c])
      BY <2>3, <2>4, <2>5, <2>6
    <2> QED BY <2>1, <2>5, <2>7 DEF S
  <1> QED BY <1>5, <1>6

\* Only the ends of after charge a call, or let it be one that is charged.
LEMMA ChargedAtTheEnd ==
  ASSUME TypeOK, NEW c \in Calls, CallStep(c), ~EndsExecution(c)
  PROVE  c \in Charged <=> c \in Charged'
  <1> USE DEF TypeOK, Goto, Charged
  <1>1. CASE StageAllows(c) \/ StageTransforms(c) \/ StageBlocks(c) \/ StageRaises(c)
    BY <1>1 DEF StageAllows, StageTransforms, StageBlocks, StageRaises, NextStage, AtStage
  <1>2. CASE \/ EmitDecision(c) \/ EmitDecisionRaises(c) \/ AdmitShadow(c)
             \/ Deny(c) \/ RequireApproval(c) \/ Admit(c)
    BY <1>2 DEF EmitDecision, EmitDecisionRaises, AdmitShadow, Deny, RequireApproval, Admit
  <1>3. CASE \/ ToolReturns(c) \/ AfterHook(c) \/ AfterHookRaises(c) \/ Cancel(c)
    BY <1>3 DEF ToolReturns, AfterHook, AfterHookRaises, Cancel, Evaluating, Running
  <1>4. CASE Start(c) \/ ApproveOnce(c) \/ Reissue(c) \/ GrantApproval(c)
    BY <1>4 DEF Start, ApproveOnce, Reissue, GrantApproval
  <1> QED BY <1>1, <1>2, <1>3, <1>4 DEF CallStep, Before, Finish, EndsExecution

LEMMA SpendStep ==
  ASSUME SpendInv, NEW c \in Calls, CallStep(c)
  PROVE  SpendInv'
  <1>1. /\ HoldInv /\ HoldInv' /\ TypeOK /\ OthersStay(c)
        /\ IsFiniteSet(SpentCents) /\ session.used = Cardinality(SpentCents)
    BY HoldStep, StepsOfOneCall DEF SpendInv, HoldInv, SpentCents, SpentOn
  <1>2. CASE ~EndsExecution(c)
    <2>1. session'.used = session.used /\ ctx'[c].tool = ctx[c].tool
      BY <1>1, <1>2, CallStepKinds, AdmitMoney DEF MoneyKept, EndsExecution
    <2>2. c \in Charged <=> c \in Charged'
      BY <1>1, <1>2, ChargedAtTheEnd
    <2>3. SpentCents' = SpentCents
      BY <1>1, <2>1, <2>2, SpentChange
    <2> QED BY <1>1, <2>1, <2>3 DEF SpendInv, SpentCents, SpentOn
  <1>3. CASE EndsExecution(c)
    <2>1. /\ pc[c] \in Running /\ ctx'[c].tool = ctx[c].tool
          /\ \/ pc'[c] = "failed" /\ session'.used = session.used
             \/ pc'[c] \in {"returned", "withheld"}
                  /\ session'.used = session.used + Cost(ctx[c])
      BY <1>1, <1>3, EndMoney DEF EndsExecution
    <2>2. c \notin Charged
      BY <2>1 DEF Charged, Running
    <2>3. CASE pc'[c] = "failed"
      <3>1. c \notin Charged' /\ session'.used = session.used
        BY <2>1, <2>3 DEF Charged
      <3>2. SpentCents' = SpentCents
        BY <1>1, <2>1, <2>2, <3>1, SpentChange
      <3> QED BY <1>1, <3>1, <3>2 DEF SpendInv, SpentCents, SpentOn
    <2>4. CASE pc'[c] \in {"returned", "withheld"}
      <3>1. c \in Charged' /\ session'.used = session.used + Cost(ctx[c])
        BY <2>1, <2>4 DEF Charged
      <3> QED BY <1>1, <2>1, <2>2, <3>1, SpentChange
            DEF SpendInv, SpentCents, SpentOn
    <2> QED BY <2>1, <2>3, <2>4
  <1> QED BY <1>2, <1>3

LEMMA SpendInductive == SpendInv /\ [Next]_vars => SpendInv'
  <1> SUFFICES ASSUME SpendInv, [Next]_vars PROVE SpendInv'
    OBVIOUS
  <1>1. ASSUME NEW c \in Calls, CallStep(c) PROVE SpendInv'
    BY <1>1, SpendStep
  <1>2. CASE Host \/ Quiet \/ UNCHANGED vars
    <2>1. HoldInv' /\ UNCHANGED <<pc, ctx>> /\ session'.used = session.used
      BY <1>2, HoldInductive, HostKeepsMoney DEF SpendInv, HoldInv
    <2> QED BY <2>1 DEF SpendInv, SpentCents, SpentOn, Charged, Cost
  <1> QED BY <1>1, <1>2 DEF Next, CallStep

LEMMA SpendInitially == Init => SpendInv
  <1> SUFFICES ASSUME Init PROVE SpendInv
    OBVIOUS
  <1>1. HoldInv
    BY HoldInitially
  <1>2. Charged = {}
    BY DEF Init, Charged
  <1>3. SpentCents = {} /\ session.used = 0
    BY <1>2 DEF SpentCents, Init, NewSession
  <1> QED BY <1>1, <1>3, FS_EmptySet DEF SpendInv, SpentCents, SpentOn

\* For any number of calls, in every mode, whatever suspends, fails, times out or is
\* cancelled: budget_used_usd is the cost of the calls for which after came to its
\* end, each charged once.  A tool that ran and is not charged, or not yet, still has
\* its cost reserved, but for shadow mode.
THEOREM MoneySpentIsCharged == Spec => []SpendIsCharged
  <1>1. SpendInv => SpendIsCharged
    <2> SUFFICES ASSUME SpendInv PROVE SpendIsCharged
      OBVIOUS
    <2>1. session.used = CostOfCalls(Charged)
      BY DEF SpendInv, CostOfCalls, SpentCents, SpentOn
    <2>2. ASSUME ~gw.dry_run, NEW c \in Completed \ Charged
          PROVE  ctx[c].reserved = Cost(ctx[c])
      <3>1. c \in Calls /\ pc[c] \in Holding
        BY DEF Completed, Charged, Holding, Running
      <3> QED BY <2>2, <3>1 DEF SpendInv, HoldInv, FullyHeld
    <2> QED BY <2>1, <2>2 DEF SpendIsCharged
  <1> QED BY <1>1, SpendInitially, SpendInductive, PTL DEF Spec
-----------------------------------------------------------------------------
(* What the accounting and the hooks leave alone. *)

LEMMA AccountingKeeps ==
  ASSUME NEW s, Bounded(s), NEW x \in ContextType
  PROVE  LET Kept(t) == /\ t.approvals = s.approvals /\ t.pending = s.pending
                        /\ t.tainted = s.tainted
         IN  /\ Kept(Reserve(s, x)[1]) /\ Bounded(Reserve(s, x)[1])
             /\ Kept(Release(s, x)[1]) /\ Kept(Settle(s, x)[1])
             /\ \A st : /\ AfterStage(s, x, st).approvals = s.approvals
                         /\ AfterStage(s, x, st).pending = s.pending
  <1>1. s \in SessionType
    BY DEF Bounded
  <1> DEFINE Kept(t) == /\ t.approvals = s.approvals /\ t.pending = s.pending
                        /\ t.tainted = s.tainted
             h == RecordCall(s, x)
             g == Release(s, x)[1]
  <1>2. Kept(h) /\ h \in SessionType
    BY <1>1, RecordCallType DEF RecordCall, SessionType, Bounded
  <1>3. Kept(g) /\ g \in SessionType
    <2>1. g \in SessionType
      BY ReleaseType DEF Bounded
    <2>2. g = [s EXCEPT !.reserved = IF @ > x.reserved THEN @ - x.reserved ELSE 0]
      BY DEF Release
    <2> QED BY <1>1, <2>1, <2>2 DEF SessionType
  <1> HIDE DEF h, g
  <1>4. \A n : Kept([h EXCEPT !.reserved = n]) /\ Kept([g EXCEPT !.used = n])
    BY <1>2, <1>3 DEF SessionType
  <1>5. Kept(Reserve(s, x)[1])
    <2>1. \/ Reserve(s, x)[1] = h
          \/ \E n : Reserve(s, x)[1] = [h EXCEPT !.reserved = n]
      BY DEF Reserve, h
    <2> QED BY <1>2, <1>4, <2>1
  <1>6. Kept(Settle(s, x)[1])
    <2>1. \E n : Settle(s, x)[1] = [g EXCEPT !.used = n]
      BY DEF Settle, g
    <2> QED BY <1>4, <2>1
  <1>7. \A st : /\ AfterStage(s, x, st).approvals = s.approvals
                /\ AfterStage(s, x, st).pending = s.pending
    BY <1>1 DEF AfterStage, SessionType
  <1>8. Bounded(Reserve(s, x)[1])
    BY ReserveType
  <1> QED BY <1>3, <1>5, <1>6, <1>7, <1>8 DEF g

LEMMA WithdrawKeeps ==
  ASSUME NEW s, Bounded(s), NEW c
  PROVE  /\ WithdrawOneShot(s, c).approvals = s.approvals \ frame[c].oneShot
         /\ WithdrawOneShot(s, c).pending = s.pending
         /\ WithdrawOneShot(s, c).tainted = s.tainted
  BY DEF WithdrawOneShot, Bounded, SessionType

LEMMA AccountingArgs ==
  ASSUME NEW s, NEW x \in ContextType
  PROVE  /\ Reserve(s, x)[2].args = x.args /\ Reserve(s, x)[2].tool = x.tool
  <1>1. \A n : [x EXCEPT !.reserved = n].args = x.args
               /\ [x EXCEPT !.reserved = n].tool = x.tool
    BY DEF ContextType
  <1>2. \/ Reserve(s, x)[2] = x
        \/ \E n : Reserve(s, x)[2] = [x EXCEPT !.reserved = n]
    BY DEF Reserve
  <1> QED BY <1>1, <1>2

-----------------------------------------------------------------------------
(* Where nothing suspends, evaluating a call and its after hooks are sections *)
(* of the event loop that no other call and no human enters.                  *)

HasLoop(c) == pc[c] \in Evaluating \cup {"after"}
SectionInv == TypeOK /\ \A c \in Calls : HasLoop(c) => loop = c

LEMMA SectionStep ==
  ASSUME Suspending = {}, SectionInv, NEW c \in Calls, CallStep(c)
  PROVE  /\ SectionInv'
         /\ \A d \in Calls \ {c} : ~HasLoop(d) /\ ~HasLoop(d)'
  <1>1. TypeOK /\ TypeOK' /\ OthersStay(c) /\ Turn(c)
    BY CallStepType, StepsOfOneCall DEF SectionInv
  <1>2. \A d \in Calls \ {c} : ~HasLoop(d) /\ ~HasLoop(d)'
    BY <1>1, GatewayAssumption DEF SectionInv, Turn, OthersStay, HasLoop
  <1>3. HasLoop(c)' => loop' = c
    <2> USE <1>1 DEF TypeOK, Goto, HasLoop, Evaluating, Await, KeepLoop
    <2>1. CASE StageAllows(c) \/ StageTransforms(c) \/ StageBlocks(c) \/ StageRaises(c)
      BY <2>1 DEF StageAllows, StageTransforms, StageBlocks, StageRaises, NextStage
    <2>2. CASE \/ EmitDecision(c) \/ EmitDecisionRaises(c) \/ AdmitShadow(c)
               \/ Deny(c) \/ RequireApproval(c) \/ Admit(c)
      BY <2>2 DEF EmitDecision, EmitDecisionRaises, AdmitShadow, Deny, RequireApproval, Admit
    <2>3. CASE ToolReturns(c) \/ ToolRaises(c) \/ ToolTimesOut(c) \/ AfterHook(c)
      BY <2>3 DEF ToolReturns, ToolRaises, ToolTimesOut, Fail, AfterHook
    <2>4. CASE \/ Return(c) \/ ReturnRaises(c) \/ OutputGuardRejects(c)
               \/ AfterHookRaises(c) \/ Cancel(c)
      BY <2>4 DEF Return, ReturnRaises, OutputGuardRejects, SettleTo, AfterHookRaises, Cancel
    <2>5. CASE Start(c) \/ ApproveOnce(c) \/ Reissue(c) \/ GrantApproval(c)
      BY <2>5 DEF Start, ApproveOnce, Reissue, GrantApproval
    <2> QED BY <2>1, <2>2, <2>3, <2>4, <2>5 DEF CallStep, Before, Finish
  <1> QED BY <1>1, <1>2, <1>3 DEF SectionInv

LEMMA SectionInductive == Suspending = {} /\ SectionInv /\ [Next]_vars => SectionInv'
  <1> SUFFICES ASSUME Suspending = {}, SectionInv, [Next]_vars PROVE SectionInv'
    OBVIOUS
  <1>1. ASSUME NEW c \in Calls, CallStep(c) PROVE SectionInv'
    BY <1>1, SectionStep
  <1>2. CASE Host \/ Quiet \/ UNCHANGED vars
    <2>1. TypeOK' /\ UNCHANGED <<loop, pc>>
      BY <1>2, SessionTypeOK, HostKeepsMoney DEF SectionInv
    <2> QED BY <2>1 DEF SectionInv, HasLoop
  <1> QED BY <1>1, <1>2 DEF Next, CallStep

LEMMA SectionInitially == Init => SectionInv
  <1> SUFFICES ASSUME Init PROVE SectionInv
    OBVIOUS
  <1>1. TypeOK
    BY InitTypeOK
  <1>2. \A c \in Calls : pc[c] = "idle"
    BY DEF Init
  <1> QED BY <1>1, <1>2 DEF SectionInv, HasLoop, Evaluating

-----------------------------------------------------------------------------
(* Approvals. *)

\* A key given to one call is none that a human granted for the session.
ApprovalInv ==
    /\ SectionInv
    /\ ApprovalsAreGrants
    /\ \A c \in Calls : frame[c].oneShot \cap granted = {}

\* The keys given to single calls are those of the call whose step it is.
LEMMA OnlyOwnOneShot ==
  ASSUME Suspending = {}, ApprovalInv, NEW c \in Calls, CallStep(c)
  PROVE  /\ session.approvals = granted \cup frame[c].oneShot
         /\ frame[c].oneShot # {} => pc[c] \in Evaluating
         /\ frame[c].oneShot \cap granted = {}
         /\ \A d \in Calls \ {c} : frame[d].oneShot = {} /\ frame'[d].oneShot = {}
  <1>1. \A d \in Calls \ {c} : ~HasLoop(d)
    BY SectionStep DEF ApprovalInv
  <1>2. \A d \in Calls : frame[d].oneShot # {} => HasLoop(d)
    BY DEF ApprovalInv, ApprovalsAreGrants, HasLoop
  <1>3. \A d \in Calls \ {c} : frame[d].oneShot = {}
    BY <1>1, <1>2
  <1>4. \A d \in Calls \ {c} : frame'[d].oneShot = {}
    BY <1>3, StepsOfOneCall DEF OthersStay, ApprovalInv, SectionInv
  <1>5. UNION {frame[d].oneShot : d \in Calls} = frame[c].oneShot
    BY <1>3
  <1> QED BY <1>3, <1>4, <1>5 DEF ApprovalInv, ApprovalsAreGrants

LEMMA ApprovalStep ==
  ASSUME Suspending = {}, ApprovalInv, NEW c \in Calls, CallStep(c),
         session'.approvals = granted' \cup frame'[c].oneShot,
         frame'[c].oneShot \cap granted' = {},
         frame'[c].oneShot # {} => pc'[c] \in Evaluating
  PROVE  ApprovalInv'
  <1>1. SectionInv' /\ \A d \in Calls \ {c} : frame'[d].oneShot = {}
    BY SectionStep, OnlyOwnOneShot DEF ApprovalInv
  <1>2. UNION {frame'[d].oneShot : d \in Calls} = frame'[c].oneShot
    BY <1>1
  <1>3. ApprovalsAreGrants'
    BY <1>1, <1>2 DEF ApprovalsAreGrants
  <1>4. \A d \in Calls : frame'[d].oneShot \cap granted' = {}
    BY <1>1
  <1> QED BY <1>1, <1>3, <1>4 DEF ApprovalInv

LEMMA ApprovalCallStep ==
  ASSUME Suspending = {}, ApprovalInv, NEW c \in Calls, CallStep(c)
  PROVE  ApprovalInv'
  <1> DEFINE own == frame[c].oneShot
  <1>1. /\ TypeOK /\ Bounded(session) /\ session \in SessionType
        /\ frame[c] \in FrameType /\ ctx[c] \in ContextType
        /\ frame \in [Calls -> FrameType] /\ pc \in [Calls -> Locations]
    BY CurrentTypes DEF ApprovalInv, SectionInv, Bounded, TypeOK
  <1>2. /\ session.approvals = granted \cup own
        /\ own # {} => pc[c] \in Evaluating
        /\ own \cap granted = {}
    BY OnlyOwnOneShot
  <1>3. session.approvals \ own = granted
    BY <1>2
  <1>4. WithdrawOneShot(session, c).approvals = granted
    BY <1>1, <1>3, WithdrawKeeps
  <1>5. NewFrame.oneShot = {} /\ [NewFrame EXCEPT !.attempt = frame[c].attempt].oneShot = {}
    BY DEF NewFrame
  <1>6. CASE StageAllows(c) \/ StageTransforms(c) \/ StageBlocks(c) \/ StageRaises(c)
    <2>1. session' = session /\ granted' = granted
      BY <1>6 DEF StageAllows, StageTransforms, StageBlocks, StageRaises
    <2>2. frame'[c].oneShot = own
      BY <1>1, <1>6 DEF StageAllows, StageTransforms, StageBlocks, StageRaises, FrameType
    <2>3. pc'[c] \in Evaluating
      BY <1>1, <1>6 DEF StageAllows, StageTransforms, StageBlocks, StageRaises, NextStage,
                        Goto, Evaluating
    <2> QED BY <1>2, <2>1, <2>2, <2>3, ApprovalStep
  <1>7. CASE EmitDecision(c)
    <2>1. session' = session /\ granted' = granted /\ frame' = frame
          /\ pc'[c] \in Evaluating
      BY <1>1, <1>7 DEF EmitDecision, Goto, Evaluating
    <2> QED BY <1>2, <2>1, ApprovalStep
  <1>8. CASE EmitDecisionRaises(c) \/ AdmitShadow(c) \/ Deny(c)
    <2>1. session' = WithdrawOneShot(session, c) /\ granted' = granted
          /\ frame'[c] = NewFrame
      BY <1>1, <1>8 DEF EmitDecisionRaises, AdmitShadow, Deny, LeaveBefore
    <2> QED BY <1>4, <1>5, <2>1, ApprovalStep
  <1>9. CASE RequireApproval(c)
    <2> DEFINE w == WithdrawOneShot(session, c)
    <2>1. /\ session' = AddPending(w, ApprovalId(c), ApprovalKey(ctx[c]))
          /\ granted' = granted
          /\ frame'[c] = [NewFrame EXCEPT !.attempt = frame[c].attempt]
      BY <1>1, <1>9 DEF RequireApproval
    <2>2. w \in SessionType
      BY <1>1, WithdrawType DEF Bounded
    <2> HIDE DEF w
    <2>3. session'.approvals = w.approvals
      BY <2>1, <2>2 DEF AddPending, SessionType
    <2> QED BY <1>4, <1>5, <2>1, <2>3, ApprovalStep DEF w
  <1>10. CASE Admit(c)
    <2> DEFINE r == Reserve(session, ctx[c])[1]
    <2>1. session' = WithdrawOneShot(r, c) /\ granted' = granted
          /\ frame'[c] = NewFrame
      BY <1>1, <1>10 DEF Admit, LeaveBefore
    <2>2. r.approvals = session.approvals /\ Bounded(r)
      BY <1>1, AccountingKeeps
    <2> HIDE DEF r
    <2>3. WithdrawOneShot(r, c).approvals = r.approvals \ own
      BY <2>2, WithdrawKeeps
    <2>4. session'.approvals = granted
      BY <1>3, <2>1, <2>2, <2>3
    <2> QED BY <1>5, <2>1, <2>4, ApprovalStep
  <1>11. CASE Finish(c)
    <2>1. pc[c] \in Running /\ granted' = granted
      BY <1>11 DEF Finish, ToolReturns, ToolRaises, ToolTimesOut, Fail, AfterHook, Return,
                   ReturnRaises, OutputGuardRejects, SettleTo, AfterHookRaises, Running
    <2>2. own = {}
      BY <1>2, <2>1 DEF Running, Evaluating
    <2>3. frame'[c].oneShot = {}
      BY <1>1, <1>5, <1>11, <2>2
         DEF Finish, ToolReturns, ToolRaises, ToolTimesOut, Fail, AfterHook, Return,
             ReturnRaises, OutputGuardRejects, SettleTo, AfterHookRaises, FrameType
    <2>4. \/ session' = session \/ session' = Release(session, ctx[c])[1]
          \/ session' = Settle(session, ctx[c])[1]
          \/ \E st : session' = AfterStage(session, ctx[c], st)
      BY <1>11 DEF Finish, ToolReturns, ToolRaises, ToolTimesOut, Fail, AfterHook, Return,
                   ReturnRaises, OutputGuardRejects, SettleTo, AfterHookRaises
    <2>5. session'.approvals = session.approvals
      BY <1>1, <2>4, AccountingKeeps
    <2> QED BY <1>2, <2>1, <2>2, <2>3, <2>5, ApprovalStep
  <1>12. CASE Cancel(c)
    <2>1. session' = WithdrawOneShot(session, c) /\ granted' = granted
          /\ frame'[c] = NewFrame
      BY <1>1, <1>12 DEF Cancel, LeaveBefore
    <2> QED BY <1>4, <1>5, <2>1, ApprovalStep
  <1>13. CASE ApproveOnce(c)
    <2> DEFINE key == ApprovalKey(ctx[c])
    <2>1. pc[c] = "asked" /\ granted' = granted /\ pc'[c] = "before"
      BY <1>1, <1>13 DEF ApproveOnce, Goto
    <2>2. session.approvals = granted
      BY <1>2, <2>1 DEF Evaluating
    <2>3. session'.approvals = session.approvals \cup {key}
      BY <1>1, <1>13 DEF ApproveOnce, SessionType
    <2>4. frame'[c].oneShot = {key} \ session.approvals
      <3>1. frame'[c] = [idx |-> 1, final |-> "allow", attempt |-> frame[c].attempt + 1,
                         oneShot |-> {key} \ session.approvals]
        BY <1>1, <1>13 DEF ApproveOnce
      <3> QED BY <3>1
    <2> QED BY <2>1, <2>2, <2>3, <2>4, ApprovalStep DEF Evaluating
  <1>14. CASE Start(c) \/ Reissue(c)
    <2>1. pc[c] \in {"idle", "asked"} /\ granted' = granted /\ session' = session
      BY <1>14 DEF Start, Reissue
    <2>2. own = {}
      BY <1>2, <2>1 DEF Evaluating
    <2>3. frame'[c].oneShot = {}
      <3>1. CASE Start(c)
        BY <1>1, <2>2, <3>1 DEF Start, FrameType
      <3>2. CASE Reissue(c)
        <4>1. frame'[c] = [idx |-> 1, final |-> "allow",
                           attempt |-> frame[c].attempt + 1, oneShot |-> {}]
          BY <1>1, <3>2 DEF Reissue
        <4> QED BY <4>1
      <3> QED BY <1>14, <3>1, <3>2
    <2> QED BY <1>2, <2>1, <2>2, <2>3, ApprovalStep
  <1>15. CASE GrantApproval(c)
    <2>1. pc[c] = "asked" /\ frame' = frame
      BY <1>15 DEF GrantApproval
    <2>2. PICK key : /\ session' = [session EXCEPT !.approvals = @ \cup {key}]
                     /\ granted' = granted \cup {key}
      BY <1>15 DEF GrantApproval
    <2>3. own = {}
      BY <1>2, <2>1 DEF Evaluating
    <2>4. session'.approvals = session.approvals \cup {key}
      BY <1>1, <2>2 DEF SessionType
    <2> QED BY <1>2, <2>1, <2>2, <2>3, <2>4, ApprovalStep
  <1> QED BY <1>6, <1>7, <1>8, <1>9, <1>10, <1>11, <1>12, <1>13, <1>14, <1>15
          DEF CallStep, Before

LEMMA ApprovalInductive ==
  Suspending = {} /\ ApprovalInv /\ [Next]_vars => ApprovalInv'
  <1> SUFFICES ASSUME Suspending = {}, ApprovalInv, [Next]_vars PROVE ApprovalInv'
    OBVIOUS
  <1>1. ASSUME NEW c \in Calls, CallStep(c) PROVE ApprovalInv'
    BY <1>1, ApprovalCallStep
  <1>2. CASE Host \/ Quiet \/ UNCHANGED vars
    <2>1. /\ SectionInv' /\ TypeOK /\ session \in SessionType /\ Bounded(session)
          /\ UNCHANGED <<pc, frame>>
      BY <1>2, SectionInductive, HostKeepsMoney DEF ApprovalInv, SectionInv, TypeOK, Bounded
    <2>2. CASE GrantApprovalById
      <3>1. PICK i \in DOMAIN session.pending :
               /\ session' = RedeemPending(session, i)
               /\ granted' = granted \cup {session.pending[i].key}
        BY <2>2 DEF GrantApprovalById
      <3>2. session'.approvals = session.approvals \cup {session.pending[i].key}
        BY <2>1, <3>1 DEF RedeemPending, SessionType
      <3>3. loop = NoCall
        BY <2>2 DEF GrantApprovalById
      <3>4. \A c \in Calls : ~HasLoop(c)
        BY <3>3, GatewayAssumption DEF ApprovalInv, SectionInv
      <3>5. \A c \in Calls : frame[c].oneShot = {}
        BY <3>4 DEF ApprovalInv, ApprovalsAreGrants, HasLoop
      <3> QED BY <2>1, <3>1, <3>2, <3>5 DEF ApprovalInv, ApprovalsAreGrants
    <2>3. CASE ClearTaint \/ WindowPasses \/ UNCHANGED vars
      <3>1. session'.approvals = session.approvals /\ granted' = granted
        BY <2>1, <2>3 DEF ClearTaint, WindowPasses, SessionType, vars
      <3> QED BY <2>1, <3>1 DEF ApprovalInv, ApprovalsAreGrants
    <2> QED BY <1>2, <2>2, <2>3 DEF Host, Quiet
  <1> QED BY <1>1, <1>2 DEF Next, CallStep

LEMMA ApprovalInitially == Init => ApprovalInv
  <1> SUFFICES ASSUME Init PROVE ApprovalInv
    OBVIOUS
  <1>1. \A c \in Calls : frame[c].oneShot = {}
    BY DEF Init, NewFrame
  <1>2. session.approvals = {} /\ granted = {}
    BY DEF Init, NewSession
  <1> QED BY <1>1, <1>2, SectionInitially DEF ApprovalInv, ApprovalsAreGrants

\* Where nothing suspends, an approval for one call is taken back on every way out
\* of before, and with it never one that a human granted for the session.
THEOREM ApprovalsAreExact == ASSUME Suspending = {} PROVE Spec => []ApprovalsAreGrants
  <1>1. ApprovalInv /\ [Next]_vars => ApprovalInv'
    BY ApprovalInductive
  <1>2. ApprovalInv => ApprovalsAreGrants
    BY DEF ApprovalInv
  <1> QED BY <1>1, <1>2, ApprovalInitially, PTL DEF Spec
-----------------------------------------------------------------------------
(* Shadow mode. *)

\* A call in shadow mode has its own arguments, unless a stage rewrote them, and
\* what is committed without having been shadowed was allowed by every stage.
Shadowed(c) ==
    /\ pc[c] \notin {"asked", "denied"}
    /\ \/ pc[c] \in {"idle"} \cup Running
       \/ pc[c] \in Evaluating /\ frame[c].final = "allow"
       => ctx[c].args = Call[c].args
    /\ pc[c] = "commit" => frame[c].final = "allow"

ShadowInv == TypeOK /\ (gw.dry_run => \A c \in Calls : Shadowed(c))

LEMMA ShadowCallStep ==
  ASSUME TypeOK, gw.dry_run, NEW c \in Calls, Shadowed(c), CallStep(c)
  PROVE  Shadowed(c)'
  <1>1. /\ frame[c] \in FrameType /\ ctx[c] \in ContextType
        /\ frame \in [Calls -> FrameType] /\ pc \in [Calls -> Locations]
        /\ ctx \in [Calls -> ContextType] /\ Bounded(session)
    BY CurrentTypes DEF TypeOK
  <1> USE <1>1 DEF Goto
  <1>2. CASE StageAllows(c)
    <2>1. /\ pc[c] = "before" /\ pc'[c] \in {"before", "decide"}
          /\ frame'[c].final = frame[c].final /\ ctx' = ctx
      BY <1>2 DEF StageAllows, AtStage, NextStage, FrameType
    <2> QED BY <2>1 DEF Shadowed, Evaluating, Running
  <1>3. CASE StageTransforms(c)
    <2>1. pc'[c] \in {"before", "decide"} /\ frame'[c].final = "transform"
      BY <1>3 DEF StageTransforms, NextStage, FrameType
    <2> QED BY <2>1 DEF Shadowed, Evaluating, Running
  <1>4. CASE StageBlocks(c)
    <2>1. PICK v \in {"deny", "require_approval"} : frame' = [frame EXCEPT ![c].final = v]
      BY <1>4 DEF StageBlocks
    <2>2. pc'[c] = "decide" /\ frame'[c].final = v
      BY <1>4, <2>1 DEF StageBlocks, FrameType
    <2> QED BY <2>2 DEF Shadowed, Evaluating, Running
  <1>5. CASE StageRaises(c)
    <2>1. CASE frame' = [frame EXCEPT ![c].final = "deny"] /\ Goto(c, "decide")
      <3>1. pc'[c] = "decide" /\ frame'[c].final = "deny"
        BY <2>1 DEF FrameType
      <3> QED BY <3>1 DEF Shadowed, Evaluating, Running
    <2>2. CASE frame' = [frame EXCEPT ![c].idx = @ + 1] /\ NextStage(c)
      <3>1. /\ pc[c] = "before" /\ pc'[c] \in {"before", "decide"} /\ ctx' = ctx
            /\ frame'[c].final = frame[c].final
        BY <1>5, <2>2 DEF StageRaises, AtStage, NextStage, FrameType
      <3> QED BY <3>1 DEF Shadowed, Evaluating, Running
    <2> QED BY <1>5, <2>1, <2>2 DEF StageRaises
  <1>6. CASE EmitDecision(c)
    <2>1. /\ pc[c] = "decide" /\ frame' = frame /\ ctx' = ctx
          /\ pc'[c] = IF frame[c].final # "allow" THEN "shadow" ELSE "commit"
      BY <1>6 DEF EmitDecision, ShadowOnly
    <2> QED BY <2>1 DEF Shadowed, Evaluating, Running
  <1>7. CASE EmitDecisionRaises(c) \/ Cancel(c)
    <2>1. pc'[c] \in {"aborted", "lost", "uncharged"}
      BY <1>7, Zenon DEF EmitDecisionRaises, Cancel
    <2> QED BY <2>1 DEF Shadowed, Evaluating, Running
  <1>8. CASE AdmitShadow(c)
    <2>1. pc'[c] = "executing" /\ ctx'[c].args = Call[c].args
      BY <1>8 DEF AdmitShadow, ContextType
    <2> QED BY <2>1 DEF Shadowed, Evaluating, Running
  <1>9. CASE Deny(c) \/ RequireApproval(c)
    BY <1>9 DEF Deny, RequireApproval, Shadowed
  <1>10. CASE Admit(c)
    <2>1. pc[c] = "commit" /\ pc'[c] = "executing" /\ ctx'[c] = Reserve(session, ctx[c])[2]
      BY <1>10 DEF Admit
    <2>2. ctx'[c].args = ctx[c].args
      BY <2>1, AccountingArgs
    <2> QED BY <2>1, <2>2 DEF Shadowed, Evaluating, Running
  <1>11. CASE ToolReturns(c) \/ AfterHook(c)
    <2>1. pc[c] \in Running /\ pc'[c] = "after" /\ ctx' = ctx
      BY <1>11 DEF ToolReturns, AfterHook, Running
    <2> QED BY <2>1 DEF Shadowed, Evaluating, Running
  <1>12. CASE EndsExecution(c) \/ AfterHookRaises(c)
    <2>1. pc'[c] \in {"failed", "returned", "withheld", "uncharged"}
      BY <1>12 DEF EndsExecution, ToolRaises, ToolTimesOut, Fail, Return, ReturnRaises,
                   OutputGuardRejects, SettleTo, AfterHookRaises
    <2> QED BY <2>1 DEF Shadowed, Evaluating, Running
  <1>13. CASE Start(c)
    <2>1. pc[c] = "idle" /\ pc'[c] = "before" /\ ctx' = ctx
      BY <1>13 DEF Start
    <2> QED BY <2>1 DEF Shadowed, Evaluating, Running
  <1>14. CASE ApproveOnce(c) \/ Reissue(c) \/ GrantApproval(c)
    BY <1>14 DEF ApproveOnce, Reissue, GrantApproval, Shadowed
  <1> QED BY <1>2, <1>3, <1>4, <1>5, <1>6, <1>7, <1>8, <1>9, <1>10, <1>11, <1>12, <1>13,
             <1>14 DEF CallStep, Before, Finish, EndsExecution

LEMMA ShadowInductive == ShadowInv /\ [Next]_vars => ShadowInv'
  <1> SUFFICES ASSUME ShadowInv, [Next]_vars PROVE ShadowInv'
    OBVIOUS
  <1>1. ASSUME NEW c \in Calls, CallStep(c) PROVE ShadowInv'
    <2>1. TypeOK /\ TypeOK' /\ gw' = gw /\ OthersStay(c)
      BY <1>1, CallStepType, StepsOfOneCall DEF ShadowInv
    <2>2. ASSUME gw.dry_run, NEW d \in Calls PROVE Shadowed(d)'
      <3>1. CASE d = c
        BY <1>1, <2>1, <2>2, <3>1, ShadowCallStep DEF ShadowInv
      <3>2. CASE d # c
        <4>1. Shadowed(d) /\ pc'[d] = pc[d] /\ frame'[d] = frame[d] /\ ctx'[d] = ctx[d]
          BY <2>1, <2>2, <3>2 DEF ShadowInv, OthersStay
        <4> QED BY <4>1 DEF Shadowed
      <3> QED BY <3>1, <3>2
    <2> QED BY <2>1, <2>2 DEF ShadowInv
  <1>2. CASE Host \/ Quiet \/ UNCHANGED vars
    <2>1. TypeOK' /\ UNCHANGED <<gw, pc, frame, ctx>>
      BY <1>2, SessionTypeOK, HostKeepsMoney DEF ShadowInv
    <2> QED BY <2>1 DEF ShadowInv, Shadowed
  <1> QED BY <1>1, <1>2 DEF Next, CallStep

LEMMA ShadowInitially == Init => ShadowInv
  <1> SUFFICES ASSUME Init PROVE ShadowInv
    OBVIOUS
  <1>1. ASSUME NEW c \in Calls PROVE Shadowed(c)
    <2>1. pc[c] = "idle" /\ ctx[c] = NewContext(Call[c])
      BY DEF Init
    <2> QED BY <2>1 DEF Shadowed, NewContext, Evaluating
  <1> QED BY <1>1, InitTypeOK DEF ShadowInv

\* A gateway in shadow mode enforces nothing, whatever its stages say and whatever
\* suspends or fails: it denies no call and asks nobody, and it runs every call with
\* the arguments it came with.
THEOREM ShadowIsTransparent == Spec => []ShadowEnforcesNothing
  <1>1. ShadowInv => ShadowEnforcesNothing
    BY DEF ShadowInv, Shadowed, ShadowEnforcesNothing
  <1> QED BY <1>1, ShadowInitially, ShadowInductive, PTL DEF Spec
=============================================================================
