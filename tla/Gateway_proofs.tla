--------------------------- MODULE Gateway_proofs ---------------------------
(***************************************************************************)
(* Theorems about the gateway pipeline, for every set of calls, manifest,  *)
(* policy, order of stages, and choice of suspending awaits and faults.    *)
(***************************************************************************)
EXTENDS Gateway, GatewayState_proofs

-----------------------------------------------------------------------------
(* Type correctness. *)

LEMMA WithdrawType ==
  ASSUME NEW s, Bounded(s), NEW c
  PROVE  /\ Bounded(WithdrawOneShot(s, c))
         /\ WithdrawOneShot(s, c).used = s.used
         /\ WithdrawOneShot(s, c).reserved = s.reserved
  <1> DEFINE a == s.approvals \ frame[c].oneShot
  <1>1. s \in SessionType /\ a \in SUBSET Keys
    BY DEF Bounded, SessionType
  <1>2. WithdrawOneShot(s, c) = [s EXCEPT !.approvals = a]
    BY <1>1 DEF WithdrawOneShot, SessionType
  <1> HIDE DEF a
  <1>3. /\ [s EXCEPT !.approvals = a].used = s.used
        /\ [s EXCEPT !.approvals = a].reserved = s.reserved
    BY <1>1 DEF SessionType
  <1>4. Bounded([s EXCEPT !.approvals = a])
    BY <1>1, FieldsType
  <1> QED BY <1>2, <1>3, <1>4

LEMMA NewTypes == /\ NewFrame \in FrameType
                  /\ \A c \in Calls : NewContext(Call[c]) \in ContextType
                  /\ Bounded(NewSession)
  <1>1. NewFrame \in FrameType
    BY StagesType, GatewayAssumption DEF NewFrame, FrameType, Decisions
  <1>2. \A c \in Calls : NewContext(Call[c]) \in ContextType
    BY GatewayAssumption DEF NewContext, ContextType, CallType
  <1>3. <<>> \in Seq(Tools \X Args) /\ <<>> \in Seq([id : ApprovalIds, key : Keys])
        /\ Len(<<>>) = 0
    BY EmptySeq
  <1>4. Bounded(NewSession)
    BY <1>3, StateAssumption DEF Bounded, NewSession, SessionType
  <1> QED BY <1>1, <1>2, <1>4

\* Moving one call leaves the others where they are, in a legal location.
LEMMA GotoType == ASSUME NEW c \in Calls, NEW l \in Locations, pc \in [Calls -> Locations],
                         Goto(c, l)
                  PROVE  /\ pc' \in [Calls -> Locations] /\ pc'[c] = l
                         /\ \A d \in Calls \ {c} : pc'[d] = pc[d]
  BY DEF Goto

LEMMA LocationsType == /\ Evaluating \subseteq Locations /\ Running \subseteq Locations
                       /\ Finished \subseteq Locations /\ "idle" \in Locations
  BY DEF Locations

\* What each step has to show: one call moved, with a frame that fits.
LEMMA TypeOKStep ==
  ASSUME TypeOK, NEW c \in Calls, gw' = gw, loop' \in Calls \cup {NoCall},
         NEW l \in Locations, Goto(c, l),
         NEW f \in FrameType, frame' = [frame EXCEPT ![c] = f],
         l = "before" => f.idx \in DOMAIN Stages,
         l \in Evaluating \cup {"asked"} => f.attempt > 0,
         ctx' \in [Calls -> ContextType],
         Bounded(session)', granted' \in SUBSET Keys
  PROVE  TypeOK'
  <1>1. /\ pc' \in [Calls -> Locations] /\ pc'[c] = l
        /\ \A d \in Calls \ {c} : pc'[d] = pc[d]
    BY GotoType DEF TypeOK
  <1>2. /\ frame' \in [Calls -> FrameType] /\ frame'[c] = f
        /\ \A d \in Calls \ {c} : frame'[d] = frame[d]
    BY DEF TypeOK
  <1>3. PositionOK'
    <2> SUFFICES ASSUME NEW d \in Calls
                 PROVE  /\ pc'[d] = "before" => frame'[d].idx \in DOMAIN Stages
                        /\ pc'[d] \in Evaluating \cup {"asked"} => frame'[d].attempt > 0
      BY DEF PositionOK
    <2>1. CASE d = c
      BY <1>1, <1>2, <2>1
    <2>2. CASE d # c
      <3>0. PositionOK
        BY DEF TypeOK
      <3>1. /\ pc[d] = "before" => frame[d].idx \in DOMAIN Stages
            /\ pc[d] \in Evaluating \cup {"asked"} => frame[d].attempt > 0
        BY <3>0 DEF PositionOK
      <3>2. pc'[d] = pc[d] /\ frame'[d] = frame[d]
        BY <1>1, <1>2, <2>2
      <3> QED BY <3>1, <3>2
    <2> QED BY <2>1, <2>2
  <1> QED BY <1>1, <1>2, <1>3 DEF TypeOK, Bounded

LEMMA LoopType == ASSUME TypeOK, NEW c \in Calls
                  PROVE  /\ KeepLoop(c) => loop' \in Calls \cup {NoCall}
                         /\ FreeLoop => loop' \in Calls \cup {NoCall}
                         /\ \A p : Await(c, p) => loop' \in Calls \cup {NoCall}
                         /\ UNCHANGED loop => loop' \in Calls \cup {NoCall}
  BY DEF TypeOK, KeepLoop, FreeLoop, Await

\* The facts about the current state the steps below start from.
LEMMA CurrentTypes ==
  ASSUME TypeOK, NEW c \in Calls
  PROVE  /\ Bounded(session) /\ ctx[c] \in ContextType /\ frame[c] \in FrameType
         /\ pc[c] \in Locations
         /\ frame[c].idx \in 0..(Len(Stages) + 1) /\ frame[c].final \in Decisions
         /\ frame[c].oneShot \in SUBSET Keys
         /\ frame[c].attempt \in 0..MaxAttempts
         /\ pc[c] = "before" => frame[c].idx \in 1..Len(Stages)
         /\ pc[c] \in Evaluating \cup {"asked"} => frame[c].attempt > 0
  <1>1. frame[c] \in FrameType /\ Bounded(session) /\ ctx[c] \in ContextType
        /\ pc[c] \in Locations
    BY DEF TypeOK, Bounded
  <1> PositionOK
    BY DEF TypeOK
  <1>2. /\ pc[c] = "before" => frame[c].idx \in DOMAIN Stages
        /\ pc[c] \in Evaluating \cup {"asked"} => frame[c].attempt > 0
    BY DEF PositionOK
  <1>3. pc[c] = "before" => frame[c].idx \in 1..Len(Stages)
    BY <1>2, StagesType
  <1> QED BY <1>1, <1>2, <1>3 DEF FrameType

\* Rewriting the arguments of a context gives a context.
LEMMA CtxUpdate ==
  ASSUME TypeOK, NEW c \in Calls
  PROVE  /\ \A x \in ContextType : [ctx EXCEPT ![c] = x] \in [Calls -> ContextType]
         /\ \A a \in Args : /\ [ctx[c] EXCEPT !.args = a] \in ContextType
                            /\ [ctx EXCEPT ![c].args = a] =
                                  [ctx EXCEPT ![c] = [ctx[c] EXCEPT !.args = a]]
  BY DEF TypeOK, ContextType

LEMMA StageTypeOK ==
  ASSUME TypeOK, NEW c \in Calls,
         StageAllows(c) \/ StageTransforms(c) \/ StageBlocks(c) \/ StageRaises(c)
  PROVE  TypeOK'
  <1> DEFINE next == IF frame[c].idx = Len(Stages) THEN "decide" ELSE "before"
  <1> USE DEF AtStage
  <1>1. /\ next \in Locations /\ "decide" \in Locations
        /\ pc[c] = "before" => /\ next = "before" => frame[c].idx + 1 \in DOMAIN Stages
                               /\ frame[c].idx + 1 \in 0..(Len(Stages) + 1)
                               /\ frame[c].attempt > 0
    BY CurrentTypes, StagesType DEF Locations, Evaluating
  <1>2. /\ Bounded(session) /\ frame[c] \in FrameType
        /\ ctx \in [Calls -> ContextType] /\ granted \in SUBSET Keys
        /\ frame \in [Calls -> FrameType]
    BY CurrentTypes DEF TypeOK
  <1>3. CASE StageAllows(c)
    <2> DEFINE f == [frame[c] EXCEPT !.idx = @ + 1]
    <2>1. frame' = [frame EXCEPT ![c] = f] /\ f \in FrameType
          /\ f.idx = frame[c].idx + 1 /\ f.attempt = frame[c].attempt
      BY <1>1, <1>2, <1>3 DEF StageAllows, FrameType
    <2>2. /\ Goto(c, next) /\ Await(c, Here(c)) /\ pc[c] = "before"
          /\ UNCHANGED <<gw, ctx, session, granted>>
      BY <1>3 DEF StageAllows, NextStage
    <2>3. Bounded(session)'
      BY <1>2, <2>2 DEF Bounded
    <2> HIDE DEF f, next
    <2> QED BY <1>1, <1>2, <2>1, <2>2, <2>3, LoopType, TypeOKStep
  <1>4. CASE StageTransforms(c)
    <2> DEFINE f == [frame[c] EXCEPT !.idx = @ + 1, !.final = "transform"]
    <2>1. frame' = [frame EXCEPT ![c] = f] /\ f \in FrameType
          /\ f.idx = frame[c].idx + 1 /\ f.attempt = frame[c].attempt
      BY <1>1, <1>2, <1>4 DEF StageTransforms, FrameType, Decisions
    <2>2. /\ Goto(c, next) /\ Await(c, Here(c)) /\ pc[c] = "before"
          /\ UNCHANGED <<gw, session, granted>>
      BY <1>4 DEF StageTransforms, NextStage
    <2>3. Bounded(session)'
      BY <1>2, <2>2 DEF Bounded
    <2>4. Rewrite[ApprovalKey(ctx[c])] \in Args
      BY CurrentTypes, CostType, StateAssumption
    <2>5. ctx' \in [Calls -> ContextType]
      BY <1>4, <2>4, CtxUpdate DEF StageTransforms
    <2> HIDE DEF f, next
    <2> QED BY <1>1, <1>2, <2>1, <2>2, <2>3, <2>5, LoopType, TypeOKStep
  <1>5. CASE StageBlocks(c)
    <2>1. PICK v \in {"deny", "require_approval"} : frame' = [frame EXCEPT ![c].final = v]
      BY <1>5 DEF StageBlocks
    <2> DEFINE f == [frame[c] EXCEPT !.final = v]
    <2>2. frame' = [frame EXCEPT ![c] = f] /\ f \in FrameType
          /\ f.attempt = frame[c].attempt
      BY <1>2, <2>1 DEF FrameType, Decisions
    <2>3. /\ Goto(c, "decide") /\ Await(c, Here(c)) /\ pc[c] = "before"
          /\ UNCHANGED <<gw, ctx, session, granted>>
      BY <1>5 DEF StageBlocks
    <2>4. Bounded(session)'
      BY <1>2, <2>3 DEF Bounded
    <2> HIDE DEF f, next
    <2> QED BY <1>1, <1>2, <2>2, <2>3, <2>4, LoopType, TypeOKStep
  <1>6. CASE StageRaises(c)
    <2>1. /\ pc[c] = "before" /\ UNCHANGED <<gw, ctx, session, granted>>
      BY <1>6 DEF StageRaises
    <2>2. Bounded(session)'
      BY <1>2, <2>1 DEF Bounded
    <2>3. CASE /\ frame' = [frame EXCEPT ![c].final = "deny"]
               /\ Goto(c, "decide") /\ Await(c, Here(c))
      <3> DEFINE f == [frame[c] EXCEPT !.final = "deny"]
      <3>1. frame' = [frame EXCEPT ![c] = f] /\ f \in FrameType
            /\ f.attempt = frame[c].attempt
        BY <1>2, <2>3 DEF FrameType, Decisions
      <3>2. Goto(c, "decide") /\ Await(c, Here(c))
        BY <2>3
      <3> HIDE DEF f, next
      <3> QED BY <1>1, <1>2, <2>1, <2>2, <3>1, <3>2, LoopType, TypeOKStep
    <2>4. CASE frame' = [frame EXCEPT ![c].idx = @ + 1] /\ NextStage(c)
      <3> DEFINE f == [frame[c] EXCEPT !.idx = @ + 1]
      <3>1. frame' = [frame EXCEPT ![c] = f] /\ f \in FrameType
            /\ f.idx = frame[c].idx + 1 /\ f.attempt = frame[c].attempt
        BY <1>1, <1>2, <2>1, <2>4 DEF FrameType
      <3>2. Goto(c, next) /\ Await(c, Here(c))
        BY <2>4 DEF NextStage
      <3> HIDE DEF f, next
      <3> QED BY <1>1, <1>2, <2>1, <2>2, <3>1, <3>2, LoopType, TypeOKStep
    <2> QED BY <1>6, <2>3, <2>4 DEF StageRaises
  <1> QED BY <1>3, <1>4, <1>5, <1>6

\* Leaving before: the frame is gone, the session is bounded.
LEMMA CommitTypeOK ==
  ASSUME TypeOK, NEW c \in Calls,
         \/ EmitDecision(c) \/ EmitDecisionRaises(c) \/ AdmitShadow(c)
         \/ Deny(c) \/ RequireApproval(c) \/ Admit(c)
  PROVE  TypeOK'
  <1>1. /\ Bounded(session) /\ frame[c] \in FrameType /\ ctx[c] \in ContextType
        /\ pc[c] \in Evaluating => frame[c].attempt > 0
        /\ ctx \in [Calls -> ContextType] /\ granted \in SUBSET Keys
        /\ frame \in [Calls -> FrameType]
    BY CurrentTypes DEF TypeOK
  <1>2. /\ {"shadow", "commit", "executing", "denied", "aborted", "asked"} \subseteq Locations
        /\ {"executing", "denied", "aborted"} \cap (Evaluating \cup {"asked", "before"}) = {}
        /\ {"decide", "commit"} \subseteq Evaluating
        /\ NewFrame \in FrameType
    BY NewTypes DEF Locations, Evaluating, Running, Finished
  <1>3. Bounded(WithdrawOneShot(session, c))
    BY <1>1, WithdrawType
  <1>4. CASE EmitDecision(c)
    <2> DEFINE l == IF ShadowOnly(c) THEN "shadow" ELSE "commit"
    <2>1. /\ Goto(c, l) /\ Await(c, "audit") /\ pc[c] = "decide"
          /\ UNCHANGED <<gw, frame, ctx, session, granted>>
      BY <1>4 DEF EmitDecision
    <2>2. Bounded(session)' /\ l \in Locations /\ l # "before"
      BY <1>1, <1>2, <2>1 DEF Bounded
    <2>3. frame' = [frame EXCEPT ![c] = frame[c]] /\ frame[c].attempt > 0
      BY <1>1, <1>2, <2>1
    <2> HIDE DEF l
    <2> QED BY <1>1, <2>1, <2>2, <2>3, LoopType, TypeOKStep
  <1>5. CASE EmitDecisionRaises(c) \/ Deny(c)
    <2>1. PICK l \in {"aborted", "denied"} :
             /\ Goto(c, l) /\ FreeLoop /\ LeaveBefore(c)
             /\ UNCHANGED <<gw, ctx, granted>> /\ session' = WithdrawOneShot(session, c)
      BY <1>5 DEF EmitDecisionRaises, Deny
    <2>2. Bounded(session)'
      BY <1>3, <2>1 DEF Bounded
    <2> QED BY <1>1, <1>2, <2>1, <2>2, LoopType, TypeOKStep DEF LeaveBefore
  <1>6. CASE AdmitShadow(c)
    <2>1. /\ Goto(c, "executing") /\ FreeLoop /\ LeaveBefore(c)
          /\ UNCHANGED <<gw, granted>> /\ session' = WithdrawOneShot(session, c)
          /\ ctx' = [ctx EXCEPT ![c].args = Call[c].args]
      BY <1>6 DEF AdmitShadow
    <2>2. Call[c].args \in Args
      BY GatewayAssumption DEF CallType
    <2>3. ctx' \in [Calls -> ContextType] /\ Bounded(session)'
      BY <1>3, <2>1, <2>2, CtxUpdate DEF Bounded
    <2> QED BY <1>1, <1>2, <2>1, <2>3, LoopType, TypeOKStep DEF LeaveBefore
  <1>7. CASE RequireApproval(c)
    <2> DEFINE f == [NewFrame EXCEPT !.attempt = frame[c].attempt]
               w == WithdrawOneShot(session, c)
    <2>1. /\ Goto(c, "asked") /\ FreeLoop /\ frame' = [frame EXCEPT ![c] = f]
          /\ UNCHANGED <<gw, ctx, granted>> /\ pc[c] = "commit"
          /\ session' = AddPending(w, ApprovalId(c), ApprovalKey(ctx[c]))
      BY <1>7 DEF RequireApproval
    <2>2. f \in FrameType /\ f.attempt = frame[c].attempt /\ frame[c].attempt > 0
      BY <1>1, <1>2, <2>1 DEF FrameType
    <2>3. ApprovalId(c) \in ApprovalIds /\ ApprovalKey(ctx[c]) \in Keys
      BY <1>1, <2>2, CostType, GatewayAssumption DEF ApprovalId, FrameType
    <2>4. Bounded(AddPending(w, ApprovalId(c), ApprovalKey(ctx[c])))
      BY <1>3, <2>3, AddPendingType
    <2>5. Bounded(session)'
      BY <2>1, <2>4 DEF Bounded
    <2>6. "asked" \in Locations /\ "asked" # "before"
      BY <1>2
    <2> HIDE DEF f, w
    <2> QED BY <1>1, <2>1, <2>2, <2>5, <2>6, LoopType, TypeOKStep
  <1>8. CASE Admit(c)
    <2> DEFINE r == Reserve(session, ctx[c])
    <2>1. /\ Goto(c, "executing") /\ FreeLoop /\ LeaveBefore(c)
          /\ UNCHANGED <<gw, granted>> /\ session' = WithdrawOneShot(r[1], c)
          /\ ctx' = [ctx EXCEPT ![c] = r[2]]
      BY <1>8 DEF Admit
    <2>2. Bounded(r[1]) /\ r[2] \in ContextType
      BY <1>1, ReserveType
    <2> HIDE DEF r
    <2>3. Bounded(WithdrawOneShot(r[1], c)) /\ ctx' \in [Calls -> ContextType]
      BY <2>1, <2>2, WithdrawType, CtxUpdate
    <2>4. Bounded(session)'
      BY <2>1, <2>3 DEF Bounded
    <2> QED BY <1>1, <1>2, <2>1, <2>3, <2>4, LoopType, TypeOKStep DEF LeaveBefore
  <1> QED BY <1>4, <1>5, <1>6, <1>7, <1>8

\* Moving the stage index within its range.
LEMMA FrameIndex ==
  ASSUME NEW f \in FrameType, NEW i \in 0..(Len(Stages) + 1)
  PROVE  /\ [f EXCEPT !.idx = i] \in FrameType
         /\ [f EXCEPT !.idx = i].idx = i
         /\ [f EXCEPT !.idx = i].attempt = f.attempt
         /\ [f EXCEPT !.idx = i].final = f.final
  BY DEF FrameType

\* The frame of a call that starts.
LEMMA FirstFrame ==
  ASSUME NEW f \in FrameType
  PROVE  /\ [f EXCEPT !.idx = 1, !.attempt = 1] \in FrameType
         /\ [f EXCEPT !.idx = 1, !.attempt = 1].idx = 1
         /\ [f EXCEPT !.idx = 1, !.attempt = 1].attempt = 1
  <1>1. 1 \in 0..(Len(Stages) + 1) /\ 1 \in 0..MaxAttempts
    BY StagesType, GatewayAssumption
  <1> QED BY <1>1 DEF FrameType

\* Execution, after and cancellation.
LEMMA FinishTypeOK ==
  ASSUME TypeOK, NEW c \in Calls, Finish(c) \/ Cancel(c)
  PROVE  TypeOK'
  <1>1. /\ Bounded(session) /\ frame[c] \in FrameType /\ ctx[c] \in ContextType
        /\ frame[c].idx \in 0..(Len(Stages) + 1)
        /\ ctx \in [Calls -> ContextType] /\ granted \in SUBSET Keys
        /\ frame \in [Calls -> FrameType]
    BY CurrentTypes DEF TypeOK
  <1> DEFINE ends == {"failed", "returned", "withheld", "lost", "aborted", "uncharged"}
  <1>2. /\ {"after"} \cup ends \subseteq Locations
        /\ ({"after"} \cup ends) \cap (Evaluating \cup {"asked", "before"}) = {}
        /\ NewFrame \in FrameType
    BY NewTypes DEF Locations, Evaluating, Running, Finished
  <1>3. CASE ToolReturns(c)
    <2> DEFINE f == [frame[c] EXCEPT !.idx = Len(Stages)]
    <2>0. frame' = [frame EXCEPT ![c] = f] /\ Len(Stages) \in 0..(Len(Stages) + 1)
      BY <1>3, StagesType DEF ToolReturns
    <2>1. frame' = [frame EXCEPT ![c] = f] /\ f \in FrameType
      BY <1>1, <2>0, FrameIndex
    <2>2. /\ Goto(c, "after") /\ KeepLoop(c) /\ UNCHANGED <<gw, ctx, session, granted>>
      BY <1>3 DEF ToolReturns
    <2>3. Bounded(session)'
      BY <1>1, <2>2 DEF Bounded
    <2> HIDE DEF f
    <2> QED BY <1>1, <1>2, <2>1, <2>2, <2>3, LoopType, TypeOKStep
  <1>4. CASE ToolRaises(c) \/ ToolTimesOut(c)
    <2> DEFINE r == Release(session, ctx[c])
    <2>1. /\ Goto(c, "failed") /\ FreeLoop /\ UNCHANGED <<gw, frame, granted>>
          /\ session' = r[1] /\ ctx' = [ctx EXCEPT ![c] = r[2]]
      BY <1>4 DEF ToolRaises, ToolTimesOut, Fail
    <2>2. Bounded(r[1]) /\ r[2] \in ContextType
      BY <1>1, ReleaseType
    <2> HIDE DEF r
    <2>3. Bounded(session)' /\ ctx' \in [Calls -> ContextType]
          /\ frame' = [frame EXCEPT ![c] = frame[c]]
      BY <1>1, <2>1, <2>2, CtxUpdate DEF Bounded
    <2> QED BY <1>1, <1>2, <2>1, <2>3, LoopType, TypeOKStep
  <1>5. CASE AfterHook(c)
    <2> DEFINE i == frame[c].idx - 1
               f == [frame[c] EXCEPT !.idx = i]
    <2>1. frame[c].idx > 0 /\ frame' = [frame EXCEPT ![c] = f]
      BY <1>1, <1>5 DEF AfterHook
    <2>0. i \in 0..(Len(Stages) + 1)
      BY <1>1, <2>1, StagesType
    <2>2. f \in FrameType /\ f.attempt = frame[c].attempt
      BY <1>1, <2>0, FrameIndex
    <2>3. /\ pc' = pc /\ pc[c] = "after" /\ Await(c, Here(c))
          /\ UNCHANGED <<gw, ctx, granted>>
          /\ session' = AfterStage(session, ctx[c], Here(c))
      BY <1>5 DEF AfterHook
    <2>4. Bounded(session)'
      BY <1>1, <2>3, AfterStageType DEF Bounded
    <2>5. Goto(c, "after")
      BY <2>3 DEF Goto, TypeOK
    <2> HIDE DEF f
    <2> QED BY <1>1, <1>2, <2>1, <2>2, <2>3, <2>4, <2>5, LoopType, TypeOKStep
  <1>6. CASE Return(c) \/ ReturnRaises(c) \/ OutputGuardRejects(c)
    <2> DEFINE r == Settle(session, ctx[c])
    <2>1. PICK l \in {"returned", "withheld"} : SettleTo(c, l)
      BY <1>6 DEF Return, ReturnRaises, OutputGuardRejects
    <2>2. /\ Goto(c, l) /\ FreeLoop /\ UNCHANGED <<gw, granted>>
          /\ frame' = [frame EXCEPT ![c] = NewFrame]
          /\ session' = r[1] /\ ctx' = [ctx EXCEPT ![c] = r[2]]
      BY <2>1 DEF SettleTo
    <2>3. Bounded(r[1]) /\ r[2] \in ContextType
      BY <1>1, SettleType
    <2> HIDE DEF r
    <2>4. Bounded(session)' /\ ctx' \in [Calls -> ContextType]
      BY <1>1, <2>2, <2>3, CtxUpdate DEF Bounded
    <2> QED BY <1>1, <1>2, <2>1, <2>2, <2>4, LoopType, TypeOKStep
  <1>7. CASE AfterHookRaises(c)
    <2>1. /\ Goto(c, "uncharged") /\ FreeLoop /\ UNCHANGED <<gw, ctx, session, granted>>
          /\ frame' = [frame EXCEPT ![c] = NewFrame]
      BY <1>7 DEF AfterHookRaises
    <2>2. Bounded(session)'
      BY <1>1, <2>1 DEF Bounded
    <2> QED BY <1>1, <1>2, <2>1, <2>2, LoopType, TypeOKStep
  <1>8. CASE Cancel(c)
    <2>1. PICK l \in {"aborted", "lost", "uncharged"} : Goto(c, l)
      BY <1>8 DEF Cancel
    <2>2. /\ UNCHANGED <<gw, loop, ctx, granted>> /\ LeaveBefore(c)
          /\ session' = WithdrawOneShot(session, c)
      BY <1>8 DEF Cancel
    <2>3. Bounded(session)'
      BY <1>1, <2>2, WithdrawType DEF Bounded
    <2> QED BY <1>1, <1>2, <2>1, <2>2, <2>3, LoopType, TypeOKStep DEF LeaveBefore
  <1> QED BY <1>3, <1>4, <1>5, <1>6, <1>7, <1>8 DEF Finish

LEMMA HostTypeOK ==
  ASSUME TypeOK, NEW c \in Calls,
         Start(c) \/ ApproveOnce(c) \/ Reissue(c) \/ GrantApproval(c)
  PROVE  TypeOK'
  <1>1. /\ Bounded(session) /\ frame[c] \in FrameType /\ ctx[c] \in ContextType
        /\ ctx \in [Calls -> ContextType] /\ granted \in SUBSET Keys
        /\ frame \in [Calls -> FrameType] /\ session \in SessionType
        /\ frame[c].attempt \in 0..MaxAttempts
    BY CurrentTypes DEF TypeOK
  <1>2. /\ "before" \in Locations /\ 1 \in DOMAIN Stages /\ 1 \in 0..(Len(Stages) + 1)
        /\ MaxAttempts \in Nat \ {0} /\ 1 \in 0..MaxAttempts
    BY StagesType, GatewayAssumption DEF Locations, Evaluating
  <1>3. CASE Start(c)
    <2> DEFINE f == [frame[c] EXCEPT !.idx = 1, !.attempt = 1]
    <2>1. /\ frame' = [frame EXCEPT ![c] = f] /\ f \in FrameType
          /\ f.idx = 1 /\ f.attempt = 1
      <3>1. frame' = [frame EXCEPT ![c] = f]
        BY <1>3 DEF Start
      <3> QED BY <1>1, <3>1, FirstFrame
    <2>2. /\ Goto(c, "before") /\ KeepLoop(c) /\ UNCHANGED <<gw, ctx, session, granted>>
      BY <1>3 DEF Start
    <2>3. Bounded(session)'
      BY <1>1, <2>2 DEF Bounded
    <2> HIDE DEF f
    <2>4. /\ gw' = gw /\ loop' \in Calls \cup {NoCall} /\ "before" \in Locations
          /\ f.idx \in DOMAIN Stages /\ f.attempt > 0
          /\ ctx' \in [Calls -> ContextType] /\ granted' \in SUBSET Keys
      BY <1>1, <1>2, <2>1, <2>2, LoopType
    <2> QED BY <2>1, <2>2, <2>3, <2>4, TypeOKStep
  <1>4. CASE ApproveOnce(c)
    <2> DEFINE key == ApprovalKey(ctx[c])
               f == [idx |-> 1, final |-> "allow", attempt |-> frame[c].attempt + 1,
                     oneShot |-> {key} \ session.approvals]
               a == session.approvals \cup {key}
    <2>1. /\ frame' = [frame EXCEPT ![c] = f] /\ frame[c].attempt < MaxAttempts
          /\ session' = [session EXCEPT !.approvals = a]
          /\ Goto(c, "before") /\ KeepLoop(c) /\ UNCHANGED <<gw, ctx, granted>>
      <3>1. frame' = [frame EXCEPT ![c] = f]
        BY <1>1, <1>4, Zenon DEF ApproveOnce
      <3>2. session' = [session EXCEPT !.approvals = a]
        BY <1>4 DEF ApproveOnce
      <3> QED BY <1>4, <3>1, <3>2 DEF ApproveOnce
    <2>2. key \in Keys
      BY <1>1, CostType
    <2> HIDE DEF key
    <2>3. f \in FrameType /\ f.idx = 1 /\ f.attempt = frame[c].attempt + 1
      BY <1>1, <1>2, <2>1, <2>2 DEF FrameType, Decisions
    <2>4. a \in SUBSET Keys
      BY <1>1, <2>2 DEF SessionType
    <2> HIDE DEF a, f
    <2>5. Bounded([session EXCEPT !.approvals = a])
      BY <1>1, <2>4, FieldsType
    <2>6. Bounded(session)' /\ frame[c].attempt + 1 > 0
      BY <1>1, <1>2, <2>1, <2>5 DEF Bounded
    <2> QED BY <1>1, <1>2, <2>1, <2>3, <2>6, LoopType, TypeOKStep
  <1>5. CASE Reissue(c)
    <2> DEFINE f == [idx |-> 1, final |-> "allow", attempt |-> frame[c].attempt + 1,
                     oneShot |-> {}]
    <2>1. /\ frame' = [frame EXCEPT ![c] = f] /\ frame[c].attempt < MaxAttempts
          /\ ctx' = [ctx EXCEPT ![c] = NewContext(Call[c])]
          /\ Goto(c, "before") /\ KeepLoop(c) /\ UNCHANGED <<gw, session, granted>>
      BY <1>1, <1>5 DEF Reissue
    <2>2. f \in FrameType /\ f.idx = 1 /\ f.attempt = frame[c].attempt + 1
      BY <1>1, <1>2, <2>1 DEF FrameType, Decisions
    <2>3. ctx' \in [Calls -> ContextType]
      BY <2>1, NewTypes, CtxUpdate
    <2> HIDE DEF f
    <2>4. Bounded(session)' /\ frame[c].attempt + 1 > 0
      BY <1>1, <1>2, <2>1 DEF Bounded
    <2> QED BY <1>1, <1>2, <2>1, <2>2, <2>3, <2>4, LoopType, TypeOKStep
  <1>6. CASE GrantApproval(c)
    <2>1. PICK key \in {ApprovalKey(ctx[c]), WildcardKey(ctx[c])} :
             /\ session' = [session EXCEPT !.approvals = @ \cup {key}]
             /\ granted' = granted \cup {key}
      BY <1>6 DEF GrantApproval
    <2> DEFINE a == session.approvals \cup {key}
    <2>2. key \in Keys
      BY <1>1, <2>1, CostType
    <2>3. session' = [session EXCEPT !.approvals = a] /\ a \in SUBSET Keys
          /\ granted' \in SUBSET Keys
      BY <1>1, <2>1, <2>2 DEF SessionType
    <2> HIDE DEF a
    <2>4. Bounded([session EXCEPT !.approvals = a])
      BY <1>1, <2>3, FieldsType
    <2>5. Bounded(session')
      BY <2>3, <2>4
    <2>6. UNCHANGED <<gw, loop, pc, frame, ctx>>
      BY <1>6 DEF GrantApproval
    <2> QED BY <2>3, <2>5, <2>6 DEF TypeOK, Bounded, PositionOK
  <1> QED BY <1>3, <1>4, <1>5, <1>6

LEMMA SessionTypeOK ==
  ASSUME TypeOK, Host \/ Quiet \/ UNCHANGED vars
  PROVE  TypeOK'
  <1>1. Bounded(session) /\ session \in SessionType /\ granted \in SUBSET Keys
    BY DEF TypeOK, Bounded
  <1>2. CASE GrantApprovalById
    <2>1. PICK i \in DOMAIN session.pending :
             /\ session' = RedeemPending(session, i)
             /\ granted' = granted \cup {session.pending[i].key}
      BY <1>2 DEF GrantApprovalById
    <2>2. Bounded(session') /\ granted' \in SUBSET Keys
      BY <1>1, <2>1, RedeemPendingType
    <2>3. UNCHANGED <<gw, loop, pc, frame, ctx>>
      BY <1>2 DEF GrantApprovalById
    <2> QED BY <2>2, <2>3 DEF TypeOK, Bounded, PositionOK
  <1>3. CASE ClearTaint
    <2>1. session' = [session EXCEPT !.tainted = FALSE]
          /\ UNCHANGED <<gw, loop, pc, frame, ctx, granted>>
      BY <1>3 DEF ClearTaint
    <2>2. Bounded(session')
      BY <1>1, <2>1, FieldsType
    <2> QED BY <1>1, <2>1, <2>2 DEF TypeOK, Bounded, PositionOK
  <1>4. CASE WindowPasses
    <2> DEFINE n == session.stale + 1
    <2>1. /\ session' = [session EXCEPT !.stale = n] /\ session.stale < Len(session.recent)
          /\ UNCHANGED <<gw, loop, pc, frame, ctx, granted>>
      BY <1>1, <1>4 DEF WindowPasses, SessionType
    <2>2. n \in Nat /\ n <= Len(session.recent)
      BY <1>1, <2>1, LenProperties DEF SessionType
    <2> HIDE DEF n
    <2>3. Bounded([session EXCEPT !.stale = n])
      BY <1>1, <2>2, FieldsType
    <2>4. Bounded(session')
      BY <2>1, <2>3
    <2> QED BY <1>1, <2>1, <2>4 DEF TypeOK, Bounded, PositionOK
  <1>5. CASE UNCHANGED vars
    BY <1>5 DEF vars, TypeOK, PositionOK
  <1> QED BY <1>2, <1>3, <1>4, <1>5 DEF Host, Quiet

LEMMA InitTypeOK == Init => TypeOK
  <1> SUFFICES ASSUME Init PROVE TypeOK
    OBVIOUS
  <1>1. gw \in ModeType /\ pc \in [Calls -> Locations]
        /\ frame \in [Calls -> FrameType] /\ ctx \in [Calls -> ContextType]
    BY NewTypes, GatewayAssumption, LocationsType DEF Init
  <1>2. Bounded(session) /\ granted \in SUBSET Keys /\ loop \in Calls \cup {NoCall}
    BY NewTypes DEF Init
  <1>3. PositionOK
    BY DEF Init, PositionOK, Evaluating
  <1> QED BY <1>1, <1>2, <1>3 DEF TypeOK, Bounded

\* Every variable keeps its type, the three bounded lists of a session keep
\* their bounds, and before never looks at a stage that does not exist.
THEOREM TypeCorrect == Spec => []TypeOK
  <1>1. TypeOK /\ [Next]_vars => TypeOK'
    <2> SUFFICES ASSUME TypeOK, [Next]_vars PROVE TypeOK'
      OBVIOUS
    <2>1. ASSUME NEW c \in Calls, Before(c) PROVE TypeOK'
      BY <2>1, StageTypeOK, CommitTypeOK DEF Before
    <2>2. ASSUME NEW c \in Calls, Finish(c) \/ Cancel(c) PROVE TypeOK'
      BY <2>2, FinishTypeOK
    <2>3. ASSUME NEW c \in Calls,
                 Start(c) \/ ApproveOnce(c) \/ Reissue(c) \/ GrantApproval(c)
          PROVE  TypeOK'
      BY <2>3, HostTypeOK
    <2>4. CASE Host \/ Quiet \/ UNCHANGED vars
      BY <2>4, SessionTypeOK
    <2> QED BY <2>1, <2>2, <2>3, <2>4 DEF Next
  <1> QED BY <1>1, InitTypeOK, PTL DEF Spec
=============================================================================
