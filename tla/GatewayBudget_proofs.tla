------------------------ MODULE GatewayBudget_proofs ------------------------
(***************************************************************************)
(* Proofs about the money of a session: the reservations of the calls in   *)
(* flight add up to what the session records, and, where nothing suspends  *)
(* between the check of the budget and the reservation, the limit holds.   *)
(***************************************************************************)
EXTENDS Gateway_proofs

\* Only a call that runs, or was left while it ran, holds money, and no step
\* changes the tool a call is for.
Holders == \A c \in Calls : ctx[c].reserved > 0 => pc[c] \in Holding
ToolsFixed == \A c \in Calls : ctx[c].tool = Call[c].tool

\* Out of shadow mode such a call holds its cost.
FullyHeld ==
    /\ \A c \in Calls : pc[c] = "shadow" => gw.dry_run
    /\ ~gw.dry_run => \A c \in Calls : pc[c] \in Holding => ctx[c].reserved = Cost(ctx[c])

HoldInv ==
    TypeOK /\ IsFiniteSet(HeldCents) /\ ReservedIsHeld /\ Holders /\ ToolsFixed /\ FullyHeld

\* The budget has been checked and call c may still be admitted.
PastBudget(c) ==
    \/ pc[c] = "before" /\ \E i \in DOMAIN Stages : i < frame[c].idx /\ Stages[i] = "budget"
    \/ pc[c] \in {"decide", "commit"} /\ frame[c].final \in {"allow", "transform"}

Money == session.used + session.reserved

\* While a call is past the budget it keeps the event loop, and its cost fits.
BudgetInv ==
    /\ HoldInv
    /\ Enforces /\ BudgetLimit # NoLimit =>
          /\ Money <= BudgetLimit
          /\ \A c \in Calls :
                PastBudget(c) => loop = c /\ Money + Cost(ctx[c]) <= BudgetLimit
-----------------------------------------------------------------------------
(* Counting the money held. *)

\* A call holds no more than all calls together.
LEMMA HeldAtLeast ==
  ASSUME TypeOK, IsFiniteSet(HeldCents), NEW c \in Calls
  PROVE  /\ IsFiniteSet(HeldBy(c)) /\ Cardinality(HeldBy(c)) = ctx[c].reserved
         /\ HeldBy(c) \subseteq HeldCents
         /\ ctx[c].reserved \in Nat /\ Cardinality(HeldCents) \in Nat
         /\ ctx[c].reserved <= Cardinality(HeldCents)
  <1>1. ctx[c].reserved \in Nat
    BY DEF TypeOK, ContextType
  <1>2. IsFiniteSet(HeldBy(c)) /\ Cardinality(HeldBy(c)) = ctx[c].reserved
    BY <1>1, CentsCount DEF HeldBy
  <1>3. HeldBy(c) \subseteq HeldCents
    BY DEF HeldCents
  <1>4. Cardinality(HeldBy(c)) <= Cardinality(HeldCents)
    BY <1>3, FS_Subset
  <1> QED BY <1>1, <1>2, <1>3, <1>4, FS_CardinalityType

\* When one call's reservation changes, the total changes by the difference.
LEMMA HeldChange ==
  ASSUME TypeOK, TypeOK', IsFiniteSet(HeldCents), NEW c \in Calls,
         \A d \in Calls \ {c} : ctx'[d] = ctx[d]
  PROVE  /\ IsFiniteSet(HeldCents)'
         /\ Cardinality(HeldCents)' =
              Cardinality(HeldCents) - ctx[c].reserved + ctx'[c].reserved
  <1> DEFINE A == HeldBy(c)
             B == HeldBy(c)'
             H == HeldCents
             rest == H \ A
  <1>1. /\ IsFiniteSet(A) /\ Cardinality(A) = ctx[c].reserved /\ A \subseteq H
        /\ ctx[c].reserved \in Nat /\ Cardinality(H) \in Nat
    BY HeldAtLeast
  <1>2. ctx'[c].reserved \in Nat
    BY DEF TypeOK, ContextType
  <1>3. IsFiniteSet(B) /\ Cardinality(B) = ctx'[c].reserved
    BY <1>2, CentsCount DEF HeldBy
  <1>4. HeldCents' = rest \cup B
    <2>1. \A d \in Calls \ {c} : HeldBy(d)' = HeldBy(d)
      BY DEF HeldBy
    <2>2. \A e \in A, d \in Calls \ {c} : e \notin HeldBy(d)
      BY DEF HeldBy
    <2>3. HeldCents' = UNION {HeldBy(d)' : d \in Calls}
      BY DEF HeldCents
    <2>4. ASSUME NEW e PROVE e \in HeldCents' <=> e \in rest \cup B
      <3> HIDE DEF A, B
      <3>1. e \in HeldCents' <=> \E d \in Calls : e \in HeldBy(d)'
        BY <2>3
      <3>2. e \in H <=> \E d \in Calls : e \in HeldBy(d)
        BY DEF HeldCents
      <3>3. A = HeldBy(c) /\ B = HeldBy(c)'
        BY DEF A, B
      <3> QED BY <2>1, <2>2, <3>1, <3>2, <3>3
    <2> QED BY <2>4
  <1>5. rest \cap B = {}
    <2>1. ASSUME NEW e \in B, e \in H PROVE e \in A
      <3>1. PICK d \in Calls : e \in HeldBy(d)
        BY <2>1 DEF HeldCents
      <3>2. e[1] = c /\ e[1] = d
        BY <2>1, <3>1 DEF HeldBy
      <3> QED BY <3>1, <3>2
    <2> QED BY <2>1
  <1> HIDE DEF A, B
  <1>6. /\ IsFiniteSet(rest)
        /\ Cardinality(rest) = Cardinality(H) - Cardinality(A)
    <2>1. H \cap A = A
      BY <1>1
    <2> QED BY <2>1, FS_Difference
  <1> HIDE DEF rest, H
  <1>7. /\ IsFiniteSet(rest \cup B)
        /\ Cardinality(rest \cup B) = Cardinality(rest) + Cardinality(B) - Cardinality(rest \cap B)
    BY <1>3, <1>6, FS_Union
  <1>8. Cardinality(rest \cap B) = 0
    BY <1>5, FS_EmptySet
  <1>9. Cardinality(rest \cup B) = Cardinality(H) - ctx[c].reserved + ctx'[c].reserved
    BY <1>1, <1>2, <1>3, <1>6, <1>7, <1>8
  <1> QED BY <1>4, <1>7, <1>9 DEF H
-----------------------------------------------------------------------------
(* What a step of one call leaves alone. *)

CallStep(c) == \/ Start(c) \/ Before(c) \/ Finish(c) \/ Cancel(c)
               \/ ApproveOnce(c) \/ Reissue(c) \/ GrantApproval(c)

OthersStay(c) == \A d \in Calls \ {c} :
                    pc'[d] = pc[d] /\ frame'[d] = frame[d] /\ ctx'[d] = ctx[d]

LEMMA StepsOfOneCall ==
  ASSUME TypeOK, NEW c \in Calls, CallStep(c)
  PROVE  gw' = gw /\ Turn(c) /\ OthersStay(c)
  <1> USE DEF TypeOK, Turn, OthersStay, Goto
  <1>1. CASE StageAllows(c) \/ StageTransforms(c) \/ StageBlocks(c)
    BY <1>1 DEF StageAllows, StageTransforms, StageBlocks, NextStage, AtStage
  <1>2. CASE StageRaises(c)
    BY <1>2 DEF StageRaises, NextStage, AtStage
  <1>3. CASE EmitDecision(c) \/ EmitDecisionRaises(c) \/ AdmitShadow(c)
    BY <1>3 DEF EmitDecision, EmitDecisionRaises, AdmitShadow, LeaveBefore
  <1>4. CASE Deny(c) \/ RequireApproval(c) \/ Admit(c)
    BY <1>4 DEF Deny, RequireApproval, Admit, LeaveBefore
  <1>5. CASE ToolReturns(c) \/ ToolRaises(c) \/ ToolTimesOut(c) \/ AfterHook(c)
    BY <1>5 DEF ToolReturns, ToolRaises, ToolTimesOut, Fail, AfterHook
  <1>6. CASE Return(c) \/ ReturnRaises(c) \/ OutputGuardRejects(c)
    BY <1>6 DEF Return, ReturnRaises, OutputGuardRejects, SettleTo
  <1>7. CASE AfterHookRaises(c) \/ Cancel(c)
    BY <1>7 DEF AfterHookRaises, Cancel, LeaveBefore
  <1>8. CASE Start(c) \/ ApproveOnce(c) \/ Reissue(c) \/ GrantApproval(c)
    BY <1>8 DEF Start, ApproveOnce, Reissue, GrantApproval
  <1> QED BY <1>1, <1>2, <1>3, <1>4, <1>5, <1>6, <1>7, <1>8
          DEF CallStep, Before, Finish

\* Every step keeps the types: the four cases of TypeCorrect.
LEMMA CallStepType == ASSUME TypeOK, NEW c \in Calls, CallStep(c) PROVE TypeOK'
  BY StageTypeOK, CommitTypeOK, FinishTypeOK, HostTypeOK DEF CallStep, Before

-----------------------------------------------------------------------------
(* The steps of a call by what they do to the money. *)

\* Where call c may hold money.
MayHold(c) == pc[c] \in Holding

MoneyKept(c) ==
    /\ session'.used = session.used /\ session'.reserved = session.reserved
    /\ ctx'[c].reserved = ctx[c].reserved /\ ctx'[c].tool = ctx[c].tool
    /\ MayHold(c) => MayHold(c)'
    /\ MayHold(c)' => MayHold(c) \/ gw.dry_run
    /\ pc'[c] = "shadow" => gw.dry_run

\* Stages, audit, and the ends of before that admit nothing.
LEMMA BeforeKeepsMoney ==
  ASSUME HoldInv, NEW c \in Calls, Before(c), ~Admit(c)
  PROVE  MoneyKept(c)
  <1>1. TypeOK /\ Bounded(session) /\ ctx[c] \in ContextType /\ session \in SessionType
        /\ ApprovalKey(ctx[c]) \in Keys
    BY CurrentTypes, CostType DEF HoldInv, Bounded
  <1>2. ~MayHold(c)
    BY DEF Before, StageAllows, StageTransforms, StageBlocks, StageRaises, AtStage,
           EmitDecision, EmitDecisionRaises, AdmitShadow, Deny, RequireApproval, Admit,
           MayHold, Holding, Running
  <1>0. (MayHold(c)' => gw.dry_run) /\ (pc'[c] = "shadow" => gw.dry_run)
    <2>1. CASE AdmitShadow(c)
      BY <2>1 DEF AdmitShadow, HoldInv, FullyHeld
    <2>2. CASE ~AdmitShadow(c)
      <3>1. /\ pc'[c] \in {"before", "decide", "shadow", "commit", "aborted", "denied", "asked"}
            /\ pc'[c] = "shadow" => gw.dry_run
        BY <1>1, <2>2 DEF Before, StageAllows, StageTransforms, StageBlocks, StageRaises,
              NextStage, EmitDecision, EmitDecisionRaises, Deny, RequireApproval, ShadowOnly,
              Goto, TypeOK
      <3> QED BY <3>1 DEF MayHold, Holding, Running
    <2> QED BY <2>1, <2>2
  <1>3. /\ WithdrawOneShot(session, c).used = session.used
        /\ WithdrawOneShot(session, c).reserved = session.reserved
        /\ Bounded(WithdrawOneShot(session, c))
    BY <1>1, WithdrawType
  <1>4. CASE StageAllows(c) \/ StageBlocks(c) \/ StageRaises(c) \/ EmitDecision(c)
    BY <1>0, <1>2, <1>4 DEF StageAllows, StageBlocks, StageRaises, EmitDecision, MoneyKept
  <1>5. CASE StageTransforms(c) \/ AdmitShadow(c)
    <2>1. PICK a : ctx' = [ctx EXCEPT ![c].args = a]
      BY <1>5 DEF StageTransforms, AdmitShadow
    <2>2. ctx'[c].reserved = ctx[c].reserved /\ ctx'[c].tool = ctx[c].tool
      BY <1>1, <2>1 DEF TypeOK, ContextType
    <2>3. session' = session \/ session' = WithdrawOneShot(session, c)
      BY <1>5 DEF StageTransforms, AdmitShadow
    <2> QED BY <1>0, <1>2, <1>3, <2>2, <2>3 DEF MoneyKept
  <1>6. CASE EmitDecisionRaises(c) \/ Deny(c)
    BY <1>0, <1>2, <1>3, <1>6 DEF EmitDecisionRaises, Deny, MoneyKept
  <1>7. CASE RequireApproval(c)
    <2>1. /\ ctx' = ctx
          /\ session' = AddPending(WithdrawOneShot(session, c), ApprovalId(c),
                                   ApprovalKey(ctx[c]))
      BY <1>7 DEF RequireApproval
    <2>2. ApprovalId(c) \in ApprovalIds
      <3>1. frame[c].attempt > 0 /\ frame[c].attempt \in 0..MaxAttempts
        BY <1>1, <1>7, CurrentTypes DEF TypeOK, PositionOK, RequireApproval, Evaluating
      <3> QED BY <3>1, GatewayAssumption DEF ApprovalId
    <2>3. session'.used = session.used /\ session'.reserved = session.reserved
      BY <1>1, <1>3, <2>1, <2>2, AddPendingType
    <2> QED BY <1>0, <1>2, <2>1, <2>3 DEF MoneyKept
  <1> QED BY <1>4, <1>5, <1>6, <1>7 DEF Before

\* The start of a tool's execution and of its after hooks, and every way a call
\* that is neither settled nor released goes on or ends.
LEMMA OthersKeepMoney ==
  ASSUME HoldInv, NEW c \in Calls,
         \/ Start(c) \/ ToolReturns(c) \/ AfterHook(c) \/ AfterHookRaises(c)
         \/ Cancel(c) \/ ApproveOnce(c) \/ Reissue(c) \/ GrantApproval(c)
  PROVE  MoneyKept(c)
  <1>1. TypeOK /\ Bounded(session) /\ ctx[c] \in ContextType /\ session \in SessionType
    BY CurrentTypes DEF HoldInv, Bounded
  <1>2. CASE Start(c) \/ ToolReturns(c) \/ AfterHookRaises(c)
    <2>1. (MayHold(c) <=> MayHold(c)') /\ pc'[c] # "shadow"
      BY <1>1, <1>2 DEF Start, ToolReturns, AfterHookRaises, Goto, MayHold, Holding, Running,
                        TypeOK
    <2> QED BY <1>2, <2>1 DEF Start, ToolReturns, AfterHookRaises, MoneyKept
  <1>3. CASE AfterHook(c)
    <2>1. pc' = pc /\ ctx' = ctx /\ session' = AfterStage(session, ctx[c], Here(c))
      BY <1>3 DEF AfterHook
    <2>2. session'.used = session.used /\ session'.reserved = session.reserved
      BY <1>1, <2>1, AfterStageType
    <2>3. pc'[c] # "shadow"
      BY <1>3, <2>1 DEF AfterHook
    <2> QED BY <2>1, <2>2, <2>3 DEF MoneyKept, MayHold
  <1>4. CASE Cancel(c)
    <2>1. ctx' = ctx /\ session' = WithdrawOneShot(session, c)
      BY <1>4 DEF Cancel
    <2>2. \/ pc[c] \in Evaluating /\ pc'[c] = "aborted"
          \/ pc[c] \in Running /\ pc'[c] \in {"lost", "uncharged"}
      BY <1>1, <1>4 DEF Cancel, Goto, Evaluating, Running, TypeOK
    <2>3. (MayHold(c) <=> MayHold(c)') /\ pc'[c] # "shadow"
      BY <2>2 DEF MayHold, Holding, Running, Evaluating
    <2>4. session'.used = session.used /\ session'.reserved = session.reserved
      BY <1>1, <2>1, WithdrawType
    <2> QED BY <2>1, <2>3, <2>4 DEF MoneyKept
  <1>5. CASE ApproveOnce(c) \/ GrantApproval(c)
    <2>1. PICK a : session' = [session EXCEPT !.approvals = a]
      BY <1>5 DEF ApproveOnce, GrantApproval
    <2>2. session'.used = session.used /\ session'.reserved = session.reserved
      BY <1>1, <2>1 DEF SessionType
    <2>3. ctx' = ctx /\ ~MayHold(c) /\ ~MayHold(c)' /\ pc'[c] # "shadow"
      BY <1>1, <1>5 DEF ApproveOnce, GrantApproval, MayHold, Holding, Running, Goto, TypeOK
    <2> QED BY <2>2, <2>3 DEF MoneyKept
  <1>6. CASE Reissue(c)
    <2>1. pc[c] = "asked" /\ ctx' = [ctx EXCEPT ![c] = NewContext(Call[c])]
          /\ session' = session
      BY <1>6 DEF Reissue
    <2>2. ~MayHold(c) /\ ctx[c].reserved = 0
      BY <1>1, <2>1 DEF MayHold, Holding, Running, HoldInv, Holders, ContextType
    <2>3. ctx'[c] = NewContext(Call[c]) /\ ~MayHold(c)' /\ pc'[c] # "shadow"
      BY <1>1, <1>6, <2>1 DEF TypeOK, Reissue, Goto, MayHold, Holding, Running
    <2>4. ctx'[c].reserved = 0 /\ ctx'[c].tool = Call[c].tool
      BY <2>3 DEF NewContext
    <2> QED BY <2>1, <2>2, <2>3, <2>4 DEF MoneyKept, HoldInv, ToolsFixed
  <1> QED BY <1>2, <1>3, <1>4, <1>5, <1>6
\* An admitted call reserves its cost.
LEMMA AdmitMoney ==
  ASSUME HoldInv, NEW c \in Calls, Admit(c)
  PROVE  /\ session'.used = session.used
         /\ session'.reserved = session.reserved + Cost(ctx[c])
         /\ ctx[c].reserved = 0 /\ ctx'[c].reserved = Cost(ctx[c])
         /\ ctx'[c].tool = ctx[c].tool /\ pc'[c] = "executing" /\ MayHold(c)'
  <1> DEFINE r == Reserve(session, ctx[c])
  <1>1. TypeOK /\ Bounded(session) /\ ctx[c] \in ContextType
    BY CurrentTypes DEF HoldInv
  <1>2. /\ pc[c] = "commit" /\ Goto(c, "executing")
        /\ session' = WithdrawOneShot(r[1], c) /\ ctx' = [ctx EXCEPT ![c] = r[2]]
    BY DEF Admit
  <1>3. ctx[c].reserved = 0
    BY <1>1, <1>2 DEF HoldInv, Holders, Holding, Running, ContextType
  <1>4. /\ Bounded(r[1]) /\ r[1].used = session.used
        /\ r[1].reserved = session.reserved + Cost(ctx[c])
        /\ r[2].reserved = Cost(ctx[c]) /\ r[2].tool = ctx[c].tool
    BY <1>1, <1>3, ReserveType
  <1> HIDE DEF r
  <1>5. session'.used = r[1].used /\ session'.reserved = r[1].reserved
    BY <1>2, <1>4, WithdrawType
  <1>6. ctx'[c] = r[2] /\ pc'[c] = "executing"
    BY <1>1, <1>2 DEF TypeOK, Goto
  <1> QED BY <1>3, <1>4, <1>5, <1>6 DEF MayHold, Holding, Running

\* A failed execution gives back exactly what the call holds, and a settled one
\* gives it back and is charged.
LEMMA EndMoney ==
  ASSUME HoldInv, NEW c \in Calls,
         \/ ToolRaises(c) \/ ToolTimesOut(c)
         \/ Return(c) \/ ReturnRaises(c) \/ OutputGuardRejects(c)
  PROVE  /\ \/ pc'[c] = "failed" /\ session'.used = session.used
            \/ pc'[c] \in {"returned", "withheld"}
                 /\ session'.used = session.used + Cost(ctx[c])
         /\ session'.reserved = session.reserved - ctx[c].reserved
         /\ ctx'[c].reserved = 0 /\ ctx'[c].tool = ctx[c].tool
         /\ pc[c] \in Running
  <1>1. TypeOK /\ Bounded(session) /\ ctx[c] \in ContextType /\ IsFiniteSet(HeldCents)
        /\ session.reserved = Cardinality(HeldCents)
    BY CurrentTypes DEF HoldInv, ReservedIsHeld
  <1>2. /\ ctx[c].reserved \in Nat /\ session.reserved \in Nat
        /\ ctx[c].reserved <= session.reserved
    BY <1>1, HeldAtLeast
  <1>3. (IF session.reserved > ctx[c].reserved
           THEN session.reserved - ctx[c].reserved ELSE 0)
          = session.reserved - ctx[c].reserved
    BY <1>2
  <1>4. CASE ToolRaises(c) \/ ToolTimesOut(c)
    <2> DEFINE r == Release(session, ctx[c])
    <2>1. /\ pc[c] = "executing" /\ Goto(c, "failed")
          /\ session' = r[1] /\ ctx' = [ctx EXCEPT ![c] = r[2]]
      BY <1>4 DEF ToolRaises, ToolTimesOut, Fail
    <2>2. /\ r[2].tool = ctx[c].tool /\ r[2].reserved = 0 /\ r[1].used = session.used
          /\ r[1].reserved = session.reserved - ctx[c].reserved
      BY <1>1, <1>3, ReleaseType
    <2> HIDE DEF r
    <2>3. ctx'[c] = r[2] /\ pc'[c] = "failed"
      BY <1>1, <2>1 DEF TypeOK, Goto
    <2> QED BY <2>1, <2>2, <2>3 DEF Running
  <1>5. CASE Return(c) \/ ReturnRaises(c) \/ OutputGuardRejects(c)
    <2> DEFINE r == Settle(session, ctx[c])
    <2>1. PICK l \in {"returned", "withheld"} : pc[c] = "after" /\ SettleTo(c, l)
      BY <1>5 DEF Return, ReturnRaises, OutputGuardRejects
    <2>2. /\ Goto(c, l)
          /\ session' = r[1] /\ ctx' = [ctx EXCEPT ![c] = r[2]]
      BY <2>1 DEF SettleTo
    <2>3. /\ r[2].tool = ctx[c].tool /\ r[2].reserved = 0
          /\ r[1].used = session.used + Cost(ctx[c])
          /\ r[1].reserved = session.reserved - ctx[c].reserved
      BY <1>1, <1>3, SettleType
    <2> HIDE DEF r
    <2>4. ctx'[c] = r[2] /\ pc'[c] = l
      BY <1>1, <2>2 DEF TypeOK, Goto
    <2> QED BY <2>1, <2>2, <2>3, <2>4 DEF Running
  <1> QED BY <1>4, <1>5

\* The three kinds together.
LEMMA CallStepKinds ==
  ASSUME HoldInv, NEW c \in Calls, CallStep(c)
  PROVE  \/ MoneyKept(c) /\ ~Admit(c)
         \/ Admit(c)
         \/ \/ ToolRaises(c) \/ ToolTimesOut(c)
            \/ Return(c) \/ ReturnRaises(c) \/ OutputGuardRejects(c)
  <1>1. CASE Before(c)
    BY <1>1, BeforeKeepsMoney
  <1>2. CASE \/ Start(c) \/ ToolReturns(c) \/ AfterHook(c) \/ AfterHookRaises(c)
             \/ Cancel(c) \/ ApproveOnce(c) \/ Reissue(c) \/ GrantApproval(c)
    BY <1>2, OthersKeepMoney
  <1> QED BY <1>1, <1>2 DEF CallStep, Finish

-----------------------------------------------------------------------------
(* What is reserved is held. *)

LEMMA HoldStep ==
  ASSUME HoldInv, NEW c \in Calls, CallStep(c)
  PROVE  HoldInv'
  <1>1. TypeOK /\ TypeOK' /\ OthersStay(c) /\ IsFiniteSet(HeldCents)
        /\ session.reserved = Cardinality(HeldCents)
    BY CallStepType, StepsOfOneCall DEF HoldInv, ReservedIsHeld
  <1>2. /\ ctx[c].reserved \in Nat /\ Cardinality(HeldCents) \in Nat
        /\ IsFiniteSet(HeldCents)'
        /\ Cardinality(HeldCents)' =
             Cardinality(HeldCents) - ctx[c].reserved + ctx'[c].reserved
    BY <1>1, HeldAtLeast, HeldChange DEF OthersStay
  <1>3. /\ session'.reserved = session.reserved - ctx[c].reserved + ctx'[c].reserved
        /\ ctx'[c].tool = ctx[c].tool
        /\ ctx'[c].reserved > 0 => MayHold(c)'
    <2>0. ctx[c].reserved > 0 => MayHold(c)
      BY DEF HoldInv, Holders, MayHold
    <2>1. CASE MoneyKept(c)
      BY <1>1, <1>2, <2>0, <2>1 DEF MoneyKept
    <2>2. CASE Admit(c)
      BY <1>1, <1>2, <2>2, AdmitMoney
    <2>3. CASE \/ ToolRaises(c) \/ ToolTimesOut(c)
               \/ Return(c) \/ ReturnRaises(c) \/ OutputGuardRejects(c)
      BY <1>1, <1>2, <2>3, EndMoney
    <2> QED BY <2>1, <2>2, <2>3, CallStepKinds
  <1>6. /\ pc'[c] = "shadow" => gw.dry_run
        /\ ~gw.dry_run /\ MayHold(c)' => ctx'[c].reserved = Cost(ctx'[c])
    <2>1. Cost(ctx'[c]) = Cost(ctx[c])
      BY <1>3 DEF Cost
    <2>2. ~gw.dry_run /\ MayHold(c) => ctx[c].reserved = Cost(ctx[c])
      BY DEF HoldInv, FullyHeld, MayHold
    <2>3. CASE MoneyKept(c)
      BY <2>1, <2>2, <2>3 DEF MoneyKept
    <2>4. CASE Admit(c)
      BY <2>1, <2>4, AdmitMoney
    <2>5. CASE \/ ToolRaises(c) \/ ToolTimesOut(c)
               \/ Return(c) \/ ReturnRaises(c) \/ OutputGuardRejects(c)
      <3>1. pc'[c] \in {"failed", "returned", "withheld"}
        BY <2>5, EndMoney
      <3> QED BY <3>1 DEF MayHold, Holding, Running
    <2> QED BY <2>3, <2>4, <2>5, CallStepKinds
  <1>7. FullyHeld'
    <2>1. gw' = gw
      BY <1>1, StepsOfOneCall
    <2> SUFFICES ASSUME NEW d \in Calls
                 PROVE  /\ pc'[d] = "shadow" => gw.dry_run
                        /\ ~gw.dry_run /\ MayHold(d)' => ctx'[d].reserved = Cost(ctx'[d])
      BY <2>1 DEF FullyHeld, MayHold, Cost
    <2>2. CASE d = c
      BY <1>6, <2>2
    <2>3. CASE d # c
      BY <1>1, <2>3 DEF HoldInv, FullyHeld, OthersStay, MayHold
    <2> QED BY <2>2, <2>3
  <1>4. ReservedIsHeld'
    BY <1>1, <1>2, <1>3 DEF ReservedIsHeld
  <1>5. Holders' /\ ToolsFixed'
    <2> SUFFICES ASSUME NEW d \in Calls
                 PROVE  /\ ctx'[d].reserved > 0 => MayHold(d)'
                        /\ ctx'[d].tool = Call[d].tool
      BY DEF Holders, ToolsFixed, MayHold
    <2>1. CASE d = c
      BY <1>3, <2>1 DEF HoldInv, ToolsFixed
    <2>2. CASE d # c
      BY <1>1, <2>2 DEF HoldInv, Holders, ToolsFixed, OthersStay, MayHold
    <2> QED BY <2>1, <2>2
  <1> QED BY <1>1, <1>2, <1>4, <1>5, <1>7 DEF HoldInv

\* The steps of the host, which no call takes, leave the calls and money alone.
LEMMA HostKeepsMoney ==
  ASSUME TypeOK, Host \/ Quiet \/ UNCHANGED vars
  PROVE  /\ UNCHANGED <<gw, loop, pc, frame, ctx>>
         /\ session'.used = session.used /\ session'.reserved = session.reserved
  <1>1. Bounded(session) /\ session \in SessionType
    BY DEF TypeOK, Bounded
  <1>2. CASE GrantApprovalById
    <2>1. PICK i \in DOMAIN session.pending : session' = RedeemPending(session, i)
      BY <1>2 DEF GrantApprovalById
    <2> QED BY <1>1, <1>2, <2>1, RedeemPendingType DEF GrantApprovalById
  <1>3. CASE ClearTaint \/ WindowPasses
    BY <1>1, <1>3 DEF ClearTaint, WindowPasses, SessionType
  <1>4. CASE UNCHANGED vars
    BY <1>4 DEF vars
  <1> QED BY <1>2, <1>3, <1>4 DEF Host, Quiet

LEMMA HoldInductive == HoldInv /\ [Next]_vars => HoldInv'
  <1> SUFFICES ASSUME HoldInv, [Next]_vars PROVE HoldInv'
    OBVIOUS
  <1>1. ASSUME NEW c \in Calls, CallStep(c) PROVE HoldInv'
    BY <1>1, HoldStep
  <1>2. CASE Host \/ Quiet \/ UNCHANGED vars
    <2>1. /\ TypeOK' /\ UNCHANGED <<gw, pc, ctx>> /\ session'.reserved = session.reserved
      BY <1>2, SessionTypeOK, HostKeepsMoney DEF HoldInv
    <2> QED BY <2>1 DEF HoldInv, ReservedIsHeld, HeldCents, HeldBy, Holders, ToolsFixed, FullyHeld,
                       Cost
  <1> QED BY <1>1, <1>2 DEF Next, CallStep

LEMMA HoldInitially == Init => HoldInv
  <1> SUFFICES ASSUME Init PROVE HoldInv
    OBVIOUS
  <1>1. TypeOK
    BY InitTypeOK
  <1>2. ASSUME NEW c \in Calls
        PROVE  ctx[c].reserved = 0 /\ ctx[c].tool = Call[c].tool
    <2>1. ctx[c] = NewContext(Call[c])
      BY DEF Init
    <2> QED BY <2>1 DEF NewContext
  <1>3. Holders /\ ToolsFixed /\ FullyHeld
    <2>1. ~(0 > 0)
      OBVIOUS
    <2>2. \A c \in Calls : pc[c] = "idle"
      BY DEF Init
    <2> QED BY <1>2, <2>1, <2>2 DEF Holders, ToolsFixed, FullyHeld, Holding, Running
  <1>4. HeldCents = {}
    <2>1. \A c \in Calls : ctx[c].reserved = 0
      BY <1>2
    <2>2. \A n \in 1..0 : FALSE
      OBVIOUS
    <2>3. \A c \in Calls : \A e \in HeldBy(c) : FALSE
      BY <2>1, <2>2 DEF HeldBy
    <2>4. ASSUME NEW e \in HeldCents PROVE FALSE
      <3>1. PICK c \in Calls : e \in HeldBy(c)
        BY <2>4 DEF HeldCents
      <3> QED BY <2>3, <3>1
    <2> QED BY <2>4
  <1>5. IsFiniteSet(HeldCents) /\ session.reserved = Cardinality(HeldCents)
    <2>1. session.reserved = 0
      BY DEF Init, NewSession
    <2> QED BY <1>4, <2>1, FS_EmptySet
  <1> QED BY <1>1, <1>3, <1>5 DEF HoldInv, ReservedIsHeld

\* budget_reserved_usd is exactly what the contexts of the calls hold, whatever
\* awaits suspend and whatever fails: no reservation is released twice, or
\* settled without being given back.
THEOREM ReservedMoneyIsHeld == Spec => []ReservedIsHeld
  <1>1. HoldInv => ReservedIsHeld
    BY DEF HoldInv
  <1> QED BY <1>1, HoldInitially, HoldInductive, PTL DEF Spec
-----------------------------------------------------------------------------
(* The session budget. *)

LEMMA MoneyType ==
  ASSUME TypeOK, NEW c \in Calls
  PROVE  /\ session.used \in Nat /\ session.reserved \in Nat /\ Money \in Nat
         /\ Cost(ctx[c]) \in Nat /\ ctx[c].reserved \in Nat
         /\ BudgetLimit # NoLimit => BudgetLimit \in Nat
  <1>1. session.used \in Nat /\ session.reserved \in Nat
    BY DEF TypeOK, SessionType
  <1>2. Cost(ctx[c]) \in Nat /\ ctx[c].reserved \in Nat
    BY CostType DEF TypeOK, ContextType
  <1>3. BudgetLimit # NoLimit => BudgetLimit \in Nat
    BY StateAssumption
  <1> QED BY <1>1, <1>2, <1>3 DEF Money

\* A step of call c keeps the invariant if what it does to c and to the money
\* does: no other call is past the budget, as it would hold the event loop.
LEMMA BudgetStep ==
  ASSUME BudgetInv, NEW c \in Calls, CallStep(c),
         Enforces /\ BudgetLimit # NoLimit =>
            /\ Money' <= BudgetLimit
            /\ PastBudget(c)' => loop' = c /\ Money' + Cost(ctx'[c]) <= BudgetLimit
  PROVE  BudgetInv'
  <1>1. HoldInv' /\ TypeOK /\ gw' = gw /\ Turn(c) /\ OthersStay(c)
    BY HoldStep, StepsOfOneCall DEF BudgetInv, HoldInv
  <1>2. Enforces' = Enforces
    BY <1>1 DEF Enforces
  <1>5. ASSUME Enforces, BudgetLimit # NoLimit, NEW d \in Calls, PastBudget(d)'
        PROVE  loop' = d /\ Money' + Cost(ctx'[d]) <= BudgetLimit
    <2>1. CASE d = c
      BY <1>5, <2>1
    <2>2. CASE d # c
      <3>1. pc'[d] = pc[d] /\ frame'[d] = frame[d]
        BY <1>1, <2>2 DEF OthersStay
      <3>2. PastBudget(d)
        BY <1>5, <3>1 DEF PastBudget
      <3>3. loop = d /\ loop \in {c, NoCall} /\ d # NoCall
        BY <1>1, <1>5, <3>2, GatewayAssumption DEF BudgetInv, Turn
      <3> QED BY <2>2, <3>3
    <2> QED BY <2>1, <2>2
  <1>6. \A d \in Calls : Cost(ctx[d])' = Cost(ctx'[d])
    BY DEF Cost
  <1> QED BY <1>1, <1>2, <1>5, <1>6 DEF BudgetInv

\* A call that passes a stage and is past the budget now: either it was before,
\* or the stage is the budget, which found that the cost fits; and the stage did
\* not give the event loop away.
LEMMA PassedBudget ==
  ASSUME AtomicLimits, BudgetInv, Enforces, BudgetLimit # NoLimit, NEW c \in Calls,
         AtStage(c), NextStage(c), frame'[c].idx = frame[c].idx + 1, PastBudget(c)',
         NEW v \in {"allow", "transform"}, v \in Verdicts(session, ctx[c], Here(c))
  PROVE  loop' = c /\ Money + Cost(ctx[c]) <= BudgetLimit
  <1> DEFINE n == frame[c].idx
  <1>1. /\ TypeOK /\ pc[c] = "before" /\ n \in DOMAIN Stages
        /\ n \in 1..Len(Stages) /\ Len(Stages) \in Nat
    BY StagesType DEF AtStage, BudgetInv, HoldInv, TypeOK, PositionOK
  <1>2. pc'[c] = IF n = Len(Stages) THEN "decide" ELSE "before"
    BY <1>1 DEF NextStage, Goto, TypeOK
  <1>3. PICK i \in DOMAIN Stages : Stages[i] = "budget" /\ i <= n
    <2>1. CASE n = Len(Stages)
      BY <1>1, <2>1, StagesType DEF AtomicLimits
    <2>2. CASE n # Len(Stages)
      <3>1. PICK i \in DOMAIN Stages : i < n + 1 /\ Stages[i] = "budget"
        BY <1>2, <2>2 DEF PastBudget
      <3> QED BY <1>1, <3>1, StagesType
    <2> QED BY <2>1, <2>2
  <1>4. Here(c) \notin Suspending
    BY <1>1, <1>3, StagesType DEF AtomicLimits, Here
  <1>5. loop' = c
    BY <1>4 DEF NextStage, Await
  <1>6. CASE i < n
    <2>1. PastBudget(c)
      BY <1>1, <1>3, <1>6 DEF PastBudget
    <2> QED BY <1>5, <2>1 DEF BudgetInv
  <1>7. CASE i = n
    <2>1. Here(c) = "budget"
      BY <1>3, <1>7 DEF Here
    <2>2. v = BudgetVerdict(session, ctx[c])
      BY <2>1 DEF Verdicts
    <2>3. ~(session.used + session.reserved + Cost(ctx[c]) > BudgetLimit)
      BY <2>2 DEF BudgetVerdict
    <2> QED BY <1>1, <1>5, <2>3, MoneyType DEF Money
  <1> QED BY <1>1, <1>3, <1>6, <1>7, StagesType
\* The stages, and the audit of the decision.
LEMMA StagesWithinBudget ==
  ASSUME AtomicLimits, BudgetInv, NEW c \in Calls,
         \/ StageAllows(c) \/ StageTransforms(c) \/ StageBlocks(c) \/ StageRaises(c)
         \/ EmitDecision(c)
  PROVE  BudgetInv'
  <1>1. /\ TypeOK /\ HoldInv /\ CallStep(c) /\ ~Admit(c) /\ Before(c)
        /\ frame[c] \in FrameType /\ frame[c].idx \in Nat
    <2>1. TypeOK /\ HoldInv /\ CallStep(c) /\ Before(c)
      BY DEF BudgetInv, HoldInv, CallStep, Before
    <2>2. ~Admit(c)
      BY <2>1 DEF StageAllows, StageTransforms, StageBlocks, StageRaises, AtStage, NextStage,
             EmitDecision, Admit, Goto, TypeOK
    <2>3. frame[c] \in FrameType /\ frame[c].idx \in 0..(Len(Stages) + 1)
      BY <2>1, CurrentTypes
    <2> QED BY <2>1, <2>2, <2>3, StagesType
  <1>2. MoneyKept(c)
    BY <1>1, BeforeKeepsMoney
  <1>3. Money' = Money /\ Cost(ctx'[c]) = Cost(ctx[c])
    BY <1>2 DEF MoneyKept, Money, Cost
  <1>4. Enforces /\ BudgetLimit # NoLimit => Money <= BudgetLimit
    BY DEF BudgetInv
  <1>5. CASE StageAllows(c) \/ StageTransforms(c)
    <2>1. PICK v \in {"allow", "transform"} : v \in Verdicts(session, ctx[c], Here(c))
      BY <1>5 DEF StageAllows, StageTransforms
    <2>2. AtStage(c) /\ NextStage(c)
      BY <1>5 DEF StageAllows, StageTransforms
    <2>3. frame'[c].idx = frame[c].idx + 1
      BY <1>1, <1>5 DEF StageAllows, StageTransforms, TypeOK, FrameType
    <2>4. pc'[c] \in {"before", "decide"}
      BY <1>1, <2>2 DEF NextStage, Goto, TypeOK
    <2>5. Enforces /\ BudgetLimit # NoLimit /\ PastBudget(c)' =>
             loop' = c /\ Money + Cost(ctx[c]) <= BudgetLimit
      BY <2>1, <2>2, <2>3, PassedBudget
    <2> QED BY <1>1, <1>3, <1>4, <2>4, <2>5, BudgetStep
  <1>6. ASSUME Goto(c, "decide"), frame'[c].final \in {"deny", "require_approval"}
        PROVE  BudgetInv'
    <2>1. pc'[c] = "decide"
      BY <1>1, <1>6 DEF Goto, TypeOK
    <2>2. ~PastBudget(c)'
      BY <1>6, <2>1 DEF PastBudget
    <2> QED BY <1>1, <1>3, <1>4, <2>1, <2>2, BudgetStep
  <1>7. CASE StageBlocks(c)
    <2>1. PICK v \in {"deny", "require_approval"} : frame' = [frame EXCEPT ![c].final = v]
      BY <1>7 DEF StageBlocks
    <2>2. frame'[c].final = v
      BY <1>1, <2>1 DEF TypeOK, FrameType
    <2> QED BY <1>6, <1>7, <2>2 DEF StageBlocks
  <1>8. CASE StageRaises(c)
    <2>1. CASE frame' = [frame EXCEPT ![c].final = "deny"] /\ Goto(c, "decide")
      <3>1. frame'[c].final = "deny"
        BY <1>1, <2>1 DEF TypeOK, FrameType
      <3> QED BY <1>6, <2>1, <3>1
    <2>2. CASE ~gw.fail_closed /\ NextStage(c)
      <3>1. ~Enforces
        BY <2>2 DEF Enforces
      <3>2. pc'[c] \in {"before", "decide"}
        BY <1>1, <2>2 DEF NextStage, Goto, TypeOK
      <3> QED BY <1>1, <3>1, <3>2, BudgetStep
    <2> QED BY <1>8, <2>1, <2>2 DEF StageRaises
  <1>9. CASE EmitDecision(c)
    <2>1. pc[c] = "decide" /\ frame' = frame /\ loop' = c /\ session' = session /\ ctx' = ctx
      BY <1>9 DEF EmitDecision, Await, AtomicLimits
    <2>2. pc'[c] = IF ShadowOnly(c) THEN "shadow" ELSE "commit"
      BY <1>1, <1>9 DEF EmitDecision, Goto, TypeOK
    <2>3. PastBudget(c)' => PastBudget(c)
      BY <2>1, <2>2 DEF PastBudget
    <2>4. Enforces /\ BudgetLimit # NoLimit /\ PastBudget(c) =>
             Money + Cost(ctx[c]) <= BudgetLimit
      BY DEF BudgetInv
    <2> QED BY <1>1, <1>3, <1>4, <2>1, <2>2, <2>3, <2>4, BudgetStep
  <1> QED BY <1>5, <1>7, <1>8, <1>9

\* The ends of before.
LEMMA CommitWithinBudget ==
  ASSUME BudgetInv, NEW c \in Calls,
         \/ EmitDecisionRaises(c) \/ AdmitShadow(c) \/ Deny(c) \/ RequireApproval(c)
         \/ Admit(c)
  PROVE  BudgetInv'
  <1>1. TypeOK /\ HoldInv /\ CallStep(c) /\ Before(c)
    BY DEF BudgetInv, HoldInv, CallStep, Before
  <1>2. Enforces /\ BudgetLimit # NoLimit => Money <= BudgetLimit
    BY DEF BudgetInv
  <1>3. CASE Admit(c)
    <2>1. /\ Money' = Money + Cost(ctx[c]) /\ Cost(ctx'[c]) = Cost(ctx[c])
          /\ ctx'[c].reserved = Cost(ctx[c])
      BY <1>1, <1>3, AdmitMoney, MoneyType DEF Money, Cost
    <2>2. pc[c] = "commit" /\ frame[c].final \in {"allow", "transform"}
          /\ pc'[c] = "executing"
      BY <1>1, <1>3 DEF Admit, Goto, TypeOK
    <2>3. PastBudget(c) /\ ~PastBudget(c)'
      BY <2>2 DEF PastBudget
    <2>4. Enforces /\ BudgetLimit # NoLimit => Money + Cost(ctx[c]) <= BudgetLimit
      BY <2>3 DEF BudgetInv
    <2> QED BY <1>1, <2>1, <2>2, <2>3, <2>4, BudgetStep
  <1>4. CASE ~Admit(c)
    <2>1. MoneyKept(c)
      BY <1>1, <1>4, BeforeKeepsMoney
    <2>2. Money' = Money
      BY <2>1 DEF MoneyKept, Money
    <2>3. pc'[c] \in {"denied", "aborted", "executing", "asked"}
      BY <1>1, <1>4 DEF EmitDecisionRaises, AdmitShadow, Deny, RequireApproval, Goto, TypeOK
    <2>4. ~PastBudget(c)'
      BY <2>3 DEF PastBudget
    <2> QED BY <1>1, <1>2, <2>2, <2>4, BudgetStep
  <1> QED BY <1>3, <1>4

\* Execution, after, cancellation, and what the host does for one call.
LEMMA RestWithinBudget ==
  ASSUME BudgetInv, NEW c \in Calls, CallStep(c), ~Before(c)
  PROVE  BudgetInv'
  <1>1. TypeOK /\ HoldInv
    BY DEF BudgetInv, HoldInv
  <1>2. Enforces /\ BudgetLimit # NoLimit => Money <= BudgetLimit
    BY DEF BudgetInv
  <1>3. CASE \/ ToolRaises(c) \/ ToolTimesOut(c)
             \/ Return(c) \/ ReturnRaises(c) \/ OutputGuardRejects(c)
    <2>1. /\ session'.used \in {session.used, session.used + Cost(ctx[c])}
          /\ session'.reserved = session.reserved - ctx[c].reserved
          /\ pc[c] \in Running /\ pc'[c] \in {"failed", "returned", "withheld"}
      BY <1>1, <1>3, EndMoney
    <2>2. Enforces => ctx[c].reserved = Cost(ctx[c])
      BY <2>1 DEF BudgetInv, HoldInv, FullyHeld, Holding, Enforces
    <2>3. Enforces => Money' <= Money
      BY <1>1, <2>1, <2>2, MoneyType DEF Money
    <2>4. Money \in Nat /\ Money' \in Nat /\ (BudgetLimit # NoLimit => BudgetLimit \in Nat)
      <3>1. TypeOK'
        BY <1>1, CallStepType
      <3>2. session'.used \in Nat /\ session'.reserved \in Nat
        BY <3>1 DEF TypeOK, SessionType
      <3>3. Money \in Nat /\ (BudgetLimit # NoLimit => BudgetLimit \in Nat)
        BY <1>1, MoneyType
      <3>4. Money' \in Nat
        BY <3>2 DEF Money
      <3> QED BY <3>3, <3>4
    <2>5. ASSUME Enforces, BudgetLimit # NoLimit PROVE Money' <= BudgetLimit
      <3>1. PICK now, later, limit \in Nat :
               now = Money /\ later = Money' /\ limit = BudgetLimit
        BY <2>4, <2>5
      <3>2. later <= now /\ now <= limit
        BY <1>2, <2>3, <2>5, <3>1
      <3> QED BY <3>1, <3>2
    <2>6. ~PastBudget(c)'
      BY <2>1 DEF PastBudget
    <2> QED BY <2>1, <2>5, <2>6, BudgetStep
  <1>4. CASE \/ Start(c) \/ ToolReturns(c) \/ AfterHook(c) \/ AfterHookRaises(c)
             \/ Cancel(c) \/ ApproveOnce(c) \/ Reissue(c) \/ GrantApproval(c)
    <2>1. MoneyKept(c)
      BY <1>1, <1>4, OthersKeepMoney
    <2>2. Money' = Money /\ Cost(ctx'[c]) = Cost(ctx[c])
          /\ ctx'[c].reserved = ctx[c].reserved
      BY <2>1 DEF MoneyKept, Money, Cost
    <2>3. CASE Start(c) \/ ApproveOnce(c) \/ Reissue(c)
      <3>1. pc'[c] = "before" /\ frame'[c].idx = 1
        BY <1>1, <2>3 DEF Start, ApproveOnce, Reissue, Goto, TypeOK, FrameType
      <3>2. ~PastBudget(c)'
        BY <3>1, StagesType DEF PastBudget
      <3> QED BY <1>2, <2>2, <3>1, <3>2, BudgetStep
    <2>4. CASE \/ ToolReturns(c) \/ AfterHook(c) \/ AfterHookRaises(c) \/ Cancel(c)
               \/ GrantApproval(c)
      <3>1. pc'[c] \in {"after", "lost", "uncharged", "aborted", "asked"}
        BY <1>1, <2>4 DEF ToolReturns, AfterHook, AfterHookRaises, Cancel, GrantApproval,
                          Goto, TypeOK, Running
      <3>2. ~PastBudget(c)'
        BY <3>1 DEF PastBudget
      <3> QED BY <1>2, <2>2, <3>2, BudgetStep
    <2> QED BY <1>4, <2>3, <2>4
  <1> QED BY <1>3, <1>4 DEF CallStep, Finish

LEMMA BudgetInductive == AtomicLimits /\ BudgetInv /\ [Next]_vars => BudgetInv'
  <1> SUFFICES ASSUME AtomicLimits, BudgetInv, [Next]_vars PROVE BudgetInv'
    OBVIOUS
  <1>1. ASSUME NEW c \in Calls, CallStep(c) PROVE BudgetInv'
    <2>1. CASE Before(c)
      BY <2>1, StagesWithinBudget, CommitWithinBudget DEF Before
    <2>2. CASE ~Before(c)
      BY <1>1, <2>2, RestWithinBudget
    <2> QED BY <2>1, <2>2
  <1>2. CASE Host \/ Quiet \/ UNCHANGED vars
    <2>1. /\ UNCHANGED <<gw, loop, pc, frame, ctx>> /\ HoldInv'
          /\ session'.used = session.used /\ session'.reserved = session.reserved
      BY <1>2, HostKeepsMoney, HoldInductive DEF BudgetInv, HoldInv
    <2>2. Money' = Money
      BY <2>1 DEF Money
    <2> QED BY <2>1, <2>2 DEF BudgetInv, Enforces, PastBudget, Cost
  <1> QED BY <1>1, <1>2 DEF Next, CallStep

LEMMA BudgetInitially == Init => BudgetInv
  <1> SUFFICES ASSUME Init PROVE BudgetInv
    OBVIOUS
  <1>1. HoldInv
    BY HoldInitially
  <1>2. \A c \in Calls : pc[c] = "idle"
    BY DEF Init
  <1>3. Money = 0
    BY DEF Init, NewSession, Money
  <1>4. BudgetLimit # NoLimit => 0 <= BudgetLimit
    BY StateAssumption
  <1> QED BY <1>1, <1>2, <1>3, <1>4 DEF BudgetInv, PastBudget, Running

\* Where nothing suspends between the check of the budget and the decision, what
\* is spent and what the calls in flight may cost stay within the limit, for any
\* number of calls, any tools and prices, any order of the other stages, and
\* whatever fails, times out or is cancelled.
THEOREM BudgetSafety == ASSUME AtomicLimits PROVE Spec => []BudgetNeverOvershoots
  <1>1. BudgetInv /\ [Next]_vars => BudgetInv'
    BY BudgetInductive
  <1>2. BudgetInv => BudgetNeverOvershoots
    BY DEF BudgetInv, BudgetNeverOvershoots, Money
  <1> QED BY <1>1, <1>2, BudgetInitially, PTL DEF Spec

-----------------------------------------------------------------------------
(* The pipeline implements the abstract ledger: with a session budget, in an *)
(* enforcing gateway, and where nothing suspends between the check of the    *)
(* budget and the decision, every step of the pipeline holds, charges or     *)
(* gives back the price of one call, or leaves the ledger alone.             *)

\* The steps of one call that neither admit nor finish it keep its account.
LEMMA AccountKept ==
  ASSUME TypeOK, BudgetInv, Enforces, NEW c \in Calls, CallStep(c), ~Admit(c),
         ~(\/ ToolRaises(c) \/ ToolTimesOut(c)
           \/ Return(c) \/ ReturnRaises(c) \/ OutputGuardRejects(c))
  PROVE  Account(c)' = Account(c)
  <1> USE DEF Goto, TypeOK
  <1>1. CASE StageAllows(c) \/ StageTransforms(c) \/ StageBlocks(c) \/ StageRaises(c)
    <2>1. pc[c] = "before" /\ pc'[c] \in {"before", "decide"}
      BY <1>1 DEF StageAllows, StageTransforms, StageBlocks, StageRaises, NextStage, AtStage
    <2> QED BY <2>1 DEF Account, Holding, Running
  <1>2. CASE EmitDecision(c) \/ EmitDecisionRaises(c) \/ Deny(c) \/ RequireApproval(c)
    <2>1. /\ pc[c] \in {"decide", "commit"}
          /\ pc'[c] \in {"shadow", "commit", "aborted", "denied", "asked"}
      BY <1>2 DEF EmitDecision, EmitDecisionRaises, Deny, RequireApproval
    <2> QED BY <2>1 DEF Account, Holding, Running
  <1>3. CASE AdmitShadow(c)
    BY <1>3 DEF AdmitShadow, BudgetInv, HoldInv, FullyHeld, Enforces
  <1>4. CASE Start(c) \/ ApproveOnce(c) \/ Reissue(c)
    <2>1. pc[c] \in {"idle", "asked"} /\ pc'[c] = "before"
      BY <1>4 DEF Start, ApproveOnce, Reissue
    <2> QED BY <2>1 DEF Account, Holding, Running
  <1>5. CASE ToolReturns(c) \/ AfterHookRaises(c)
    <2>1. pc[c] \in {"executing", "after"} /\ pc'[c] \in {"after", "uncharged"}
      BY <1>5 DEF ToolReturns, AfterHookRaises
    <2> QED BY <2>1 DEF Account, Holding, Running
  <1>6. CASE AfterHook(c) \/ GrantApproval(c)
    BY <1>6 DEF AfterHook, GrantApproval, Account
  <1>7. CASE Cancel(c)
    <2>1. CASE pc[c] \in Evaluating
      <3>1. pc'[c] = "aborted"
        BY <1>7, <2>1 DEF Cancel, Evaluating, Running
      <3> QED BY <2>1, <3>1 DEF Account, Holding, Running, Evaluating
    <2>2. CASE pc[c] \notin Evaluating
      <3>1. pc[c] \in Running /\ pc'[c] \in {"lost", "uncharged"}
        BY <1>7, <2>2 DEF Cancel, Running
      <3> QED BY <3>1 DEF Account, Holding, Running
    <2> QED BY <2>1, <2>2
  <1> QED BY <1>1, <1>2, <1>3, <1>4, <1>5, <1>6, <1>7 DEF CallStep, Before, Finish

\* The account of the ledger that one call's step may change.
LEMMA OtherAccounts ==
  ASSUME TypeOK, NEW c \in Calls, CallStep(c)
  PROVE  \A d \in Calls \ {c} : Account(d)' = Account(d)
  BY StepsOfOneCall DEF OthersStay, Account

Accounts == [c \in Calls |-> Account(c)]
Prices == [c \in Calls |-> Manifest[Call[c].tool].cost_usd]

LEMMA AccountsStep ==
  ASSUME TypeOK, NEW c \in Calls, CallStep(c)
  PROVE  Accounts' = [Accounts EXCEPT ![c] = Account(c)']
  BY OtherAccounts DEF Accounts

\* One call's step is a step of the ledger, or none.
LEMMA LedgerCallStep ==
  ASSUME BudgetInv, Enforces, BudgetLimit # NoLimit, NEW c \in Calls, CallStep(c)
  PROVE  [Ledger!LedgerNext]_(Ledger!ledger)
  <1>1. TypeOK /\ HoldInv
    BY DEF BudgetInv, HoldInv
  <1>2. Accounts' = [Accounts EXCEPT ![c] = Account(c)'] /\ Accounts[c] = Account(c)
    BY <1>1, AccountsStep DEF Accounts
  <1>3. Prices[c] = Cost(ctx[c])
    BY <1>1 DEF HoldInv, ToolsFixed, Cost, Prices
  <1>4. CASE Admit(c)
    <2>1. /\ session'.used = session.used
          /\ session'.reserved = session.reserved + Prices[c]
      BY <1>1, <1>3, <1>4, AdmitMoney
    <2>2. pc[c] = "commit" /\ pc'[c] = "executing" /\ PastBudget(c)
      BY <1>1, <1>4 DEF Admit, Goto, TypeOK, PastBudget
    <2>3. Account(c) = "closed" /\ Account(c)' = "held"
      BY <2>2 DEF Account, Holding, Running
    <2>4. session.used + session.reserved + Prices[c] <= BudgetLimit
      BY <1>3, <2>2 DEF BudgetInv, Money
    <2>5. Ledger!Hold(c)
      BY <1>2, <2>1, <2>3, <2>4 DEF Ledger!Hold, Accounts, Prices
    <2> QED BY <2>5 DEF Ledger!LedgerNext
  <1>5. CASE \/ ToolRaises(c) \/ ToolTimesOut(c)
             \/ Return(c) \/ ReturnRaises(c) \/ OutputGuardRejects(c)
    <2>1. /\ \/ pc'[c] = "failed" /\ session'.used = session.used
             \/ pc'[c] \in {"returned", "withheld"}
                  /\ session'.used = session.used + Prices[c]
          /\ session'.reserved = session.reserved - ctx[c].reserved
          /\ pc[c] \in Running
      BY <1>1, <1>3, <1>5, EndMoney
    <2>2. session'.reserved = session.reserved - Prices[c] /\ Account(c) = "held"
      <3>1. ctx[c].reserved = Prices[c]
        BY <1>1, <1>3, <2>1 DEF HoldInv, FullyHeld, Holding, Enforces
      <3>2. Account(c) = "held"
        BY <2>1 DEF Account, Holding, Running
      <3> QED BY <2>1, <3>1, <3>2
    <2>3. CASE pc'[c] = "failed"
      <3>1. Account(c)' = "released" /\ session'.used = session.used
        BY <2>1, <2>3 DEF Account, Holding, Running
      <3>2. Ledger!GiveBack(c)
        BY <1>2, <2>2, <3>1 DEF Ledger!GiveBack, Accounts, Prices
      <3> QED BY <3>2 DEF Ledger!LedgerNext
    <2>4. CASE pc'[c] \in {"returned", "withheld"}
      <3>1. Account(c)' = "charged" /\ session'.used = session.used + Prices[c]
        BY <2>1, <2>4 DEF Account, Holding, Running
      <3>2. Ledger!Charge(c)
        BY <1>2, <2>2, <3>1 DEF Ledger!Charge, Accounts, Prices
      <3> QED BY <3>2 DEF Ledger!LedgerNext
    <2> QED BY <2>1, <2>3, <2>4
  <1>6. CASE /\ ~Admit(c)
             /\ ~(\/ ToolRaises(c) \/ ToolTimesOut(c)
                  \/ Return(c) \/ ReturnRaises(c) \/ OutputGuardRejects(c))
    <2>1. session'.used = session.used /\ session'.reserved = session.reserved
      BY <1>1, <1>6, CallStepKinds DEF MoneyKept
    <2>2. Account(c)' = Account(c)
      BY <1>1, <1>6, AccountKept
    <2>3. Accounts' = Accounts
      BY <1>2, <2>2 DEF Accounts
    <2> QED BY <2>1, <2>3 DEF Ledger!ledger, Accounts
  <1> QED BY <1>4, <1>5, <1>6

LEMMA LedgerStep ==
  BudgetInv /\ Enforces /\ BudgetLimit # NoLimit /\ [Next]_vars
    => Enforces' /\ [Ledger!LedgerNext]_(Ledger!ledger)
  <1> SUFFICES ASSUME BudgetInv, Enforces, BudgetLimit # NoLimit, [Next]_vars
               PROVE  Enforces' /\ [Ledger!LedgerNext]_(Ledger!ledger)
    OBVIOUS
  <1>0. TypeOK
    BY DEF BudgetInv, HoldInv
  <1>1. ASSUME NEW c \in Calls, CallStep(c)
        PROVE  Enforces' /\ [Ledger!LedgerNext]_(Ledger!ledger)
    BY <1>0, <1>1, LedgerCallStep, StepsOfOneCall DEF Enforces
  <1>2. CASE Host \/ Quiet \/ UNCHANGED vars
    <2>1. /\ UNCHANGED <<gw, loop, pc, frame, ctx>>
          /\ session'.used = session.used /\ session'.reserved = session.reserved
      BY <1>0, <1>2, HostKeepsMoney
    <2>2. Accounts' = Accounts
      BY <2>1 DEF Accounts, Account
    <2> QED BY <2>1, <2>2 DEF Enforces, Ledger!ledger, Accounts
  <1> QED BY <1>1, <1>2 DEF Next, CallStep

LEMMA LedgerInitially == Init => Ledger!LedgerInit
  <1> SUFFICES ASSUME Init PROVE Ledger!LedgerInit
    OBVIOUS
  <1>1. \A c \in Calls : Account(c) = "closed"
    BY DEF Init, Account, Holding, Running
  <1>2. session.used = 0 /\ session.reserved = 0
    BY DEF Init, NewSession
  <1> QED BY <1>1, <1>2 DEF Ledger!LedgerInit

\* Check, awaits and reservation act as one atomic step of the ledger, for any
\* number of calls, whatever fails, times out or is cancelled.
THEOREM PipelineImplementsLedger ==
  ASSUME AtomicLimits, BudgetLimit # NoLimit,
         \A m \in GatewayModes : ~m.dry_run /\ m.fail_closed
  PROVE  Spec => ImplementsLedger
  <1>1. Init => BudgetInv /\ Enforces /\ Ledger!LedgerInit
    BY BudgetInitially, LedgerInitially DEF Init, Enforces
  <1>2. BudgetInv /\ [Next]_vars => BudgetInv'
    BY BudgetInductive
  <1>3. BudgetInv /\ Enforces /\ [Next]_vars
          => Enforces' /\ [Ledger!LedgerNext]_(Ledger!ledger)
    BY LedgerStep
  <1> QED BY <1>1, <1>2, <1>3, PTL DEF Spec, ImplementsLedger, Ledger!LedgerSpec
=============================================================================
