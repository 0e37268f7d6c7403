------------------------ MODULE GatewayStages_proofs ------------------------
(***************************************************************************)
(* Proofs that what a stage found when it let a call pass still holds when *)
(* the call is admitted, where nothing suspends: approvals and the loop    *)
(* detector's bound.                                                       *)
(***************************************************************************)
EXTENDS GatewaySession_proofs

\* Stage st, if there is one, has let call c pass, and it may still be admitted.
Passed(c, st) ==
    \/ pc[c] = "before" /\ \E i \in DOMAIN Stages : i < frame[c].idx /\ Stages[i] = st
    \/ pc[c] \in {"decide", "commit"} /\ frame[c].final \in {"allow", "transform"}

\* Every stage that let call c pass, with the arguments it now has, would do so again.
Judged(c) ==
    \A st \in StageNames :
        Listed(st) /\ Passed(c, st) /\ (frame[c].final = "allow" \/ Follows(st))
            => "allow" \in Verdicts(session, ctx[c], st)

JudgedInv == ApprovalInv /\ (Enforces => \A c \in Calls : Judged(c))

\* A call that passes its current stage has passed this one, or had it before.
LEMMA PassedNow ==
  ASSUME TypeOK, NEW c \in Calls, NEW st, Listed(st), AtStage(c), NextStage(c),
         frame'[c].idx = frame[c].idx + 1, Passed(c, st)'
  PROVE  /\ Passed(c, st) \/ Here(c) = st
         /\ \E i \in DOMAIN Stages : Stages[i] = st /\ i <= frame[c].idx
  <1> DEFINE n == frame[c].idx
  <1>1. /\ pc[c] = "before" /\ n \in 1..Len(Stages) /\ Len(Stages) \in Nat
    BY StagesType DEF AtStage, TypeOK, PositionOK
  <1>2. pc'[c] = IF n = Len(Stages) THEN "decide" ELSE "before"
    BY <1>1 DEF NextStage, Goto, TypeOK
  <1>3. PICK i \in DOMAIN Stages : Stages[i] = st /\ i <= n
    <2>1. CASE n = Len(Stages)
      BY <1>1, <2>1, StagesType DEF Listed
    <2>2. CASE n # Len(Stages)
      <3>1. PICK i \in DOMAIN Stages : i < n + 1 /\ Stages[i] = st
        BY <1>2, <2>2 DEF Passed
      <3> QED BY <1>1, <3>1, StagesType
    <2> QED BY <2>1, <2>2
  <1>4. CASE i < n
    BY <1>1, <1>3, <1>4 DEF Passed
  <1>5. CASE i = n
    BY <1>3, <1>5 DEF Here
  <1> QED BY <1>1, <1>3, <1>4, <1>5, StagesType

\* Entries that grow older make no stage stricter.
LEMMA OlderIsNoStricter ==
  ASSUME NEW s \in SessionType, NEW x, NEW st \in StageNames,
         "allow" \in Verdicts(s, x, st)
  PROVE  "allow" \in Verdicts([s EXCEPT !.stale = @ + 1], x, st)
  <1> DEFINE t == [s EXCEPT !.stale = @ + 1]
  <1>1. /\ t.used = s.used /\ t.reserved = s.reserved /\ t.tainted = s.tainted
        /\ t.approvals = s.approvals /\ t.recent = s.recent /\ t.stale = s.stale + 1
        /\ s.stale \in Nat /\ Len(s.recent) \in Nat
        /\ DOMAIN s.recent = 1..Len(s.recent)
    BY LenProperties DEF SessionType
  <1> HIDE DEF t
  <1>2. CASE st = "loop_detect"
    <2> DEFINE A == Repeats(t, ApprovalKey(x))
               B == Repeats(s, ApprovalKey(x))
               n == Len(s.recent)
               I == 1..n
    <2>1. A \in SUBSET B /\ B \in SUBSET I
      BY <1>1 DEF Repeats
    <2>0. n \in Nat
      BY <1>1
    <2> HIDE DEF A, B, n
    <2>2. IsFiniteSet(I)
      BY <2>0, FS_Interval
    <2> HIDE DEF I
    <2>3. IsFiniteSet(B)
      BY <2>1, <2>2, FS_Subset
    <2>4. /\ Cardinality(A) <= Cardinality(B) /\ IsFiniteSet(A)
          /\ Cardinality(A) \in Nat /\ Cardinality(B) \in Nat
      BY <2>1, <2>3, FS_Subset, FS_CardinalityType
    <2>5. LoopVerdict(s, x) = "allow"
      BY <1>2 DEF Verdicts
    <2>6. ~(Cardinality(B) >= MaxRepeats)
      BY <2>5 DEF LoopVerdict, B
    <2>7. ~(Cardinality(A) >= MaxRepeats)
      BY <2>4, <2>6, StateAssumption
    <2> QED BY <1>2, <2>7 DEF Verdicts, LoopVerdict, A, t
  <1>3. CASE st # "loop_detect"
    <2>1. /\ PolicyVerdict(t, x) = PolicyVerdict(s, x)
          /\ TaintVerdict(t, x) = TaintVerdict(s, x)
          /\ RiskVerdict(t, x) = RiskVerdict(s, x)
          /\ BudgetVerdict(t, x) = BudgetVerdict(s, x)
      BY <1>1 DEF PolicyVerdict, TaintVerdict, RiskVerdict, BudgetVerdict, RiskScore,
                  TaintGates, Approved
    <2>2. "allow" \in Verdicts(t, x, st)
      BY <1>3, <2>1 DEF Verdicts, StageNames
    <2> QED BY <2>2 DEF t
  <1> QED BY <1>2, <1>3

\* The verdicts are functions of the session and the context alone.
LEMMA VerdictsPrimed ==
  ASSUME NEW c, NEW st
  PROVE  Verdicts(session, ctx[c], st)' = Verdicts(session', ctx'[c], st)
  <1>1. Approved(session, ctx[c])' = Approved(session', ctx'[c])
    BY DEF Approved, ApprovalKey, WildcardKey
  <1>2. TaintGates(session, ctx[c])' = TaintGates(session', ctx'[c])
    BY DEF TaintGates
  <1>3. RiskScore(session, ctx[c])' = RiskScore(session', ctx'[c])
    BY <1>2 DEF RiskScore
  <1>4. Repeats(session, ApprovalKey(ctx[c]))' = Repeats(session', ApprovalKey(ctx'[c]))
    BY DEF Repeats, ApprovalKey
  <1>5. /\ SchemaVerdict(ctx[c])' = SchemaVerdict(ctx'[c])
        /\ ScopeVerdict(ctx[c])' = ScopeVerdict(ctx'[c])
        /\ GuardVerdict(ctx[c])' = GuardVerdict(ctx'[c])
    BY DEF SchemaVerdict, ScopeVerdict, GuardVerdict, ApprovalKey
  <1>6. PolicyVerdict(session, ctx[c])' = PolicyVerdict(session', ctx'[c])
    BY <1>1 DEF PolicyVerdict, ApprovalKey
  <1>7. TaintVerdict(session, ctx[c])' = TaintVerdict(session', ctx'[c])
    BY <1>1, <1>2 DEF TaintVerdict
  <1>8. RiskVerdict(session, ctx[c])' = RiskVerdict(session', ctx'[c])
    BY <1>1, <1>3 DEF RiskVerdict
  <1>9. LoopVerdict(session, ctx[c])' = LoopVerdict(session', ctx'[c])
    BY <1>4 DEF LoopVerdict
  <1>10. BudgetVerdict(session, ctx[c])' = BudgetVerdict(session', ctx'[c])
    BY DEF BudgetVerdict, Cost
  <1> QED BY <1>5, <1>6, <1>7, <1>8, <1>9, <1>10 DEF Verdicts

\* What a step has to show of the call it moves.
LEMMA JudgedStep ==
  ASSUME Suspending = {}, JudgedInv, NEW c \in Calls, CallStep(c),
         Enforces => Judged(c)'
  PROVE  JudgedInv'
  <1>1. ApprovalInv' /\ \A d \in Calls \ {c} : ~HasLoop(d)'
    BY SectionStep, ApprovalCallStep DEF JudgedInv, ApprovalInv
  <1>2. gw' = gw
    BY StepsOfOneCall DEF JudgedInv, ApprovalInv, SectionInv
  <1>3. \A d \in Calls \ {c} : Judged(d)'
    BY <1>1 DEF Judged, Passed, HasLoop, Evaluating
  <1>4. Enforces' = Enforces
    BY <1>2 DEF Enforces
  <1> QED BY <1>1, <1>3, <1>4 DEF JudgedInv

LEMMA JudgedCallStep ==
  ASSUME Suspending = {}, JudgedInv, NEW c \in Calls, CallStep(c)
  PROVE  JudgedInv'
  <1> SUFFICES ASSUME Enforces PROVE Judged(c)'
    BY JudgedStep
  <1>1. /\ TypeOK /\ Judged(c) /\ gw.fail_closed /\ ~gw.dry_run
        /\ frame[c] \in FrameType /\ frame \in [Calls -> FrameType]
        /\ pc \in [Calls -> Locations] /\ ctx \in [Calls -> ContextType]
    BY CurrentTypes DEF JudgedInv, ApprovalInv, SectionInv, TypeOK, Enforces
  <1>2. ASSUME \A st \in StageNames : ~Passed(c, st)' PROVE Judged(c)'
    BY <1>2 DEF Judged
  <1>3. ASSUME pc'[c] \notin {"before", "decide", "commit"} PROVE Judged(c)'
    BY <1>2, <1>3 DEF Passed
  <1>4. ASSUME pc'[c] = "before", frame'[c].idx = 1 PROVE Judged(c)'
    <2>1. \A i \in DOMAIN Stages : ~(i < 1)
      BY StagesType
    <2> QED BY <1>2, <1>4, <2>1 DEF Passed
  <1>5. ASSUME pc'[c] = "decide", frame'[c].final \notin {"allow", "transform"}
        PROVE  Judged(c)'
    BY <1>2, <1>5 DEF Passed
  <1>6. CASE StageAllows(c)
    <2>1. /\ AtStage(c) /\ NextStage(c) /\ "allow" \in Verdicts(session, ctx[c], Here(c))
          /\ session' = session /\ ctx' = ctx
          /\ frame'[c].idx = frame[c].idx + 1 /\ frame'[c].final = frame[c].final
      BY <1>1, <1>6 DEF StageAllows, FrameType
    <2>2. \A st \in StageNames : Listed(st) /\ Passed(c, st)' => Passed(c, st) \/ Here(c) = st
      BY <1>1, <2>1, PassedNow
    <2>3. SUFFICES ASSUME NEW st \in StageNames, Listed(st), Passed(c, st)',
                          frame[c].final = "allow" \/ Follows(st)
                   PROVE  "allow" \in Verdicts(session, ctx[c], st)
      BY <2>1, VerdictsPrimed DEF Judged, Listed, Follows
    <2> QED BY <1>1, <2>1, <2>2, <2>3 DEF Judged
  <1>7. CASE StageTransforms(c)
    <2>1. /\ AtStage(c) /\ NextStage(c) /\ "transform" \in Verdicts(session, ctx[c], Here(c))
          /\ frame'[c].idx = frame[c].idx + 1 /\ frame'[c].final = "transform"
      BY <1>1, <1>7 DEF StageTransforms, FrameType
    <2>2. /\ Here(c) \in StageNames /\ frame[c].idx \in DOMAIN Stages
          /\ frame[c].idx \in 1..Len(Stages)
      BY <1>1, <2>1, StagesType DEF AtStage, TypeOK, PositionOK, Here
    <2>3. Stages[frame[c].idx] = "policy"
      BY <2>1, <2>2, OnlyPolicyRewrites DEF Here
    <2>4. \A st \in StageNames : Follows(st) => ~Passed(c, st)'
      <3> SUFFICES ASSUME NEW st \in StageNames, Follows(st), Passed(c, st)' PROVE FALSE
        OBVIOUS
      <3>1. PICK i \in DOMAIN Stages : Stages[i] = st /\ i <= frame[c].idx
        BY <1>1, <2>1, PassedNow DEF Follows
      <3>2. frame[c].idx < i
        BY <2>2, <2>3, <3>1 DEF Follows
      <3> QED BY <2>2, <3>1, <3>2, StagesType
    <2> QED BY <2>1, <2>4 DEF Judged, Follows, Listed
  <1>8. CASE StageBlocks(c)
    <2>1. PICK v \in {"deny", "require_approval"} : frame' = [frame EXCEPT ![c].final = v]
      BY <1>8 DEF StageBlocks
    <2>2. pc'[c] = "decide" /\ frame'[c].final = v
      BY <1>1, <1>8, <2>1 DEF StageBlocks, Goto, FrameType
    <2> QED BY <1>5, <2>2
  <1>9. CASE StageRaises(c)
    <2>1. pc'[c] = "decide" /\ frame'[c].final = "deny"
      BY <1>1, <1>9 DEF StageRaises, Goto, FrameType
    <2> QED BY <1>5, <2>1
  <1>10. CASE EmitDecision(c)
    <2>1. /\ pc[c] = "decide" /\ pc'[c] = "commit" /\ frame' = frame
          /\ session' = session /\ ctx' = ctx
      BY <1>1, <1>10 DEF EmitDecision, ShadowOnly, Goto
    <2>2. \A st : Passed(c, st)' => Passed(c, st)
      BY <2>1 DEF Passed
    <2>3. SUFFICES ASSUME NEW st \in StageNames, Listed(st), Passed(c, st)',
                          frame[c].final = "allow" \/ Follows(st)
                   PROVE  "allow" \in Verdicts(session, ctx[c], st)
      BY <2>1, VerdictsPrimed DEF Judged, Listed, Follows
    <2> QED BY <1>1, <2>2, <2>3 DEF Judged
  <1>11. CASE \/ EmitDecisionRaises(c) \/ AdmitShadow(c) \/ Deny(c)
              \/ RequireApproval(c) \/ Admit(c)
    BY <1>1, <1>3, <1>11 DEF EmitDecisionRaises, AdmitShadow, Deny, RequireApproval, Admit, Goto
  <1>12. CASE Finish(c) \/ Cancel(c) \/ GrantApproval(c)
    <2>1. pc'[c] \in {"after", "failed", "returned", "withheld", "lost", "uncharged",
                      "aborted", "asked"}
      BY <1>1, <1>12 DEF Finish, ToolReturns, ToolRaises, ToolTimesOut, Fail, AfterHook,
           Return, ReturnRaises, OutputGuardRejects, SettleTo, AfterHookRaises, Cancel,
           GrantApproval, Goto
    <2> QED BY <1>3, <2>1
  <1>13. CASE Start(c) \/ ApproveOnce(c) \/ Reissue(c)
    <2>1. pc'[c] = "before" /\ frame'[c].idx = 1
      BY <1>1, <1>13 DEF Start, ApproveOnce, Reissue, Goto, FrameType
    <2> QED BY <1>4, <2>1
  <1> QED BY <1>6, <1>7, <1>8, <1>9, <1>10, <1>11, <1>12, <1>13 DEF CallStep, Before

LEMMA JudgedInductive == Suspending = {} /\ JudgedInv /\ [Next]_vars => JudgedInv'
  <1> SUFFICES ASSUME Suspending = {}, JudgedInv, [Next]_vars PROVE JudgedInv'
    OBVIOUS
  <1>1. ASSUME NEW c \in Calls, CallStep(c) PROVE JudgedInv'
    BY <1>1, JudgedCallStep
  <1>2. CASE Host \/ Quiet \/ UNCHANGED vars
    <2>1. /\ ApprovalInv' /\ TypeOK /\ session \in SessionType
          /\ UNCHANGED <<gw, loop, pc, frame, ctx>>
      BY <1>2, ApprovalInductive, HostKeepsMoney DEF JudgedInv, ApprovalInv, SectionInv, TypeOK
    <2>2. Enforces' = Enforces
      BY <2>1 DEF Enforces
    <2>3. CASE GrantApprovalById \/ ClearTaint
      <3>1. loop = NoCall
        BY <2>3 DEF GrantApprovalById, ClearTaint
      <3>2. \A c \in Calls : ~HasLoop(c)
        BY <3>1, GatewayAssumption DEF JudgedInv, ApprovalInv, SectionInv
      <3>3. \A c \in Calls : Judged(c)'
        BY <2>1, <3>2 DEF Judged, Passed, HasLoop, Evaluating
      <3> QED BY <2>1, <3>3 DEF JudgedInv
    <2>4. CASE WindowPasses
      <3>1. session' = [session EXCEPT !.stale = @ + 1]
        BY <2>4 DEF WindowPasses
      <3>2. SUFFICES ASSUME Enforces, NEW c \in Calls PROVE Judged(c)'
        BY <2>1, <2>2 DEF JudgedInv
      <3>3. SUFFICES ASSUME NEW st \in StageNames, Listed(st), Passed(c, st)',
                            frame[c].final = "allow" \/ Follows(st)
                     PROVE  "allow" \in Verdicts(session', ctx[c], st)
        BY <2>1, VerdictsPrimed DEF Judged, Listed, Follows
      <3>4. Passed(c, st)
        BY <2>1, <3>3 DEF Passed
      <3>5. "allow" \in Verdicts(session, ctx[c], st)
        BY <3>2, <3>3, <3>4 DEF JudgedInv, Judged
      <3> QED BY <2>1, <3>1, <3>5, OlderIsNoStricter
    <2>5. CASE UNCHANGED vars
      <3>1. session' = session
        BY <2>5 DEF vars
      <3>2. \A c \in Calls : Judged(c) => Judged(c)'
        BY <2>1, <3>1, VerdictsPrimed DEF Judged, Passed, Listed, Follows
      <3> QED BY <2>1, <2>2, <3>2 DEF JudgedInv
    <2> QED BY <1>2, <2>3, <2>4, <2>5 DEF Host, Quiet
  <1> QED BY <1>1, <1>2 DEF Next, CallStep

LEMMA JudgedInitially == Init => JudgedInv
  <1> SUFFICES ASSUME Init PROVE JudgedInv
    OBVIOUS
  <1>1. \A c \in Calls : pc[c] = "idle"
    BY DEF Init
  <1>2. \A c \in Calls : Judged(c)
    BY <1>1 DEF Judged, Passed
  <1> QED BY <1>2, ApprovalInitially DEF JudgedInv

-----------------------------------------------------------------------------
(* Admission. *)

LEMMA AdmittedApproved ==
  ASSUME Suspending = {}, AskingStages, JudgedInv, Enforces, NEW c \in Calls, CallStep(c),
         pc[c] = "commit", pc'[c] = "executing", NeedsApproval(c)
  PROVE  {ApprovalKey(ctx[c]), WildcardKey(ctx[c])} \cap OwnApprovals(c) # {}
  <1>1. TypeOK /\ Judged(c) /\ pc \in [Calls -> Locations]
    BY DEF JudgedInv, ApprovalInv, SectionInv, TypeOK
  <1>2. Admit(c)
    BY <1>1 DEF CallStep, Before, Finish, StageAllows, StageTransforms, StageBlocks,
         StageRaises, AtStage, EmitDecision, EmitDecisionRaises, AdmitShadow, Deny,
         RequireApproval, ToolReturns, ToolRaises, ToolTimesOut, Fail, AfterHook, Return,
         ReturnRaises, OutputGuardRejects, AfterHookRaises, Cancel, Start, ApproveOnce,
         Reissue, GrantApproval, Goto
  <1>3. frame[c].final \in {"allow", "transform"}
    BY <1>2 DEF Admit
  <1>4. \A st : Passed(c, st)
    BY <1>3 DEF Passed
  <1>5. Approved(session, ctx[c])
    <2>1. CASE frame[c].final = "allow" /\ Policy[ApprovalKey(ctx[c])] = "require_approval"
      <3>1. "allow" \in Verdicts(session, ctx[c], "policy")
        BY <1>1, <1>4, <2>1 DEF Judged, AskingStages, StageNames
      <3>2. PolicyVerdict(session, ctx[c]) = "allow"
        BY <3>1 DEF Verdicts
      <3> QED BY <2>1, <3>2 DEF PolicyVerdict
    <2>2. CASE TaintGates(session, ctx[c]) /\ RequireApprovalWhenTainted
      <3>1. "allow" \in Verdicts(session, ctx[c], "taint")
        BY <1>1, <1>4 DEF Judged, AskingStages, Follows, StageNames
      <3>2. TaintVerdict(session, ctx[c]) = "allow"
        BY <3>1 DEF Verdicts
      <3> QED BY <2>2, <3>2 DEF TaintVerdict
    <2>3. CASE RiskScore(session, ctx[c]) >= ApprovalThreshold
      <3>1. "allow" \in Verdicts(session, ctx[c], "risk")
        BY <1>1, <1>4 DEF Judged, AskingStages, Follows, StageNames
      <3>2. RiskVerdict(session, ctx[c]) = "allow"
        BY <3>1 DEF Verdicts
      <3> QED BY <2>3, <3>2 DEF RiskVerdict
    <2> QED BY <2>1, <2>2, <2>3 DEF NeedsApproval
  <1>6. \A d \in Calls \ {c} : frame[d].oneShot = {}
    BY OnlyOwnOneShot DEF JudgedInv
  <1>7. OwnApprovals(c) = session.approvals
    BY <1>6 DEF OwnApprovals
  <1> QED BY <1>5, <1>7 DEF Approved

\* Where nothing suspends, and the policy comes before the stages that judge what
\* it may rewrite, no enforcing gateway lets a tool run that somebody has to
\* approve, unless somebody did, for the session or for this very call.
THEOREM NothingRunsUnapproved ==
  ASSUME Suspending = {}, AskingStages
  PROVE  Spec => AdmittedOnlyIfApproved
  <1>1. JudgedInv /\ [Next]_vars => JudgedInv'
    BY JudgedInductive
  <1>2. JudgedInv /\ [Next]_vars =>
          [\A c \in Calls :
              Enforces /\ pc[c] = "commit" /\ pc'[c] = "executing" /\ NeedsApproval(c)
                => {ApprovalKey(ctx[c]), WildcardKey(ctx[c])} \cap OwnApprovals(c) # {}]_vars
    <2> SUFFICES ASSUME JudgedInv, [Next]_vars, NEW c \in Calls,
                        Enforces, pc[c] = "commit", pc'[c] = "executing", NeedsApproval(c)
                 PROVE  {ApprovalKey(ctx[c]), WildcardKey(ctx[c])} \cap OwnApprovals(c) # {}
      OBVIOUS
    <2>1. CASE CallStep(c)
      BY <2>1, AdmittedApproved
    <2>2. ASSUME NEW d \in Calls \ {c}, CallStep(d) PROVE FALSE
      BY <2>2, StepsOfOneCall DEF OthersStay, JudgedInv, ApprovalInv, SectionInv
    <2>3. CASE Host \/ Quiet \/ UNCHANGED vars
      BY <2>3, HostKeepsMoney DEF JudgedInv, ApprovalInv, SectionInv
    <2> QED BY <2>1, <2>2, <2>3 DEF Next, CallStep
  <1> QED BY <1>1, <1>2, JudgedInitially, PTL DEF Spec, AdmittedOnlyIfApproved
-----------------------------------------------------------------------------
(* The loop detector. *)

\* Recording a call adds at most one repeat of it, and none of any other.
LEMMA RecordedRepeats ==
  ASSUME NEW s, Bounded(s), NEW x \in ContextType, NEW key
  PROVE  /\ Cardinality(Repeats(s, key)) \in Nat
         /\ Cardinality(Repeats(RecordCall(s, x), key)) \in Nat
         /\ Cardinality(Repeats(RecordCall(s, x), key)) <=
               Cardinality(Repeats(s, key)) + (IF key = ApprovalKey(x) THEN 1 ELSE 0)
  <1> DEFINE p == s.recent
             n == Len(p)
             k == ApprovalKey(x)
             h == RecordCall(s, x)
             A == Repeats(s, key)
             B == Repeats(h, key)
             m == Len(h.recent)
  <1>1. /\ s \in SessionType /\ h \in SessionType /\ k \in Tools \X Args
        /\ p \in Seq(Tools \X Args) /\ n \in Nat /\ DOMAIN p = 1..n /\ s.stale \in Nat
        /\ m \in Nat /\ DOMAIN h.recent = 1..m
    BY CostType, RecordCallType, LenProperties DEF Bounded, SessionType
  <1>2. IsFiniteSet(A) /\ IsFiniteSet(B)
    <2>1. A \in SUBSET (1..n) /\ B \in SUBSET (1..m)
      BY <1>1 DEF Repeats
    <2>2. n \in Int /\ m \in Int
      BY <1>1
    <2> HIDE DEF A, B, n, m, h, p
    <2> DEFINE I == 1..n
               J == 1..m
    <2>3. IsFiniteSet(I)
      BY <2>2, FS_Interval
    <2>4. IsFiniteSet(J)
      BY <2>2, FS_Interval
    <2>5. A \in SUBSET I /\ B \in SUBSET J
      BY <2>1
    <2> HIDE DEF I, J
    <2> QED BY <2>3, <2>4, <2>5, FS_Subset
  <1> DEFINE shift == IF n = RecentMax THEN 1 ELSE 0
             C == B \ {m}
  <1>3. /\ m = n + 1 - shift /\ h.recent[m] = k
        /\ \A i \in 1..(m - 1) : h.recent[i] = p[i + shift]
        /\ \A i \in Nat : i > h.stale => i + shift > s.stale
    <2>1. h.recent = Append(IF n = RecentMax THEN Tail(p) ELSE p, k)
          /\ h.stale = IF n = RecentMax /\ s.stale > 0 THEN s.stale - 1 ELSE s.stale
      BY <1>1 DEF RecordCall, SessionType
    <2> HIDE DEF h, k
    <2>2. CASE n = RecentMax
      <3>1. p # <<>> /\ n > 0
        BY <1>1, <2>2, StateAssumption, EmptySeq
      <3> DEFINE q == Tail(p)
      <3>2. q \in Seq(Tools \X Args) /\ Len(q) = n - 1 /\ \A i \in 1..(n - 1) : q[i] = p[i + 1]
        BY <1>1, <3>1, HeadTailProperties
      <3> HIDE DEF q
      <3>3. /\ Len(Append(q, k)) = n /\ Append(q, k)[n] = k
            /\ \A i \in 1..(n - 1) : Append(q, k)[i] = q[i]
        BY <1>1, <3>1, <3>2, AppendProperties
      <3>4. h.recent = Append(q, k)
        BY <2>1, <2>2 DEF q
      <3> QED BY <1>1, <2>1, <2>2, <3>1, <3>2, <3>3, <3>4
    <2>3. CASE n # RecentMax
      <3>1. /\ Len(Append(p, k)) = n + 1 /\ Append(p, k)[n + 1] = k
            /\ \A i \in 1..n : Append(p, k)[i] = p[i]
        BY <1>1, AppendProperties
      <3> QED BY <1>1, <2>1, <2>3, <3>1
    <2> QED BY <2>2, <2>3
  <1>4. shift \in {0, 1} /\ IsFiniteSet(C) /\ C \in SUBSET B
    <2>1. C \in SUBSET B
      OBVIOUS
    <2> HIDE DEF B, C
    <2> QED BY <1>2, <2>1, FS_Subset
  <1>5. \A i \in C : i \in Nat /\ i + shift \in A
    <2> SUFFICES ASSUME NEW i \in C PROVE i \in Nat /\ i + shift \in A
      OBVIOUS
    <2>1. i \in 1..m /\ i # m /\ i > h.stale /\ h.recent[i] = key
      BY <1>1 DEF Repeats
    <2>2. i \in 1..(m - 1) /\ i + shift \in 1..n
      BY <1>1, <1>3, <1>4, <2>1
    <2>3. p[i + shift] = key /\ i + shift > s.stale
      BY <1>3, <2>1, <2>2
    <2> QED BY <1>1, <2>2, <2>3 DEF Repeats
  <1> HIDE DEF h, A, C, shift, m, n
  <1>6. Cardinality(C) <= Cardinality(A)
    <2> DEFINE f == [i \in C |-> i + shift]
    <2>1. f \in Injection(C, A)
      BY <1>4, <1>5 DEF Injection, IsInjective
    <2> HIDE DEF f
    <2> QED BY <1>2, <2>1, FS_Injection
  <1>7. Cardinality(B) <= Cardinality(C) + (IF key = k THEN 1 ELSE 0)
    <2>1. CASE m \in B
      <3>1. key = k
        BY <1>3, <2>1 DEF Repeats
      <3>2. B = C \cup {m} /\ m \notin C
        BY <2>1 DEF C
      <3> HIDE DEF B
      <3>3. Cardinality(C \cup {m}) = Cardinality(C) + 1
        BY <1>4, <3>2, FS_AddElement
      <3>4. Cardinality(C) \in Nat
        BY <1>4, FS_CardinalityType
      <3> QED BY <3>1, <3>2, <3>3, <3>4
    <2>2. CASE m \notin B
      <3>1. B = C
        BY <2>2 DEF C
      <3>2. Cardinality(C) \in Nat
        BY <1>4, FS_CardinalityType
      <3> QED BY <3>1, <3>2
    <2> QED BY <2>1, <2>2
  <1> HIDE DEF B
  <1>8. Cardinality(A) \in Nat /\ Cardinality(B) \in Nat /\ Cardinality(C) \in Nat
    BY <1>2, <1>4, FS_CardinalityType
  <1>9. Cardinality(B) <= Cardinality(A) + (IF key = k THEN 1 ELSE 0)
    BY <1>6, <1>7, <1>8
  <1> QED BY <1>8, <1>9 DEF A, B, h, k

\* Nothing but the recording of a call, and time, touches the history.
SameHistory(s, t) == t.recent = s.recent /\ t.stale = s.stale

LEMMA HistoryKept ==
  ASSUME NEW s, Bounded(s), NEW x \in ContextType
  PROVE  /\ SameHistory(RecordCall(s, x), Reserve(s, x)[1])
         /\ SameHistory(s, Release(s, x)[1]) /\ SameHistory(s, Settle(s, x)[1])
         /\ \A st : SameHistory(s, AfterStage(s, x, st))
         /\ \A c : SameHistory(s, WithdrawOneShot(s, c))
         /\ \A id, key : SameHistory(s, AddPending(s, id, key))
         /\ \A i : SameHistory(s, RedeemPending(s, i))
         /\ \A a : SameHistory(s, [s EXCEPT !.approvals = a])
         /\ \A b : SameHistory(s, [s EXCEPT !.tainted = b])
  <1>1. s \in SessionType
    BY DEF Bounded
  <1> DEFINE h == RecordCall(s, x)
             g == Release(s, x)[1]
  <1>2. h \in SessionType /\ g \in SessionType
    BY RecordCallType, ReleaseType DEF Bounded
  <1>3. SameHistory(s, g)
    <2>1. \E n : g = [s EXCEPT !.reserved = n]
      BY DEF Release
    <2> QED BY <1>1, <2>1 DEF SameHistory, SessionType
  <1> HIDE DEF h, g
  <1>4. \A n : SameHistory(h, [h EXCEPT !.reserved = n]) /\ SameHistory(g, [g EXCEPT !.used = n])
    BY <1>2 DEF SameHistory, SessionType
  <1>5. SameHistory(h, Reserve(s, x)[1])
    <2>1. \/ Reserve(s, x)[1] = h
          \/ \E n : Reserve(s, x)[1] = [h EXCEPT !.reserved = n]
      BY DEF Reserve, h
    <2> QED BY <1>4, <2>1 DEF SameHistory
  <1>6. SameHistory(s, Settle(s, x)[1])
    <2>1. \E n : Settle(s, x)[1] = [g EXCEPT !.used = n]
      BY DEF Settle, g
    <2> QED BY <1>3, <1>4, <2>1 DEF SameHistory
  <1>7. /\ \A st : SameHistory(s, AfterStage(s, x, st))
        /\ \A c : SameHistory(s, WithdrawOneShot(s, c))
        /\ \A a : SameHistory(s, [s EXCEPT !.approvals = a])
        /\ \A b : SameHistory(s, [s EXCEPT !.tainted = b])
    BY <1>1 DEF SameHistory, SessionType, AfterStage, WithdrawOneShot
  <1>8. /\ \A id, key : SameHistory(s, AddPending(s, id, key))
        /\ \A i : SameHistory(s, RedeemPending(s, i))
    BY <1>1 DEF SameHistory, SessionType, AddPending, RedeemPending
  <1> QED BY <1>3, <1>5, <1>6, <1>7, <1>8 DEF g, h

\* The history a step of a call leaves, unless it admits the call.
LEMMA CallKeepsHistory ==
  ASSUME TypeOK, NEW c \in Calls, CallStep(c), ~Admit(c)
  PROVE  SameHistory(session, session')
  <1>1. /\ Bounded(session) /\ ctx[c] \in ContextType /\ session \in SessionType
        /\ Bounded(WithdrawOneShot(session, c))
    BY CurrentTypes, WithdrawType DEF Bounded
  <1>2. CASE \/ StageAllows(c) \/ StageTransforms(c) \/ StageBlocks(c) \/ StageRaises(c)
             \/ EmitDecision(c) \/ ToolReturns(c) \/ AfterHookRaises(c) \/ Start(c) \/ Reissue(c)
    <2>1. session' = session
      BY <1>2 DEF StageAllows, StageTransforms, StageBlocks, StageRaises, EmitDecision,
                  ToolReturns, AfterHookRaises, Start, Reissue
    <2> QED BY <2>1 DEF SameHistory
  <1>3. CASE EmitDecisionRaises(c) \/ AdmitShadow(c) \/ Deny(c) \/ Cancel(c)
    <2>1. session' = WithdrawOneShot(session, c)
      BY <1>3 DEF EmitDecisionRaises, AdmitShadow, Deny, Cancel
    <2> QED BY <1>1, <2>1, HistoryKept
  <1>4. CASE RequireApproval(c)
    <2> DEFINE w == WithdrawOneShot(session, c)
    <2>1. session' = AddPending(w, ApprovalId(c), ApprovalKey(ctx[c]))
      BY <1>4 DEF RequireApproval
    <2>2. SameHistory(session, w) /\ Bounded(w)
      BY <1>1, HistoryKept
    <2> HIDE DEF w
    <2>3. SameHistory(w, session')
      BY <1>1, <2>1, <2>2, HistoryKept
    <2> QED BY <2>2, <2>3 DEF SameHistory
  <1>5. CASE EndsExecution(c) \/ AfterHook(c)
    <2>1. \/ session' = Release(session, ctx[c])[1] \/ session' = Settle(session, ctx[c])[1]
          \/ \E st : session' = AfterStage(session, ctx[c], st)
      BY <1>5 DEF EndsExecution, ToolRaises, ToolTimesOut, Fail, Return, ReturnRaises,
                  OutputGuardRejects, SettleTo, AfterHook
    <2> QED BY <1>1, <2>1, HistoryKept
  <1>6. CASE ApproveOnce(c) \/ GrantApproval(c)
    <2>1. \E a : session' = [session EXCEPT !.approvals = a]
      BY <1>6 DEF ApproveOnce, GrantApproval
    <2> QED BY <1>1, <2>1, HistoryKept
  <1> QED BY <1>2, <1>3, <1>4, <1>5, <1>6 DEF CallStep, Before, Finish, EndsExecution

LoopInv == JudgedInv /\ LoopBound

\* The bound depends on the history alone.
LEMMA LoopBoundKept ==
  ASSUME LoopBound, gw' = gw, SameHistory(session, session')
  PROVE  LoopBound'
  <1>1. \A key : Repeats(session, key)' = Repeats(session, key)
    BY DEF Repeats, SameHistory
  <1>2. Enforces' = Enforces
    BY DEF Enforces
  <1> QED BY <1>1, <1>2 DEF LoopBound

LEMMA LoopInductive ==
  Suspending = {} /\ Follows("loop_detect") /\ LoopInv /\ [Next]_vars => LoopInv'
  <1> SUFFICES ASSUME Suspending = {}, Follows("loop_detect"), LoopInv, [Next]_vars
               PROVE  LoopBound'
    BY JudgedInductive DEF LoopInv
  <1>1. /\ TypeOK /\ Bounded(session) /\ session \in SessionType
        /\ JudgedInv /\ LoopBound
    BY DEF LoopInv, JudgedInv, ApprovalInv, SectionInv, TypeOK, Bounded
  <1>2. ASSUME NEW c \in Calls, CallStep(c), ~Admit(c) PROVE LoopBound'
    BY <1>1, <1>2, CallKeepsHistory, StepsOfOneCall, LoopBoundKept
  <1>3. ASSUME NEW c \in Calls, Admit(c) PROVE LoopBound'
    <2> DEFINE x == ctx[c]
               h == RecordCall(session, x)
               r == Reserve(session, x)[1]
    <2>1. /\ pc[c] = "commit" /\ frame[c].final \in {"allow", "transform"}
          /\ session' = WithdrawOneShot(r, c) /\ gw' = gw
      BY <1>3 DEF Admit
    <2>2. x \in ContextType /\ SameHistory(h, r) /\ Bounded(r)
      BY <1>1, CurrentTypes, HistoryKept, ReserveType
    <2> HIDE DEF r
    <2>3. SameHistory(r, session')
      BY <2>1, <2>2, HistoryKept
    <2>4. SameHistory(h, session')
      BY <2>2, <2>3 DEF SameHistory
    <2> SUFFICES ASSUME Enforces, NEW key \in Tools \X Args
                 PROVE  Cardinality(Repeats(session', key)) <= MaxRepeats
      <3>1. Enforces' = Enforces
        BY <2>1 DEF Enforces
      <3>2. \A key : Repeats(session, key)' = Repeats(session', key)
        BY DEF Repeats
      <3> QED BY <3>1, <3>2 DEF LoopBound
    <2>5. Repeats(session', key) = Repeats(h, key)
      BY <2>4 DEF Repeats, SameHistory
    <2>6. /\ Cardinality(Repeats(session, key)) \in Nat /\ Cardinality(Repeats(h, key)) \in Nat
          /\ Cardinality(Repeats(h, key)) <=
                Cardinality(Repeats(session, key)) + (IF key = ApprovalKey(x) THEN 1 ELSE 0)
      BY <1>1, <2>2, RecordedRepeats
    <2>7. Cardinality(Repeats(session, key)) <= MaxRepeats /\ MaxRepeats \in Nat
      BY <1>1, StateAssumption DEF LoopBound
    <2>8. key = ApprovalKey(x) => Cardinality(Repeats(session, key)) < MaxRepeats
      <3>1. Passed(c, "loop_detect") /\ Judged(c)
        BY <1>1, <2>1 DEF Passed, JudgedInv
      <3>2. "allow" \in Verdicts(session, x, "loop_detect")
        BY <3>1 DEF Judged, Follows, StageNames
      <3>3. LoopVerdict(session, x) = "allow"
        BY <3>2 DEF Verdicts
      <3>4. ~(Cardinality(Repeats(session, ApprovalKey(x))) >= MaxRepeats)
        BY <3>3 DEF LoopVerdict
      <3> HIDE DEF x
      <3> QED BY <2>6, <2>7, <3>4
    <2> HIDE DEF x, h
    <2> QED BY <2>5, <2>6, <2>7, <2>8
  <1>4. CASE WindowPasses
    <2>1. session' = [session EXCEPT !.stale = @ + 1] /\ gw' = gw
      BY <1>4 DEF WindowPasses
    <2> SUFFICES ASSUME Enforces, NEW key \in Tools \X Args
                 PROVE  Cardinality(Repeats(session', key)) <= MaxRepeats
      <3>1. Enforces' = Enforces
        BY <2>1 DEF Enforces
      <3>2. \A key : Repeats(session, key)' = Repeats(session', key)
        BY DEF Repeats
      <3> QED BY <3>1, <3>2 DEF LoopBound
    <2> DEFINE A == Repeats(session', key)
               B == Repeats(session, key)
    <2>2. A \in SUBSET B
      <3>1. session'.recent = session.recent /\ session'.stale = session.stale + 1
            /\ session.stale \in Nat /\ DOMAIN session.recent \in SUBSET Nat
        BY <1>1, <2>1, LenProperties DEF SessionType
      <3> QED BY <3>1 DEF Repeats
    <2>3. Cardinality(B) <= MaxRepeats /\ IsFiniteSet(B)
      <3> DEFINE n == Len(session.recent)
                 I == 1..n
      <3>1. B \in SUBSET I /\ n \in Nat
        BY <1>1, LenProperties DEF Repeats, SessionType
      <3> HIDE DEF B, n
      <3>2. IsFiniteSet(I)
        BY <3>1, FS_Interval
      <3> HIDE DEF I
      <3>3. IsFiniteSet(B)
        BY <3>1, <3>2, FS_Subset
      <3> QED BY <1>1, <3>3 DEF LoopBound, B
    <2> HIDE DEF A, B
    <2>4. Cardinality(A) <= Cardinality(B) /\ IsFiniteSet(A)
      BY <2>2, <2>3, FS_Subset
    <2>5. Cardinality(A) \in Nat /\ Cardinality(B) \in Nat
      BY <2>3, <2>4, FS_CardinalityType
    <2> QED BY <2>3, <2>4, <2>5, StateAssumption DEF A
  <1>5. CASE GrantApprovalById \/ ClearTaint \/ Quiet \/ UNCHANGED vars
    <2>1. gw' = gw
      BY <1>5 DEF GrantApprovalById, ClearTaint, Quiet, vars
    <2>2. SameHistory(session, session')
      <3>1. CASE GrantApprovalById
        BY <1>1, <3>1 DEF GrantApprovalById, RedeemPending, SameHistory, SessionType
      <3>2. CASE ClearTaint
        BY <1>1, <3>2 DEF ClearTaint, SameHistory, SessionType
      <3>3. CASE UNCHANGED vars
        BY <3>3 DEF vars, SameHistory
      <3> QED BY <1>5, <3>1, <3>2, <3>3 DEF Quiet
    <2> QED BY <1>1, <2>1, <2>2, LoopBoundKept
  <1> QED BY <1>2, <1>3, <1>4, <1>5 DEF Next, CallStep, Host, Before

LEMMA LoopInitially == Init => LoopInv
  <1> SUFFICES ASSUME Init PROVE LoopInv
    OBVIOUS
  <1>1. session.recent = <<>> /\ session.stale = 0
    BY DEF Init, NewSession
  <1>2. \A key : Repeats(session, key) = {}
    <2>1. DOMAIN session.recent = {}
      BY <1>1
    <2> QED BY <2>1 DEF Repeats
  <1>3. LoopBound
    <2>1. Cardinality({}) = 0 /\ 0 <= MaxRepeats
      BY FS_EmptySet, StateAssumption
    <2>2. \A key : Cardinality(Repeats(session, key)) <= MaxRepeats
      BY <1>2, <2>1
    <2> QED BY <2>2 DEF LoopBound
  <1> QED BY <1>3, JudgedInitially DEF LoopInv

\* Where nothing suspends, and the detector sees the arguments that run, no call is
\* let through more often within the window than max_repeats says.
THEOREM LoopsAreBounded ==
  ASSUME Suspending = {}, Follows("loop_detect")
  PROVE  Spec => []LoopBound
  <1>1. LoopInv /\ [Next]_vars => LoopInv'
    BY LoopInductive
  <1>2. LoopInv => LoopBound
    BY DEF LoopInv
  <1> QED BY <1>1, <1>2, LoopInitially, PTL DEF Spec

-----------------------------------------------------------------------------
(* Questions. *)

QuestionsOf(s) == {s.pending[i] : i \in DOMAIN s.pending}

\* A question that is added is listed, and at most the oldest one is dropped for it.
LEMMA QuestionAdded ==
  ASSUME NEW s, Bounded(s), NEW id \in ApprovalIds, NEW key \in Keys
  PROVE  /\ [id |-> id, key |-> key] \in QuestionsOf(AddPending(s, id, key))
         /\ \A i \in DOMAIN s.pending :
               \/ s.pending[i] \in QuestionsOf(AddPending(s, id, key))
               \/ i = 1 /\ Len(s.pending) = MaxPending
  <1> DEFINE Q == [id : ApprovalIds, key : Keys]
             p == s.pending
             e == [id |-> id, key |-> key]
             q == PushedOnto(p, e, MaxPending)
  <1>1. p \in Seq(Q) /\ e \in Q /\ MaxPending \in Nat \ {0}
    BY StateAssumption DEF Bounded, SessionType
  <1>2. AddPending(s, id, key).pending = q
    BY DEF AddPending, Bounded, SessionType, PushedOnto
  <1> HIDE DEF p, e, Q
  <1>3. /\ ElementOf(e, q)
        /\ \A i \in DOMAIN p : ElementOf(p[i], q) \/ (i = 1 /\ Len(p) = MaxPending)
    BY <1>1, Pushed
  <1> HIDE DEF q
  <1> QED BY <1>2, <1>3 DEF QuestionsOf, ElementOf, p, e

\* A question that is answered leaves the others listed.
LEMMA QuestionRedeemed ==
  ASSUME NEW s, Bounded(s), NEW k \in DOMAIN s.pending
  PROVE  \A i \in DOMAIN s.pending :
            i = k \/ s.pending[i] \in QuestionsOf(RedeemPending(s, k))
  <1> DEFINE Q == [id : ApprovalIds, key : Keys]
             p == s.pending
             q == WithoutAt(p, k)
  <1>1. p \in Seq(Q) /\ k \in DOMAIN p
    BY DEF Bounded, SessionType
  <1>2. RedeemPending(s, k).pending = q
    BY DEF RedeemPending, Bounded, SessionType, WithoutAt
  <1> HIDE DEF p, Q
  <1>3. \A i \in DOMAIN p : i = k \/ \E j \in DOMAIN q : q[j] = p[i]
    BY <1>1, TakenOut
  <1> HIDE DEF q
  <1> QED BY <1>2, <1>3 DEF QuestionsOf, p

\* A step of a call asks by RequireApproval only, and no other touches the questions.
LEMMA QuestionsKept ==
  ASSUME TypeOK, NEW c \in Calls, CallStep(c), ~RequireApproval(c)
  PROVE  session'.pending = session.pending /\ ~Asks(c)
  <1>1. /\ Bounded(session) /\ ctx[c] \in ContextType /\ session \in SessionType
        /\ pc \in [Calls -> Locations]
    BY CurrentTypes DEF Bounded, TypeOK
  <1> USE <1>1 DEF Goto, Asks
  <1>2. CASE \/ StageAllows(c) \/ StageTransforms(c) \/ StageBlocks(c) \/ StageRaises(c)
             \/ EmitDecision(c) \/ ToolReturns(c) \/ AfterHookRaises(c) \/ Start(c) \/ Reissue(c)
    BY <1>2 DEF StageAllows, StageTransforms, StageBlocks, StageRaises, NextStage, EmitDecision,
                ToolReturns, AfterHookRaises, Start, Reissue
  <1>3. CASE EmitDecisionRaises(c) \/ AdmitShadow(c) \/ Deny(c) \/ Cancel(c)
    BY <1>3, WithdrawKeeps DEF EmitDecisionRaises, AdmitShadow, Deny, Cancel
  <1>4. CASE Admit(c)
    BY <1>4, AccountingKeeps, WithdrawKeeps DEF Admit
  <1>5. CASE EndsExecution(c)
    BY <1>5, AccountingKeeps DEF EndsExecution, ToolRaises, ToolTimesOut, Fail, Return,
                ReturnRaises, OutputGuardRejects, SettleTo
  <1>6. CASE AfterHook(c)
    BY <1>6, AccountingKeeps DEF AfterHook
  <1>7. CASE ApproveOnce(c) \/ GrantApproval(c)
    BY <1>7 DEF ApproveOnce, GrantApproval, SessionType
  <1> QED BY <1>2, <1>3, <1>4, <1>5, <1>6, <1>7 DEF CallStep, Before, Finish, EndsExecution

\* Every question can be answered by its id, for the arguments that were judged, until
\* it is answered or the oldest of a full list; no mode, fault or await changes that.
THEOREM QuestionsCanBeAnswered == Spec => QuestionsRedeemable
  <1> DEFINE Kept == /\ \A c \in Calls : Asks(c) =>
                          [id |-> ApprovalId(c), key |-> ApprovalKey(ctx[c])] \in Questions'
                     /\ \A i \in DOMAIN session.pending :
                          \/ session.pending[i] \in Questions'
                          \/ session.pending[i].key \in granted'
                          \/ i = 1 /\ Len(session.pending) = MaxPending
                             /\ \E c \in Calls : Asks(c)
  <1>1. TypeOK /\ [Next]_vars => [Kept]_vars
    <2> SUFFICES ASSUME TypeOK, Next PROVE Kept
      OBVIOUS
    <2>1. /\ Bounded(session) /\ pc \in [Calls -> Locations]
          /\ Questions = QuestionsOf(session) /\ Questions' = QuestionsOf(session')
      BY DEF TypeOK, Bounded, Questions, QuestionsOf
    <2>2. ASSUME session'.pending = session.pending
          PROVE  \A i \in DOMAIN session.pending : session.pending[i] \in Questions'
      BY <2>1, <2>2 DEF QuestionsOf
    <2>3. ASSUME NEW c \in Calls, CallStep(c), ~RequireApproval(c) PROVE Kept
      <3>1. session'.pending = session.pending /\ ~Asks(c) /\ OthersStay(c)
        BY <2>3, QuestionsKept, StepsOfOneCall
      <3>2. \A d \in Calls : ~Asks(d)
        BY <3>1 DEF OthersStay, Asks
      <3> QED BY <2>2, <3>1, <3>2
    <2>4. ASSUME NEW c \in Calls, RequireApproval(c) PROVE Kept
      <3> DEFINE w == WithdrawOneShot(session, c)
                 id == ApprovalId(c)
                 key == ApprovalKey(ctx[c])
      <3>1. /\ session' = AddPending(w, id, key) /\ pc[c] = "commit" /\ pc'[c] = "asked"
            /\ Asks(c) /\ OthersStay(c)
        BY <2>1, <2>4, StepsOfOneCall DEF RequireApproval, Goto, Asks, CallStep, Before
      <3>2. /\ Bounded(w) /\ w.pending = session.pending
        BY <2>1, WithdrawType, WithdrawKeeps
      <3>3. id \in ApprovalIds /\ key \in Keys
        <4>1. frame[c] \in FrameType /\ frame[c].attempt > 0 /\ ctx[c] \in ContextType
          BY <3>1 DEF TypeOK, PositionOK, Evaluating
        <4> QED BY <4>1, CostType, GatewayAssumption DEF ApprovalId, FrameType
      <3>4. \A d \in Calls \ {c} : ~Asks(d)
        BY <3>1 DEF OthersStay, Asks
      <3> HIDE DEF w, id, key
      <3>5. /\ [id |-> id, key |-> key] \in QuestionsOf(session')
            /\ \A i \in DOMAIN session.pending :
                  \/ session.pending[i] \in QuestionsOf(session')
                  \/ i = 1 /\ Len(session.pending) = MaxPending
        BY <3>1, <3>2, <3>3, QuestionAdded
      <3> QED BY <2>1, <3>1, <3>4, <3>5 DEF id, key
    <2>5. CASE GrantApprovalById
      <3>1. PICK k \in DOMAIN session.pending :
                   session' = RedeemPending(session, k)
                   /\ granted' = granted \cup {session.pending[k].key}
        BY <2>5 DEF GrantApprovalById
      <3>2. \A d \in Calls : ~Asks(d)
        BY <2>5 DEF GrantApprovalById, Asks
      <3>3. \A i \in DOMAIN session.pending : i = k \/ session.pending[i] \in Questions'
        BY <2>1, <3>1, QuestionRedeemed
      <3> QED BY <3>1, <3>2, <3>3
    <2>6. CASE ClearTaint \/ WindowPasses \/ Quiet
      <3>1. session'.pending = session.pending /\ pc' = pc
        BY <2>6 DEF ClearTaint, WindowPasses, Quiet, vars, TypeOK, SessionType
      <3> QED BY <2>2, <3>1 DEF Asks
    <2> QED BY <2>3, <2>4, <2>5, <2>6 DEF Next, Host, CallStep
  <1> QED BY <1>1, TypeCorrect, PTL DEF Spec, QuestionsRedeemable

-----------------------------------------------------------------------------
(* Taint. *)

Untrusted(c) == Manifest[ctx[c].tool].reaches_untrusted

\* A taint hook that has seen the result of an untrusted tool has tainted the session.
TaintInv ==
    /\ SectionInv
    /\ \A c \in Calls, i \in DOMAIN Stages :
          pc[c] = "after" /\ Untrusted(c) /\ Stages[i] = "taint" /\ i > frame[c].idx
              => session.tainted

LEMMA TaintCallStep ==
  ASSUME Suspending = {}, TaintInv, NEW c \in Calls, CallStep(c)
  PROVE  TaintInv'
  <1>1. /\ SectionInv' /\ \A d \in Calls \ {c} : ~HasLoop(d)'
        /\ TypeOK /\ Bounded(session) /\ ctx[c] \in ContextType /\ session \in SessionType
        /\ pc \in [Calls -> Locations] /\ frame \in [Calls -> FrameType]
        /\ frame[c].idx \in 0..(Len(Stages) + 1)
        /\ DOMAIN Stages = 1..Len(Stages) /\ Len(Stages) \in Nat
    BY SectionStep, CurrentTypes, StagesType
       DEF TaintInv, SectionInv, TypeOK, Bounded, FrameType
  <1> SUFFICES ASSUME pc'[c] = "after", Untrusted(c)',
                      NEW i \in DOMAIN Stages, Stages[i] = "taint", i > frame'[c].idx
               PROVE  session'.tainted
    BY <1>1 DEF TaintInv, HasLoop
  <1>2. CASE ToolReturns(c)
    <2>1. frame'[c].idx = Len(Stages)
      BY <1>1, <1>2 DEF ToolReturns, FrameType
    <2> QED BY <1>1, <2>1
  <1>3. CASE AfterHook(c)
    <2>1. /\ pc[c] = "after" /\ frame[c].idx > 0 /\ Untrusted(c)
          /\ frame'[c].idx = frame[c].idx - 1
          /\ session' = AfterStage(session, ctx[c], Here(c))
      BY <1>1, <1>3 DEF AfterHook, FrameType, Untrusted
    <2>2. session.tainted => session'.tainted
      BY <1>1, <2>1 DEF AfterStage, SessionType
    <2>3. CASE i = frame[c].idx
      BY <1>1, <2>1, <2>3 DEF AfterStage, SessionType, Here, Untrusted
    <2>4. CASE i # frame[c].idx
      BY <1>1, <2>1, <2>2, <2>4 DEF TaintInv
    <2> QED BY <2>3, <2>4
  <1>4. CASE GrantApproval(c)
    <2>1. session'.tainted = session.tainted /\ UNCHANGED <<pc, frame, ctx>>
      BY <1>1, <1>4 DEF GrantApproval, SessionType
    <2> QED BY <2>1 DEF TaintInv, Untrusted
  <1> QED BY <1>1, <1>2, <1>3, <1>4
      DEF CallStep, Before, Finish, StageAllows, StageTransforms, StageBlocks, StageRaises,
          NextStage, EmitDecision, EmitDecisionRaises, AdmitShadow, Deny, RequireApproval, Admit,
          ToolRaises, ToolTimesOut, Fail, Return, ReturnRaises, OutputGuardRejects, SettleTo,
          AfterHookRaises, Cancel, Start, ApproveOnce, Reissue, Goto, Evaluating

LEMMA TaintInductive ==
  Suspending = {} /\ TaintInv /\ [Next]_vars => TaintInv'
  <1> SUFFICES ASSUME Suspending = {}, TaintInv, [Next]_vars PROVE TaintInv'
    OBVIOUS
  <1>1. SectionInv' /\ TypeOK /\ session \in SessionType /\ Bounded(session) /\ NoCall \notin Calls
    BY SectionInductive, GatewayAssumption DEF TaintInv, SectionInv, TypeOK, Bounded
  <1>2. ASSUME NEW c \in Calls, CallStep(c) PROVE TaintInv'
    BY <1>2, TaintCallStep
  <1>3. CASE GrantApprovalById \/ ClearTaint
    <2>1. loop = NoCall /\ pc' = pc
      BY <1>3 DEF GrantApprovalById, ClearTaint
    <2>2. \A c \in Calls : pc'[c] # "after"
      BY <1>1, <2>1 DEF TaintInv, SectionInv, HasLoop
    <2> QED BY <1>1, <2>2 DEF TaintInv
  <1>4. CASE WindowPasses \/ Quiet \/ UNCHANGED vars
    <2>1. session'.tainted = session.tainted /\ UNCHANGED <<pc, frame, ctx>>
      BY <1>1, <1>4 DEF WindowPasses, Quiet, vars, SessionType
    <2> QED BY <1>1, <2>1 DEF TaintInv, Untrusted
  <1> QED BY <1>2, <1>3, <1>4 DEF Next, Host, CallStep

\* Where nothing suspends and the taint stage is listed: when the result of a tool that
\* reaches untrusted content gets back to the agent, the session is tainted, and no
\* call was evaluated in between.
THEOREM TaintPrecedesResult ==
  ASSUME Suspending = {}, Listed("taint")
  PROVE  Spec => TaintBeforeResult
  <1>1. Init => TaintInv
    <2> SUFFICES ASSUME Init PROVE TaintInv
      OBVIOUS
    <2>1. \A c \in Calls : pc[c] = "idle"
      BY DEF Init
    <2> QED BY <2>1, SectionInitially DEF TaintInv
  <1>2. TaintInv /\ [Next]_vars => TaintInv'
    BY TaintInductive
  <1>3. TaintInv /\ [Next]_vars =>
          [\A c \in Calls :
              pc[c] = "after" /\ pc'[c] = "returned" /\ Manifest[ctx[c].tool].reaches_untrusted
                  => session.tainted]_vars
    <2> SUFFICES ASSUME TaintInv, Next, NEW c \in Calls,
                        pc[c] = "after", pc'[c] = "returned", Untrusted(c)
                 PROVE  session.tainted
      BY DEF Untrusted
    <2>1. TypeOK /\ pc \in [Calls -> Locations]
      BY DEF TaintInv, SectionInv, TypeOK
    <2>2. CASE CallStep(c)
      <3>1. frame[c].idx = 0
        BY <2>1, <2>2
           DEF CallStep, Before, Finish, StageAllows, StageTransforms, StageBlocks, StageRaises,
               AtStage, EmitDecision, EmitDecisionRaises, AdmitShadow, Deny, RequireApproval,
               Admit, ToolReturns, ToolRaises, ToolTimesOut, Fail, AfterHook, Return, ReturnRaises,
               OutputGuardRejects, SettleTo, AfterHookRaises, Cancel, Start, ApproveOnce,
               Reissue, GrantApproval, Goto
      <3>2. PICK i \in DOMAIN Stages : Stages[i] = "taint"
        BY DEF Listed
      <3> QED BY <3>1, <3>2, StagesType DEF TaintInv
    <2>3. ASSUME NEW d \in Calls \ {c}, CallStep(d) PROVE FALSE
      BY <2>1, <2>3, StepsOfOneCall DEF OthersStay
    <2>4. CASE Host \/ Quiet
      BY <2>1, <2>4, HostKeepsMoney
    <2> QED BY <2>2, <2>3, <2>4 DEF Next, CallStep
  <1> QED BY <1>1, <1>2, <1>3, PTL DEF Spec, TaintBeforeResult

-----------------------------------------------------------------------------
(* The pipeline in one step. *)

\* A context differs from the one it was issued with in its arguments only, until the
\* call is let run; the after hooks begin with the last stage.
Shape(c) ==
    /\ pc[c] \in {"idle", "asked"} \cup Evaluating => ctx[c] = Fresh(c, ctx[c].args)
    /\ pc[c] = "idle" => ctx[c].args = Call[c].args /\ frame[c] = NewFrame
    /\ pc[c] = "after" => frame[c].idx <= Len(Stages)

\* How far the loop over the stages has come with a call it began with arguments a.
Came(c, a) ==
    LET w == [ctx |-> ctx[c], decision |-> frame[c].final]
    IN  IF pc[c] = "before"
          THEN ~Blocked(w.decision) /\ w \in Turns(session, Fresh(c, a))[frame[c].idx - 1]
          ELSE w \in Walk(session, Fresh(c, a)) \/ ("stage_bug" \in Faults /\ w.decision = "deny")

Underway(c) ==
    pc[c] \in {"before", "decide", "commit"} => \E a \in Args : BeganWith(c, a) /\ Came(c, a)

StepInv ==
    /\ ApprovalInv
    /\ \A c \in Calls : Shape(c)
    /\ Enforces /\ session.stale = 0 => \A c \in Calls : Underway(c)

LEMMA FreshFields ==
  ASSUME NEW c \in Calls, NEW a
  PROVE  /\ Fresh(c, a) = [tool |-> Call[c].tool, args |-> a, scopes |-> Call[c].scopes,
                           depth |-> Call[c].depth, reserved |-> 0]
         /\ Fresh(c, Call[c].args) = NewContext(Call[c])
         /\ ApprovalKey(Fresh(c, a)) = <<Call[c].tool, a>>
         /\ \A b : [Fresh(c, a) EXCEPT !.args = b] = Fresh(c, b)
  <1> DEFINE R(b) == [tool |-> Call[c].tool, args |-> b, scopes |-> Call[c].scopes,
                      depth |-> Call[c].depth, reserved |-> 0]
  <1>1. NewContext(Call[c]) = R(Call[c].args)
    BY DEF NewContext
  <1>2. \A b : Fresh(c, b) = R(b)
    BY <1>1 DEF Fresh
  <1>3. \A b : [R(a) EXCEPT !.args = b] = R(b)
    OBVIOUS
  <1>4. ApprovalKey(R(a)) = <<Call[c].tool, a>>
    BY DEF ApprovalKey
  <1> QED BY <1>1, <1>2, <1>3, <1>4

LEMMA ShapeStep ==
  ASSUME TypeOK, NEW c \in Calls, CallStep(c), Shape(c)
  PROVE  Shape(c)'
  <1>1. /\ frame \in [Calls -> FrameType] /\ pc \in [Calls -> Locations]
        /\ ctx \in [Calls -> ContextType] /\ frame[c].idx \in Nat
        /\ Len(Stages) \in Nat
    BY CurrentTypes, StagesType DEF TypeOK
  <1>2. CASE StageTransforms(c)
    <2> DEFINE b == Rewrite[ApprovalKey(ctx[c])]
    <2>1. ctx'[c] = [ctx[c] EXCEPT !.args = b] /\ pc[c] = "before" /\ pc'[c] \notin {"idle", "after"}
      BY <1>1, <1>2 DEF StageTransforms, AtStage, NextStage, Goto
    <2> HIDE DEF b
    <2>2. ctx[c] = Fresh(c, ctx[c].args)
      BY <2>1 DEF Shape, Evaluating
    <2>3. ctx'[c] = Fresh(c, b)
      BY <2>1, <2>2, FreshFields
    <2>4. ctx'[c].args = b
      BY <2>3, FreshFields
    <2> QED BY <2>1, <2>3, <2>4 DEF Shape
  <1>3. CASE StageAllows(c) \/ StageBlocks(c) \/ StageRaises(c) \/ EmitDecision(c)
    <2>1. ctx' = ctx /\ pc[c] \in Evaluating /\ pc'[c] \notin {"idle", "after"}
      BY <1>1, <1>3 DEF StageAllows, StageBlocks, StageRaises, EmitDecision, AtStage, NextStage,
                        Goto, Evaluating
    <2> QED BY <2>1 DEF Shape
  <1>4. CASE RequireApproval(c) \/ GrantApproval(c)
    <2>1. ctx' = ctx /\ pc[c] \in Evaluating \cup {"asked"} /\ pc'[c] \notin {"idle", "after"}
      BY <1>1, <1>4 DEF RequireApproval, GrantApproval, Goto, Evaluating
    <2> QED BY <2>1 DEF Shape
  <1>5. CASE Start(c) \/ ApproveOnce(c)
    <2>1. ctx' = ctx /\ pc[c] \in {"idle", "asked"} /\ pc'[c] \notin {"idle", "after"}
      BY <1>1, <1>5 DEF Start, ApproveOnce, Goto
    <2> QED BY <2>1 DEF Shape
  <1>6. CASE Reissue(c)
    <2>1. ctx'[c] = NewContext(Call[c]) /\ pc'[c] = "before"
      BY <1>1, <1>6 DEF Reissue, Goto
    <2>2. ctx'[c] = Fresh(c, Call[c].args) /\ ctx'[c].args = Call[c].args
      BY <2>1, FreshFields
    <2> QED BY <2>1, <2>2 DEF Shape
  <1>7. CASE ToolReturns(c) \/ AfterHook(c)
    <2>1. pc'[c] = "after" /\ frame'[c].idx <= Len(Stages)
      BY <1>1, <1>7 DEF ToolReturns, AfterHook, Goto, FrameType, Shape
    <2> QED BY <2>1 DEF Shape, Evaluating
  <1>8. CASE \/ EmitDecisionRaises(c) \/ AdmitShadow(c) \/ Deny(c) \/ Admit(c) \/ Cancel(c)
             \/ ToolRaises(c) \/ ToolTimesOut(c) \/ Return(c) \/ ReturnRaises(c)
             \/ OutputGuardRejects(c) \/ AfterHookRaises(c)
    <2>1. pc'[c] \in {"denied", "aborted", "executing", "failed", "returned", "withheld",
                      "lost", "uncharged"}
      BY <1>1, <1>8
         DEF EmitDecisionRaises, AdmitShadow, Deny, Admit, Cancel, ToolRaises,
             ToolTimesOut, Fail, Return, ReturnRaises, OutputGuardRejects, SettleTo,
             AfterHookRaises, Goto
    <2> QED BY <2>1 DEF Shape, Evaluating
  <1> QED BY <1>2, <1>3, <1>4, <1>5, <1>6, <1>7, <1>8 DEF CallStep, Before, Finish

\* One stage judges the call: the loop comes one turn further.
LEMMA UnderwayStage ==
  ASSUME TypeOK, Enforces, NEW c \in Calls, Underway(c),
         StageAllows(c) \/ StageTransforms(c) \/ StageBlocks(c) \/ StageRaises(c)
  PROVE  Underway(c)'
  <1> DEFINE n == Len(Stages)
             i == frame[c].idx
             w == [ctx |-> ctx[c], decision |-> frame[c].final]
             v == [ctx |-> ctx'[c], decision |-> frame'[c].final]
  <1>1. /\ frame \in [Calls -> FrameType] /\ pc \in [Calls -> Locations]
        /\ ctx \in [Calls -> ContextType] /\ pc[c] = "before" /\ session' = session
        /\ i \in 1..n /\ n \in Nat /\ i + 1 - 1 = i /\ frame[c] \in FrameType
    <2>1. pc[c] = "before" /\ session' = session
      BY DEF StageAllows, StageTransforms, StageBlocks, StageRaises, AtStage
    <2> QED BY <2>1, CurrentTypes, StagesType DEF TypeOK
  <1>2. PICK a \in Args : /\ BeganWith(c, a) /\ ~Blocked(frame[c].final)
                          /\ w \in Turns(session, Fresh(c, a))[i - 1]
    BY <1>1 DEF Underway, Came
  <1> DEFINE t == Turns(session, Fresh(c, a))
  <1>3. frame'[c].attempt = frame[c].attempt /\ frame'[c].oneShot = frame[c].oneShot
    BY <1>1 DEF StageAllows, StageTransforms, StageBlocks, StageRaises, FrameType
  <1>4. BeganWith(c, a)'
    BY <1>2, <1>3 DEF BeganWith
  <1>5. CASE StageRaises(c)
    <2>1. "stage_bug" \in Faults /\ frame'[c].final = "deny" /\ pc'[c] = "decide"
      BY <1>1, <1>5 DEF StageRaises, Enforces, Goto, FrameType
    <2>2. Came(c, a)'
      BY <2>1 DEF Came
    <2> QED BY <1>4, <2>2 DEF Underway
  <1>6. ASSUME v \in Judge(session, w, Stages[i]),
               \/ frame'[c].idx = i + 1 /\ ~Blocked(v.decision)
                    /\ pc'[c] = IF i = n THEN "decide" ELSE "before"
               \/ Blocked(v.decision) /\ pc'[c] = "decide"
        PROVE  Underway(c)'
    <2>1. v \in t[i]
      BY <1>1, <1>2, <1>6, TurnTaken
    <2>2. CASE pc'[c] = "before"
      <3>1. frame'[c].idx - 1 = i /\ ~Blocked(frame'[c].final)
        BY <1>1, <1>6, <2>2
      <3>2. Came(c, a)'
        BY <1>1, <2>1, <2>2, <3>1 DEF Came
      <3> QED BY <1>4, <3>2 DEF Underway
    <2>3. CASE pc'[c] = "decide"
      <3>1. v \in Walk(session, Fresh(c, a))
        <4>1. CASE Blocked(v.decision)
          BY <1>1, <2>1, <4>1, WalkBlocked
        <4>2. CASE i = n
          BY <2>1, <4>2 DEF Walk
        <4> QED BY <1>6, <2>3, <4>1, <4>2
      <3>2. Came(c, a)'
        BY <1>1, <2>3, <3>1 DEF Came
      <3> QED BY <1>4, <3>2 DEF Underway
    <2> QED BY <1>6, <2>2, <2>3
  <1>7. w.decision = frame[c].final /\ w.ctx = ctx[c] /\ v.decision = frame'[c].final
    OBVIOUS
  <1>8. CASE StageAllows(c)
    <2>1. /\ v = w /\ "allow" \in Verdicts(session, ctx[c], Stages[i]) /\ frame'[c].idx = i + 1
          /\ pc'[c] = IF i = n THEN "decide" ELSE "before"
      BY <1>1, <1>8 DEF StageAllows, NextStage, Goto, Here, FrameType
    <2>2. v \in Judge(session, w, Stages[i])
      <3> HIDE DEF w, v
      <3> QED BY <1>2, <1>7, <2>1 DEF Judge
    <2> QED BY <1>2, <1>6, <1>7, <2>1, <2>2
  <1>9. CASE StageTransforms(c)
    <2>1. /\ "transform" \in Verdicts(session, ctx[c], Stages[i]) /\ frame'[c].idx = i + 1
          /\ frame'[c].final = "transform"
          /\ ctx'[c] = [ctx[c] EXCEPT !.args = Rewrite[ApprovalKey(ctx[c])]]
          /\ pc'[c] = IF i = n THEN "decide" ELSE "before"
      BY <1>1, <1>9 DEF StageTransforms, NextStage, Goto, Here, FrameType
    <2>2. v = [ctx |-> [w.ctx EXCEPT !.args = Rewrite[ApprovalKey(w.ctx)]], decision |-> "transform"]
      BY <2>1
    <2>3. v \in Judge(session, w, Stages[i])
      <3> HIDE DEF w, v
      <3> QED BY <1>2, <1>7, <2>1, <2>2 DEF Judge
    <2> QED BY <1>6, <1>7, <2>1, <2>3 DEF Blocked
  <1>10. CASE StageBlocks(c)
    <2>1. PICK u \in Verdicts(session, ctx[c], Stages[i]) \cap {"deny", "require_approval"} :
             frame' = [frame EXCEPT ![c].final = u]
      BY <1>10 DEF StageBlocks, Here
    <2>2. pc'[c] = "decide" /\ ctx' = ctx /\ frame'[c].final = u
      BY <1>1, <1>10, <2>1 DEF StageBlocks, Goto, FrameType
    <2>3. v = [w EXCEPT !.decision = u]
      BY <2>2
    <2>4. v \in Judge(session, w, Stages[i])
      <3> HIDE DEF w, v
      <3> QED BY <1>2, <1>7, <2>1, <2>3 DEF Judge
    <2> QED BY <1>6, <1>7, <2>1, <2>2, <2>4 DEF Blocked
  <1> QED BY <1>5, <1>8, <1>9, <1>10

LEMMA UnderwayStep ==
  ASSUME TypeOK, Enforces, NEW c \in Calls, CallStep(c), Shape(c), session'.stale = 0,
         session.stale = 0 => Underway(c)
  PROVE  Underway(c)'
  <1>1. /\ frame \in [Calls -> FrameType] /\ pc \in [Calls -> Locations]
        /\ ctx \in [Calls -> ContextType] /\ frame[c] \in FrameType /\ session \in SessionType
        /\ ctx[c] \in ContextType /\ Call[c].args \in Args /\ ctx[c].args \in Args
        /\ frame[c].attempt \in Nat /\ (pc[c] = "asked" => frame[c].attempt > 0)
    <2>1. Call[c] \in CallType
      BY GatewayAssumption
    <2> QED BY <2>1, CurrentTypes DEF TypeOK, CallType, ContextType
  \* An evaluation begins.
  <1>2. ASSUME NEW a \in Args, BeganWith(c, a)', pc'[c] = "before", ctx'[c] = Fresh(c, a),
               frame'[c].idx = 1, frame'[c].final = "allow"
        PROVE  Underway(c)'
    <2>1. [ctx |-> ctx'[c], decision |-> frame'[c].final] \in Turns(session', Fresh(c, a))[1 - 1]
      BY <1>2, TurnsUnfold
    <2>2. Came(c, a)'
      BY <1>2, <2>1 DEF Came, Blocked
    <2> QED BY <1>2, <2>2 DEF Underway
  <1>3. CASE Start(c)
    <2>1. pc[c] = "idle" /\ pc'[c] = "before" /\ ctx' = ctx
      BY <1>1, <1>3 DEF Start, Goto
    <2>2. ctx[c] = Fresh(c, Call[c].args) /\ frame[c] = NewFrame
      BY <2>1 DEF Shape
    <2>3. /\ frame'[c].idx = 1 /\ frame'[c].attempt = 1 /\ frame'[c].final = "allow"
          /\ frame'[c].oneShot = {}
      BY <1>1, <1>3, <2>2 DEF Start, NewFrame
    <2>4. BeganWith(c, Call[c].args)'
      BY <2>3 DEF BeganWith
    <2> QED BY <1>1, <1>2, <2>1, <2>2, <2>3, <2>4
  <1>4. CASE Reissue(c)
    <2>1. pc'[c] = "before" /\ ctx'[c] = NewContext(Call[c])
      BY <1>1, <1>4 DEF Reissue, Goto
    <2>2. frame'[c] = [idx |-> 1, final |-> "allow", attempt |-> frame[c].attempt + 1, oneShot |-> {}]
      BY <1>1, <1>4 DEF Reissue
    <2>3. BeganWith(c, Call[c].args)'
      BY <2>2 DEF BeganWith
    <2> QED BY <1>1, <1>2, <2>1, <2>2, <2>3, FreshFields
  <1>5. CASE ApproveOnce(c)
    <2>0. PICK a \in Args : a = ctx[c].args
      BY <1>1
    <2>1. pc[c] = "asked" /\ pc'[c] = "before" /\ ctx' = ctx /\ ctx[c] = Fresh(c, a)
      BY <1>1, <1>5, <2>0 DEF ApproveOnce, Goto, Shape
    <2>2. frame'[c] = [idx |-> 1, final |-> "allow", attempt |-> frame[c].attempt + 1,
                       oneShot |-> {ApprovalKey(ctx[c])} \ session.approvals]
      BY <1>1, <1>5 DEF ApproveOnce
    <2>3. frame'[c].attempt # 1
      BY <1>1, <2>1, <2>2
    <2>4. ApprovalKey(ctx[c]) = <<Call[c].tool, a>>
      BY <2>1, FreshFields
    <2>5. BeganWith(c, a)'
      BY <2>2, <2>3, <2>4 DEF BeganWith
    <2> QED BY <1>1, <1>2, <2>1, <2>2, <2>5
  <1>6. CASE StageAllows(c) \/ StageTransforms(c) \/ StageBlocks(c) \/ StageRaises(c)
    <2>1. session' = session
      BY <1>6 DEF StageAllows, StageTransforms, StageBlocks, StageRaises
    <2> QED BY <1>6, <2>1, UnderwayStage
  <1>7. CASE EmitDecision(c)
    <2>1. /\ pc[c] = "decide" /\ pc'[c] = "commit" /\ ctx' = ctx /\ frame' = frame
          /\ session' = session
      BY <1>1, <1>7 DEF EmitDecision, ShadowOnly, Enforces, Goto
    <2>2. PICK a \in Args : BeganWith(c, a) /\ Came(c, a)
      BY <2>1 DEF Underway
    <2>3. BeganWith(c, a)' /\ Came(c, a)'
      BY <2>1, <2>2 DEF BeganWith, Came
    <2> QED BY <2>3 DEF Underway
  <1>8. CASE \/ EmitDecisionRaises(c) \/ AdmitShadow(c) \/ Deny(c) \/ RequireApproval(c)
             \/ Admit(c) \/ Cancel(c) \/ Finish(c) \/ GrantApproval(c)
    <2>1. pc'[c] \notin {"before", "decide", "commit"}
      BY <1>1, <1>8
         DEF EmitDecisionRaises, AdmitShadow, Deny, RequireApproval, Admit, Cancel, Finish,
             ToolReturns, ToolRaises, ToolTimesOut, Fail, AfterHook, Return, ReturnRaises,
             OutputGuardRejects, SettleTo, AfterHookRaises, GrantApproval, Goto
    <2> QED BY <2>1 DEF Underway
  <1> QED BY <1>3, <1>4, <1>5, <1>6, <1>7, <1>8 DEF CallStep, Before

LEMMA StepInductive == Suspending = {} /\ StepInv /\ [Next]_vars => StepInv'
  <1> SUFFICES ASSUME Suspending = {}, StepInv, [Next]_vars PROVE StepInv'
    OBVIOUS
  <1>1. ApprovalInv' /\ SectionInv /\ TypeOK /\ session \in SessionType /\ NoCall \notin Calls
    BY ApprovalInductive, GatewayAssumption DEF StepInv, ApprovalInv, SectionInv, TypeOK
  <1>2. ASSUME NEW c \in Calls, CallStep(c) PROVE StepInv'
    <2>1. gw' = gw /\ OthersStay(c) /\ \A d \in Calls \ {c} : ~HasLoop(d)'
      BY <1>1, <1>2, StepsOfOneCall, SectionStep
    <2>2. ASSUME NEW d \in Calls PROVE Shape(d)'
      <3>1. CASE d = c
        BY <1>1, <1>2, <3>1, ShapeStep DEF StepInv
      <3>2. CASE d # c
        BY <2>1, <3>2 DEF StepInv, Shape, OthersStay
      <3> QED BY <3>1, <3>2
    <2>3. ASSUME Enforces', session'.stale = 0, NEW d \in Calls PROVE Underway(d)'
      <3>1. CASE d = c
        BY <1>1, <1>2, <2>1, <2>3, <3>1, UnderwayStep DEF StepInv, Enforces
      <3>2. CASE d # c
        BY <2>1, <3>2 DEF Underway, HasLoop, Evaluating
      <3> QED BY <3>1, <3>2
    <2> QED BY <1>1, <2>2, <2>3 DEF StepInv
  <1>3. CASE GrantApprovalById \/ ClearTaint
    <2>1. loop = NoCall /\ UNCHANGED <<pc, frame, ctx>>
      BY <1>3 DEF GrantApprovalById, ClearTaint
    <2>2. \A c \in Calls : Shape(c)'
      BY <2>1 DEF StepInv, Shape
    <2>3. \A c \in Calls : Underway(c)'
      BY <1>1, <2>1 DEF SectionInv, HasLoop, Evaluating, Underway
    <2> QED BY <1>1, <2>2, <2>3 DEF StepInv
  <1>4. CASE WindowPasses
    <2>1. UNCHANGED <<pc, frame, ctx>> /\ session'.stale # 0
      BY <1>1, <1>4 DEF WindowPasses, SessionType
    <2>2. \A c \in Calls : Shape(c)'
      BY <2>1 DEF StepInv, Shape
    <2> QED BY <1>1, <2>1, <2>2 DEF StepInv
  <1>5. CASE Quiet \/ UNCHANGED vars
    <2>1. UNCHANGED <<gw, pc, frame, ctx, session>>
      BY <1>5 DEF Quiet, vars
    <2>2. \A c \in Calls : Shape(c)'
      BY <2>1 DEF StepInv, Shape
    <2>3. Enforces' /\ session'.stale = 0 => \A c \in Calls : Underway(c)'
      BY <2>1 DEF StepInv, Enforces, Underway, Came, BeganWith
    <2> QED BY <1>1, <2>2, <2>3 DEF StepInv
  <1> QED BY <1>2, <1>3, <1>4, <1>5 DEF Next, Host, CallStep

LEMMA StepInitially == Init => StepInv
  <1> SUFFICES ASSUME Init PROVE StepInv
    OBVIOUS
  <1>1. ASSUME NEW c \in Calls PROVE Shape(c) /\ Underway(c)
    <2>1. pc[c] = "idle" /\ frame[c] = NewFrame /\ ctx[c] = Fresh(c, Call[c].args)
      BY FreshFields DEF Init
    <2>2. ctx[c].args = Call[c].args
      BY <2>1, FreshFields
    <2> QED BY <2>1, <2>2 DEF Shape, Underway
  <1> QED BY <1>1, ApprovalInitially DEF StepInv

\* Withdrawing a one-shot key, and what it undoes.
LEMMA WithdrawFacts ==
  ASSUME NEW s \in SessionType, NEW c
  PROVE  /\ frame[c].oneShot = {} => WithdrawOneShot(s, c) = s
         /\ \A id, key : AddPending(WithdrawOneShot(s, c), id, key)
                           = WithdrawOneShot(AddPending(s, id, key), c)
         /\ frame[c].oneShot \subseteq s.approvals =>
              [WithdrawOneShot(s, c) EXCEPT !.approvals = @ \cup frame[c].oneShot] = s
  <1> DEFINE own == frame[c].oneShot
             R(a, p) == [used |-> s.used, reserved |-> s.reserved, tainted |-> s.tainted,
                         approvals |-> a, pending |-> p, recent |-> s.recent, stale |-> s.stale]
  <1>1. s = R(s.approvals, s.pending)
    BY DEF SessionType
  <1>2. \A a, p, b : [R(a, p) EXCEPT !.approvals = b] = R(b, p)
    OBVIOUS
  <1>3. \A a, p, q : [R(a, p) EXCEPT !.pending = q] = R(a, q)
    OBVIOUS
  <1>4. \A a, p : R(a, p).approvals = a /\ R(a, p).pending = p
    OBVIOUS
  <1> HIDE DEF R
  <1>5. \A a, p : WithdrawOneShot(R(a, p), c) = R(a \ own, p)
    BY <1>2, <1>4 DEF WithdrawOneShot
  <1>7. ASSUME NEW id, NEW key
        PROVE  AddPending(WithdrawOneShot(s, c), id, key) = WithdrawOneShot(AddPending(s, id, key), c)
    <2> DEFINE pushed == Append(IF Len(s.pending) = MaxPending THEN Tail(s.pending) ELSE s.pending,
                                [id |-> id, key |-> key])
    <2>1. ASSUME NEW a PROVE AddPending(R(a, s.pending), id, key) = R(a, pushed)
      <3> DEFINE y == R(a, s.pending)
      <3>1. y.pending = s.pending
        BY <1>4
      <3>2. AddPending(y, id, key) = [y EXCEPT !.pending = pushed]
        BY <3>1 DEF AddPending
      <3> HIDE DEF pushed
      <3> QED BY <1>3, <3>2
    <2> HIDE DEF pushed
    <2>2. AddPending(s, id, key) = R(s.approvals, pushed)
      BY <1>1, <2>1
    <2>3. WithdrawOneShot(s, c) = R(s.approvals \ own, s.pending)
      BY <1>1, <1>5
    <2> QED BY <1>5, <2>1, <2>2, <2>3
  <1>8. ASSUME own \subseteq s.approvals
        PROVE  [WithdrawOneShot(s, c) EXCEPT !.approvals = @ \cup own] = s
    <2>1. WithdrawOneShot(s, c) = R(s.approvals \ own, s.pending)
      BY <1>1, <1>5
    <2>2. (s.approvals \ own) \cup own = s.approvals
      BY <1>8
    <2>3. [R(s.approvals \ own, s.pending) EXCEPT !.approvals = @ \cup own]
            = R((s.approvals \ own) \cup own, s.pending)
      <3> DEFINE y == R(s.approvals \ own, s.pending)
                 b == (s.approvals \ own) \cup own
      <3>1. y.approvals \cup own = b
        BY <1>4
      <3>2. [y EXCEPT !.approvals = @ \cup own] = [y EXCEPT !.approvals = b]
        BY <3>1
      <3> HIDE DEF b, own
      <3> QED BY <1>2, <3>2
    <2> QED BY <1>1, <2>1, <2>2, <2>3
  <1>9. own = {} => WithdrawOneShot(s, c) = s
    <2> SUFFICES ASSUME own = {} PROVE WithdrawOneShot(s, c) = s
      OBVIOUS
    <2>1. s.approvals \ own = s.approvals
      OBVIOUS
    <2> QED BY <1>1, <1>5, <2>1
  <1>10. /\ own = {} => WithdrawOneShot(s, c) = s
         /\ own \subseteq s.approvals => [WithdrawOneShot(s, c) EXCEPT !.approvals = @ \cup own] = s
    BY <1>8, <1>9
  <1>11. \A id, key : AddPending(WithdrawOneShot(s, c), id, key)
                         = WithdrawOneShot(AddPending(s, id, key), c)
    BY <1>7
  <1> QED BY <1>10, <1>11

\* What a call that is decided leaves is the end of before, with the one-shot key
\* taken back.
LEMMA DecidedCommits ==
  ASSUME Suspending = {}, StepInv, NEW c \in Calls, CallStep(c), Decided(c)
  PROVE  LET o == Commit(session, [ctx |-> ctx[c], decision |-> frame[c].final], ApprovalId(c))
         IN  /\ session' = WithdrawOneShot(o.session, c) /\ ctx'[c] = o.ctx
             /\ frame[c].final = o.decision /\ o.session \in SessionType
             /\ frame[c].final = "deny" => "stage_bug" \notin Faults
  <1> DEFINE w == [ctx |-> ctx[c], decision |-> frame[c].final]
             q == IF frame[c].final = "require_approval"
                    THEN AddPending(session, ApprovalId(c), ApprovalKey(ctx[c])) ELSE session
             r == IF Blocked(frame[c].final) THEN <<q, ctx[c]>> ELSE Reserve(q, ctx[c])
             o == Commit(session, w, ApprovalId(c))
  <1>1. /\ TypeOK /\ Bounded(session) /\ session \in SessionType /\ ctx[c] \in ContextType
        /\ pc \in [Calls -> Locations] /\ ctx \in [Calls -> ContextType]
        /\ frame[c].attempt \in 1..MaxAttempts /\ pc[c] = "commit"
    <2>1. TypeOK /\ pc[c] = "commit"
      BY DEF StepInv, ApprovalInv, SectionInv, Decided
    <2>2. frame[c].attempt \in 0..MaxAttempts /\ frame[c].attempt > 0
      BY <2>1, CurrentTypes DEF Evaluating
    <2> QED BY <2>1, <2>2, CurrentTypes, GatewayAssumption DEF TypeOK, Bounded
  <1>2. o = [session |-> r[1], ctx |-> r[2], decision |-> frame[c].final]
    BY DEF Commit
  <1>3. o.session = r[1] /\ o.ctx = r[2] /\ o.decision = frame[c].final
    BY <1>2
  <1> SUFFICES /\ session' = WithdrawOneShot(r[1], c) /\ ctx'[c] = r[2] /\ r[1] \in SessionType
               /\ frame[c].final = "deny" => "stage_bug" \notin Faults
    <2> HIDE DEF r
    <2> QED BY <1>3
  <1>4. \/ Deny(c) \/ RequireApproval(c) \/ Admit(c)
    <2>1. loop = c /\ NoCall \notin Calls
      BY <1>1, GatewayAssumption DEF StepInv, ApprovalInv, SectionInv, HasLoop, Evaluating
    <2> QED BY <1>1, <2>1
         DEF CallStep, Before, StageAllows, StageTransforms, StageBlocks, StageRaises, AtStage,
             EmitDecision, EmitDecisionRaises, AdmitShadow, Finish, ToolReturns, ToolRaises,
             ToolTimesOut, Fail, AfterHook, Return, ReturnRaises, OutputGuardRejects,
             AfterHookRaises, Cancel, Start, ApproveOnce, Reissue, GrantApproval
  <1>5. CASE Deny(c)
    <2>1. /\ session' = WithdrawOneShot(session, c) /\ ctx' = ctx /\ frame[c].final = "deny"
          /\ pc'[c] = "denied"
      BY <1>1, <1>5 DEF Deny, Goto
    <2>2. r[1] = session /\ r[2] = ctx[c]
      BY <2>1 DEF Blocked
    <2>3. "stage_bug" \notin Faults
      BY <2>1 DEF Decided
    <2> HIDE DEF r
    <2> QED BY <1>1, <2>1, <2>2, <2>3
  <1>6. CASE RequireApproval(c)
    <2>1. /\ session' = AddPending(WithdrawOneShot(session, c), ApprovalId(c), ApprovalKey(ctx[c]))
          /\ ctx' = ctx /\ frame[c].final = "require_approval"
      BY <1>6 DEF RequireApproval
    <2>2. r[1] = AddPending(session, ApprovalId(c), ApprovalKey(ctx[c])) /\ r[2] = ctx[c]
      BY <2>1 DEF Blocked
    <2>3. session' = WithdrawOneShot(r[1], c)
      BY <1>1, <2>1, <2>2, WithdrawFacts
    <2>4. r[1] \in SessionType
      <3>1. ApprovalId(c) \in ApprovalIds /\ ApprovalKey(ctx[c]) \in Keys
        BY <1>1, GatewayAssumption, CostType DEF ApprovalId
      <3> QED BY <1>1, <2>2, <3>1, AddPendingType DEF Bounded
    <2> HIDE DEF r
    <2> QED BY <1>1, <2>1, <2>2, <2>3, <2>4
  <1>7. CASE Admit(c)
    <2>1. /\ session' = WithdrawOneShot(Reserve(session, ctx[c])[1], c)
          /\ ctx'[c] = Reserve(session, ctx[c])[2] /\ frame[c].final \in {"allow", "transform"}
      BY <1>1, <1>7 DEF Admit
    <2>2. r = Reserve(session, ctx[c])
      BY <2>1 DEF Blocked
    <2>3. Reserve(session, ctx[c])[1] \in SessionType
      BY <1>1, AccountingKeeps DEF Bounded
    <2> HIDE DEF r
    <2> QED BY <1>1, <2>1, <2>2, <2>3
  <1> HIDE DEF r
  <1> QED BY <1>4, <1>5, <1>6, <1>7


LEMMA DecidedInOneStep ==
  ASSUME Suspending = {}, StepInv, Enforces, NEW c \in Calls, CallStep(c), Decided(c),
         session.stale = 0
  PROVE  \E a \in Args :
            /\ BeganWith(c, a)
            /\ [session |-> session', ctx |-> ctx'[c], decision |-> frame[c].final] \in
                  IF frame[c].oneShot = {}
                    THEN BeforeOutcomes(session, Fresh(c, a), ApprovalId(c))
                    ELSE BeforeApproved(WithdrawOneShot(session, c), Fresh(c, a), ApprovalId(c))
  <1> DEFINE w == [ctx |-> ctx[c], decision |-> frame[c].final]
             own == frame[c].oneShot
             s == WithdrawOneShot(session, c)
  <1>1. PICK o : o = Commit(session, w, ApprovalId(c))
    OBVIOUS
  <1>2. /\ session' = WithdrawOneShot(o.session, c) /\ ctx'[c] = o.ctx
        /\ frame[c].final = o.decision /\ o.session \in SessionType
        /\ frame[c].final = "deny" => "stage_bug" \notin Faults
    BY <1>1, DecidedCommits
  <1>3. PICK a \in Args : BeganWith(c, a) /\ Came(c, a)
    BY DEF StepInv, Underway, Decided
  <1>4. w \in Walk(session, Fresh(c, a))
    BY <1>2, <1>3 DEF Came, Decided
  <1>5. o \in BeforeOutcomes(session, Fresh(c, a), ApprovalId(c))
    <2> HIDE DEF w
    <2> QED BY <1>1, <1>4 DEF BeforeOutcomes
  <1>6. o = [session |-> o.session, ctx |-> o.ctx, decision |-> o.decision]
    BY <1>1 DEF Commit
  <1> DEFINE left == [session |-> session', ctx |-> ctx'[c], decision |-> frame[c].final]
  <1>7. CASE own = {}
    <2>1. session' = o.session
      BY <1>2, <1>7, WithdrawFacts
    <2>2. left = o
      BY <1>2, <1>6, <2>1
    <2> HIDE DEF left
    <2>3. left \in BeforeOutcomes(session, Fresh(c, a), ApprovalId(c))
      BY <1>5, <2>2
    <2> QED BY <1>3, <1>7, <2>3 DEF left
  <1>8. CASE own # {}
    <2>1. own = {ApprovalKey(Fresh(c, a))}
      BY <1>3, <1>8, FreshFields DEF BeganWith
    <2>2. own \subseteq session.approvals /\ session \in SessionType
      BY DEF StepInv, ApprovalInv, ApprovalsAreGrants, SectionInv, TypeOK
    <2>3. s.approvals = session.approvals \ own
      BY <2>2 DEF WithdrawOneShot, SessionType
    <2>4. {ApprovalKey(Fresh(c, a))} \ s.approvals = own
      BY <2>1, <2>3
    <2>5. [s EXCEPT !.approvals = @ \cup own] = session
      BY <2>2, WithdrawFacts
    <2>6. [o EXCEPT !.session.approvals = @ \ own] = left
      <3>1. o.session.approvals \ own = o.session.approvals \ frame[c].oneShot
        OBVIOUS
      <3>2. session' = [o.session EXCEPT !.approvals = @ \ own]
        BY <1>2 DEF WithdrawOneShot
      <3>3. [o EXCEPT !.session.approvals = @ \ own]
              = [o EXCEPT !.session = [o.session EXCEPT !.approvals = @ \ own]]
        OBVIOUS
      <3>4. \A t : [o EXCEPT !.session = t] = [session |-> t, ctx |-> o.ctx, decision |-> o.decision]
        <4>1. PICK x, y, z : o = [session |-> x, ctx |-> y, decision |-> z]
          BY <1>6
        <4> QED BY <4>1
      <3>5. [o EXCEPT !.session.approvals = @ \ own]
              = [session |-> session', ctx |-> o.ctx, decision |-> o.decision]
        BY <3>2, <3>3, <3>4
      <3> QED BY <1>2, <3>5
    <2> HIDE DEF left, s, own
    <2>7. left \in BeforeApproved(s, Fresh(c, a), ApprovalId(c))
      BY <1>5, <2>4, <2>5, <2>6 DEF BeforeApproved
    <2> QED BY <1>3, <1>8, <2>7 DEF left, s, own
  <1> QED BY <1>7, <1>8

\* What the hooks that have run made of the session is there already.
LEMMA AlreadySeen ==
  ASSUME TaintInv, NEW c \in Calls, pc[c] = "after", frame[c].idx \in 0..Len(Stages)
  PROVE  Seen(session, ctx[c], frame[c].idx + 1) = session
  <1>1. session \in SessionType
    BY DEF TaintInv, SectionInv, TypeOK
  <1>2. ASSUME NEW i \in (frame[c].idx + 1)..Len(Stages),
               AfterStage(session, ctx[c], Stages[i]).tainted, ~session.tainted
        PROVE  FALSE
    <2>1. Stages[i] = "taint" /\ Untrusted(c)
      BY <1>2 DEF AfterStage, Untrusted
    <2>2. i \in DOMAIN Stages /\ i > frame[c].idx
      BY StagesType
    <2> QED BY <1>2, <2>1, <2>2 DEF TaintInv
  <1>3. session.tainted => [session EXCEPT !.tainted = TRUE] = session
    BY <1>1 DEF SessionType
  <1> QED BY <1>2, <1>3 DEF Seen

\* What a call whose tool has returned leaves is what after leaves.
LEMMA AfterInOneStep ==
  ASSUME StepInv, TaintInv, NEW c \in Calls, CallStep(c),
         pc[c] = "after", pc'[c] \in {"returned", "withheld"}
  PROVE  session' \in AfterOutcomes(session, ctx[c])
  <1>1. TypeOK /\ pc \in [Calls -> Locations]
    BY DEF StepInv, ApprovalInv, SectionInv, TypeOK
  <1>2. /\ session' = Settle(session, ctx[c])[1]
        /\ frame[c].idx = 0 \/ (Here(c) = "guardrails" /\ frame[c].idx > 0)
    BY <1>1
       DEF CallStep, Before, Finish, StageAllows, StageTransforms, StageBlocks, StageRaises,
           AtStage, EmitDecision, EmitDecisionRaises, AdmitShadow, Deny, RequireApproval,
           Admit, ToolReturns, ToolRaises, ToolTimesOut, Fail, AfterHook, Return, ReturnRaises,
           OutputGuardRejects, SettleTo, AfterHookRaises, Cancel, Start, ApproveOnce,
           Reissue, GrantApproval, Goto
  <1>3. CASE frame[c].idx = 0
    <2>1. Seen(session, ctx[c], 1) = session
      BY <1>3, AlreadySeen, StagesType
    <2> QED BY <1>2, <2>1 DEF AfterOutcomes
  <1>4. CASE Here(c) = "guardrails" /\ frame[c].idx > 0
    <2>1. frame[c].idx \in DOMAIN Stages
      BY <1>1, <1>4, CurrentTypes, StagesType DEF StepInv, Shape
    <2> QED BY <1>2, <1>4, <2>1 DEF AfterOutcomes, Here
  <1> QED BY <1>2, <1>3, <1>4

\* And so it is when an after hook raises what is no GatewayError.
LEMMA RaisedInOneStep ==
  ASSUME Suspending = {}, StepInv, TaintInv, NEW c \in Calls, CallStep(c),
         pc[c] = "after", pc'[c] = "uncharged"
  PROVE  session' \in AfterRaised(session, ctx[c])
  <1>1. TypeOK /\ pc \in [Calls -> Locations] /\ loop = c /\ c # NoCall
    BY GatewayAssumption DEF TaintInv, SectionInv, TypeOK, HasLoop
  <1>2. session' = session /\ frame[c].idx > 0
    BY <1>1
       DEF CallStep, Before, Finish, StageAllows, StageTransforms, StageBlocks, StageRaises,
           AtStage, EmitDecision, EmitDecisionRaises, AdmitShadow, Deny, RequireApproval,
           Admit, ToolReturns, ToolRaises, ToolTimesOut, Fail, AfterHook, Return, ReturnRaises,
           OutputGuardRejects, SettleTo, AfterHookRaises, Cancel, Start, ApproveOnce,
           Reissue, GrantApproval, Goto
  <1>3. frame[c].idx \in DOMAIN Stages
    BY <1>1, <1>2, CurrentTypes, StagesType DEF StepInv, Shape
  <1>4. Seen(session, ctx[c], frame[c].idx + 1) = session
    BY <1>3, AlreadySeen, StagesType
  <1> QED BY <1>2, <1>3, <1>4 DEF AfterRaised

\* Where nothing suspends, and until a call leaves the detector's window: what the
\* coroutines of an enforcing gateway come to, over all their steps, is what the
\* adapters' modules take before, before_approved and after for.
THEOREM EvaluatedInOneStep ==
  ASSUME Suspending = {}
  PROVE  Spec => PipelineIsOneStep
  <1> DEFINE Inv == StepInv /\ TaintInv
             Step(c) ==
               /\ Decided(c) /\ session.stale = 0 =>
                     \E a \in Args :
                        /\ BeganWith(c, a)
                        /\ [session |-> session', ctx |-> ctx'[c], decision |-> frame[c].final] \in
                              IF frame[c].oneShot = {}
                                THEN BeforeOutcomes(session, Fresh(c, a), ApprovalId(c))
                                ELSE BeforeApproved(WithdrawOneShot(session, c), Fresh(c, a),
                                                    ApprovalId(c))
               /\ pc[c] = "after" /\ pc'[c] \in {"returned", "withheld"} =>
                     session' \in AfterOutcomes(session, ctx[c])
               /\ pc[c] = "after" /\ pc'[c] = "uncharged" =>
                     session' \in AfterRaised(session, ctx[c])
  <1>1. Init => Inv
    <2>1. Init => \A c \in Calls : pc[c] = "idle"
      BY DEF Init
    <2> QED BY <2>1, StepInitially, SectionInitially DEF TaintInv
  <1>2. Inv /\ [Next]_vars => Inv'
    BY StepInductive, TaintInductive
  <1>3. Inv /\ [Next]_vars => [\A c \in Calls : Enforces => Step(c)]_vars
    <2> SUFFICES ASSUME Inv, Next, NEW c \in Calls, Enforces PROVE Step(c)
      OBVIOUS
    <2>0. TypeOK /\ pc \in [Calls -> Locations]
      BY DEF StepInv, ApprovalInv, SectionInv, TypeOK
    <2>1. CASE CallStep(c)
      BY <2>1, DecidedInOneStep, AfterInOneStep, RaisedInOneStep
    <2>2. ASSUME pc'[c] = pc[c] PROVE Step(c)
      BY <2>2 DEF Decided
    <2>3. ASSUME NEW d \in Calls \ {c}, CallStep(d) PROVE pc'[c] = pc[c]
      BY <2>0, <2>3, StepsOfOneCall DEF OthersStay
    <2>4. CASE Host \/ Quiet
      BY <2>0, <2>2, <2>4, HostKeepsMoney
    <2> QED BY <2>1, <2>2, <2>3, <2>4 DEF Next, CallStep
  <1> QED BY <1>1, <1>2, <1>3, PTL DEF Spec, PipelineIsOneStep
=============================================================================
