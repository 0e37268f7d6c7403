--------------------------- MODULE Adapters_proofs ---------------------------
(***************************************************************************)
(* Proofs about the adapters, for every number of calls through every      *)
(* framework, every list of stages, policy and manifest.                   *)
(***************************************************************************)
EXTENDS Adapters, GatewayState_proofs

-----------------------------------------------------------------------------
(* The pipeline in one step. *)

OutcomeType == [ctx : ContextType, decision : Decisions]

\* One turn changes the arguments and the decision only; a call that is not blocked
\* after it was let pass as it is, or rewritten by the policy.
LEMMA JudgeKeeps ==
  ASSUME NEW s, NEW w \in OutcomeType, NEW st \in StageNames, NEW v \in Judge(s, w, st)
  PROVE  /\ v \in OutcomeType
         /\ v.ctx.tool = w.ctx.tool /\ v.ctx.reserved = w.ctx.reserved /\ v.ctx.depth = w.ctx.depth
         /\ ~Blocked(v.decision) =>
               /\ ~Blocked(w.decision)
               /\ \/ v = w /\ "allow" \in Verdicts(s, w.ctx, st)
                  \/ st = "policy" /\ "transform" \in Verdicts(s, w.ctx, st)
  <1>1. w.ctx \in ContextType /\ w.decision \in Decisions /\ w = [ctx |-> w.ctx, decision |-> w.decision]
    BY DEF OutcomeType
  <1>2. CASE Blocked(w.decision)
    BY <1>2 DEF Judge
  <1>3. CASE ~Blocked(w.decision)
    <2>1. PICK u \in Verdicts(s, w.ctx, st) :
             v = CASE u = "allow" -> w
                   [] u = "transform" -> [ctx |-> [w.ctx EXCEPT !.args = Rewrite[ApprovalKey(w.ctx)]],
                                          decision |-> u]
                   [] OTHER -> [w EXCEPT !.decision = u]
      BY <1>3 DEF Judge
    <2>2. u \in Decisions
      BY <1>1, VerdictsType
    <2>3. CASE u = "allow"
      BY <1>3, <2>1, <2>3
    <2>4. CASE u = "transform"
      <3> DEFINE a == Rewrite[ApprovalKey(w.ctx)]
                 y == [w.ctx EXCEPT !.args = a]
      <3>1. a \in Args
        BY <1>1, CostType, StateAssumption
      <3> HIDE DEF a
      <3>2. y \in ContextType /\ y.tool = w.ctx.tool /\ y.reserved = w.ctx.reserved
            /\ y.depth = w.ctx.depth
        BY <1>1, <3>1 DEF ContextType
      <3>3. v = [ctx |-> y, decision |-> u]
        BY <2>1, <2>4 DEF a
      <3> HIDE DEF y
      <3>4. st = "policy"
        BY <2>4, OnlyPolicyRewrites
      <3> QED BY <1>3, <2>2, <2>4, <3>2, <3>3, <3>4 DEF OutcomeType
    <2>5. CASE u \in {"deny", "require_approval"}
      <3>1. v = [ctx |-> w.ctx, decision |-> u]
        BY <1>1, <2>1, <2>5
      <3> QED BY <1>1, <2>2, <2>5, <3>1 DEF OutcomeType, Blocked
    <2> QED BY <2>2, <2>3, <2>4, <2>5 DEF Decisions
  <1> QED BY <1>2, <1>3

\* The loop keeps the tool and the reservation; a call it lets pass fits the budget.
LEMMA WalkKeeps ==
  ASSUME NEW s, NEW x \in ContextType, NEW w \in Walk(s, x)
  PROVE  /\ w \in OutcomeType
         /\ w.ctx.tool = x.tool /\ w.ctx.reserved = x.reserved /\ w.ctx.depth = x.depth
         /\ Listed("budget") /\ ~Blocked(w.decision) => BudgetVerdict(s, x) = "allow"
  <1> DEFINE fits(i) == \A j \in 1..i : Stages[j] = "budget" => BudgetVerdict(s, x) = "allow"
             ok(u, i) == /\ u.ctx.tool = x.tool /\ u.ctx.reserved = x.reserved
                         /\ u.ctx.depth = x.depth /\ (~Blocked(u.decision) => fits(i))
             good == [i \in 0..Len(Stages) |-> {u \in OutcomeType : ok(u, i)}]
  <1>1. Len(Stages) \in Nat /\ \A i \in 1..Len(Stages) : Stages[i] \in StageNames
    BY StagesType
  <1>2. [ctx |-> x, decision |-> "allow"] \in good[0]
    <2>1. [ctx |-> x, decision |-> "allow"] \in OutcomeType
      BY DEF OutcomeType, Decisions
    <2>2. ok([ctx |-> x, decision |-> "allow"], 0)
      OBVIOUS
    <2>3. 0 \in 0..Len(Stages)
      BY <1>1
    <2> HIDE DEF ok
    <2> QED BY <2>1, <2>2, <2>3
  <1>3. ASSUME NEW i \in 1..Len(Stages), NEW u \in good[i - 1], NEW v \in Judge(s, u, Stages[i])
        PROVE  v \in good[i]
    <2>1. i \in 0..Len(Stages) /\ i - 1 \in 0..Len(Stages)
      BY <1>1
    <2>2. u \in OutcomeType /\ ok(u, i - 1)
      <3> HIDE DEF ok
      <3> QED BY <2>1
    <2>3. /\ v \in OutcomeType /\ v.ctx.tool = x.tool /\ v.ctx.reserved = x.reserved
          /\ v.ctx.depth = x.depth
          /\ ~Blocked(v.decision) =>
               /\ fits(i - 1)
               /\ "allow" \in Verdicts(s, u.ctx, Stages[i]) \/ Stages[i] = "policy"
      <3> HIDE DEF fits
      <3> QED BY <1>1, <2>2, JudgeKeeps
    <2>4. BudgetVerdict(s, u.ctx) = BudgetVerdict(s, x)
      BY <2>2 DEF BudgetVerdict, Cost
    <2>5. ASSUME ~Blocked(v.decision) PROVE fits(i)
      <3>1. Stages[i] = "budget" => BudgetVerdict(s, x) = "allow"
        BY <2>3, <2>4, <2>5 DEF Verdicts
      <3> QED BY <2>3, <2>5, <3>1, <1>1
    <2>6. ok(v, i)
      <3> HIDE DEF fits
      <3> QED BY <2>3, <2>5
    <2> HIDE DEF ok
    <2> QED BY <2>1, <2>3, <2>6
  <1>4. w \in good[Len(Stages)]
    <2> HIDE DEF good
    <2> QED BY <1>2, <1>3, WalkInduction
  <1>5. w \in OutcomeType /\ ok(w, Len(Stages))
    <2> HIDE DEF ok
    <2> QED BY <1>1, <1>4
  <1> QED BY <1>5, StagesType DEF Listed

\* Somebody has to approve context x in session s.
Asked(s, x) == \/ Policy[ApprovalKey(x)] = "require_approval"
               \/ TaintGates(s, x) /\ RequireApprovalWhenTainted
               \/ RiskScore(s, x) >= ApprovalThreshold

\* A call the loop lets pass, although somebody has to approve it, is approved with
\* the arguments it comes out with.
LEMMA WalkApproved ==
  ASSUME AskingStages, NEW s, NEW x \in ContextType, NEW w \in Walk(s, x),
         ~Blocked(w.decision), Asked(s, x)
  PROVE  Approved(s, w.ctx)
  <1> DEFINE n == Len(Stages)
             byPolicy == Policy[ApprovalKey(x)] = "require_approval"
             later == TaintGates(s, x) /\ RequireApprovalWhenTainted
             risky == RiskScore(s, x) >= ApprovalThreshold
             passed(st, i) == \E j \in 1..i : Stages[j] = st
             ok(u, i) == /\ u.ctx.tool = x.tool /\ u.ctx.depth = x.depth
                         /\ ~Blocked(u.decision) =>
                              /\ byPolicy => u.ctx.args = x.args
                              /\ byPolicy /\ passed("policy", i) => Approved(s, u.ctx)
                              /\ later /\ passed("taint", i) => Approved(s, u.ctx)
                              /\ risky /\ passed("risk", i) => Approved(s, u.ctx)
             good == [i \in 0..n |-> {u \in OutcomeType : ok(u, i)}]
  <1>1. n \in Nat /\ DOMAIN Stages = 1..n /\ \A i \in 1..n : Stages[i] \in StageNames
    BY StagesType
  <1>2. [ctx |-> x, decision |-> "allow"] \in good[0]
    <2>1. [ctx |-> x, decision |-> "allow"] \in OutcomeType
      BY DEF OutcomeType, Decisions
    <2>2. ok([ctx |-> x, decision |-> "allow"], 0)
      OBVIOUS
    <2>3. 0 \in 0..n
      BY <1>1
    <2> HIDE DEF ok, n
    <2> QED BY <2>1, <2>2, <2>3
  <1>3. ASSUME NEW i \in 1..n, NEW u \in good[i - 1], NEW v \in Judge(s, u, Stages[i])
        PROVE  v \in good[i]
    <2>1. i \in 0..n /\ i - 1 \in 0..n /\ \A j \in 1..i : j = i \/ j \in 1..(i - 1)
      BY <1>1
    <2>2. u \in OutcomeType /\ ok(u, i - 1)
      <3> HIDE DEF ok, n
      <3> QED BY <2>1
    <2>3. /\ v \in OutcomeType /\ v.ctx.tool = x.tool /\ v.ctx.depth = x.depth
          /\ ~Blocked(v.decision) =>
               /\ ~Blocked(u.decision)
               /\ \/ v = u /\ "allow" \in Verdicts(s, u.ctx, Stages[i])
                  \/ Stages[i] = "policy" /\ "transform" \in Verdicts(s, u.ctx, Stages[i])
      BY <1>1, <2>2, JudgeKeeps
    <2>4. /\ u.ctx \in ContextType /\ TaintGates(s, u.ctx) = TaintGates(s, x)
          /\ RiskScore(s, u.ctx) = RiskScore(s, x)
      BY <2>2 DEF TaintGates, RiskScore, OutcomeType
    <2>5. ASSUME ~Blocked(v.decision), v = u, "allow" \in Verdicts(s, u.ctx, Stages[i])
          PROVE  ok(v, i)
      <3>1. Stages[i] = "policy" /\ byPolicy => Approved(s, u.ctx)
        <4> SUFFICES ASSUME Stages[i] = "policy", byPolicy PROVE Approved(s, u.ctx)
          OBVIOUS
        <4>1. ApprovalKey(u.ctx) = ApprovalKey(x)
          BY <2>2, <2>3, <2>5 DEF ApprovalKey
        <4> QED BY <2>5, <4>1 DEF Verdicts, PolicyVerdict
      <3>2. Stages[i] = "taint" /\ later => Approved(s, u.ctx)
        BY <2>4, <2>5 DEF Verdicts, TaintVerdict
      <3>3. Stages[i] = "risk" /\ risky => Approved(s, u.ctx)
        BY <2>4, <2>5 DEF Verdicts, RiskVerdict
      <3>4. \A st \in StageNames : passed(st, i) => passed(st, i - 1) \/ Stages[i] = st
        BY <2>1
      <3> HIDE DEF byPolicy, later, risky, passed
      <3> QED BY <2>2, <2>3, <2>5, <3>1, <3>2, <3>3, <3>4 DEF StageNames
    <2>6. ASSUME ~Blocked(v.decision), Stages[i] = "policy", "transform" \in Verdicts(s, u.ctx, Stages[i])
          PROVE  ok(v, i)
      <3>1. ~byPolicy
        <4> SUFFICES ASSUME byPolicy PROVE FALSE
          OBVIOUS
        <4>1. ApprovalKey(u.ctx) = ApprovalKey(x)
          BY <2>2, <2>3, <2>6 DEF ApprovalKey
        <4> QED BY <2>6, <4>1 DEF Verdicts, PolicyVerdict
      <3>2. ~passed("taint", i) /\ ~passed("risk", i)
        BY <1>1, <2>1, <2>6 DEF AskingStages, Follows
      <3> HIDE DEF byPolicy, passed
      <3> QED BY <2>3, <3>1, <3>2
    <2>7. ok(v, i)
      <3>1. CASE Blocked(v.decision)
        BY <2>3, <3>1
      <3> HIDE DEF ok
      <3> QED BY <2>3, <2>5, <2>6, <3>1
    <2> HIDE DEF ok, n
    <2> QED BY <2>1, <2>3, <2>7
  <1>4. w \in good[n]
    <2> HIDE DEF good
    <2> QED BY <1>2, <1>3, WalkInduction
  <1>5. ok(w, n)
    <2> HIDE DEF ok
    <2> QED BY <1>1, <1>4
  <1>6. passed("policy", n) /\ passed("taint", n) /\ passed("risk", n)
    BY <1>1 DEF AskingStages, Follows, Listed
  <1> HIDE DEF passed, byPolicy, later, risky
  <1>7. byPolicy \/ later \/ risky
    BY DEF byPolicy, later, risky, Asked
  <1> QED BY <1>5, <1>6, <1>7

-----------------------------------------------------------------------------
(* before, before_approved and after, as the adapters call them. *)

\* What before does to the money, and to the context it is given.
Outcome(s, x, o) ==
    /\ Bounded(o.session) /\ o.ctx \in ContextType /\ o.decision \in Decisions
    /\ o.ctx.tool = x.tool /\ o.ctx.depth = x.depth /\ o.session.used = s.used
    /\ Blocked(o.decision) => o.session.reserved = s.reserved /\ o.ctx.reserved = 0
    /\ ~Blocked(o.decision) =>
          /\ o.session.reserved = s.reserved + Cost(x) /\ o.ctx.reserved = Cost(x)
          /\ Listed("budget") => BudgetVerdict(s, x) = "allow"

LEMMA ReserveKeeps ==
  ASSUME NEW s, NEW x \in ContextType
  PROVE  LET y == Reserve(s, x)[2]
         IN  y.tool = x.tool /\ y.args = x.args /\ y.depth = x.depth
  BY DEF Reserve, ContextType

LEMMA CommitKeeps ==
  ASSUME NEW s, Bounded(s), NEW x \in ContextType, x.reserved = 0, NEW id \in ApprovalIds,
         NEW w \in Walk(s, x)
  PROVE  LET o == Commit(s, w, id)
         IN  /\ Outcome(s, x, o) /\ o.decision = w.decision /\ o.ctx.args = w.ctx.args
             /\ o = [session |-> o.session, ctx |-> o.ctx, decision |-> o.decision]
  <1> DEFINE q == IF w.decision = "require_approval" THEN AddPending(s, id, ApprovalKey(w.ctx)) ELSE s
             r == Reserve(q, w.ctx)
             o == Commit(s, w, id)
  <1>1. /\ w.ctx \in ContextType /\ w.decision \in Decisions /\ w.ctx.tool = x.tool
        /\ w.ctx.reserved = 0 /\ w.ctx.depth = x.depth
        /\ Listed("budget") /\ ~Blocked(w.decision) => BudgetVerdict(s, x) = "allow"
    BY WalkKeeps DEF OutcomeType
  <1>2. Bounded(q) /\ q.used = s.used /\ q.reserved = s.reserved
    BY <1>1, CostType, AddPendingType
  <1> HIDE DEF q
  <1>3. /\ Bounded(r[1]) /\ r[2] \in ContextType /\ r[2].tool = x.tool /\ r[1].used = s.used
        /\ r[1].reserved = s.reserved + Cost(w.ctx) /\ r[2].reserved = Cost(w.ctx)
        /\ r[2].args = w.ctx.args /\ r[2].depth = x.depth
    BY <1>1, <1>2, ReserveType, ReserveKeeps
  <1>4. Cost(w.ctx) = Cost(x)
    BY <1>1 DEF Cost
  <1>5. CASE Blocked(w.decision)
    <2>1. o = [session |-> q, ctx |-> w.ctx, decision |-> w.decision]
      BY <1>5 DEF Commit, q
    <2> HIDE DEF o
    <2> QED BY <1>1, <1>2, <1>5, <2>1 DEF Outcome, o
  <1>6. CASE ~Blocked(w.decision)
    <2>1. o = [session |-> r[1], ctx |-> r[2], decision |-> w.decision]
      BY <1>6 DEF Commit, q
    <2> HIDE DEF o, r
    <2> QED BY <1>1, <1>3, <1>4, <1>6, <2>1 DEF Outcome, o
  <1> QED BY <1>5, <1>6

LEMMA BeforeFacts ==
  ASSUME NEW s, Bounded(s), NEW x \in ContextType, x.reserved = 0, NEW id \in ApprovalIds,
         NEW o \in BeforeOutcomes(s, x, id)
  PROVE  /\ Outcome(s, x, o)
         /\ o = [session |-> o.session, ctx |-> o.ctx, decision |-> o.decision]
         /\ AskingStages /\ ~Blocked(o.decision) /\ Asked(s, x) => Approved(s, o.ctx)
  <1>1. PICK w \in Walk(s, x) : o = Commit(s, w, id)
    BY DEF BeforeOutcomes
  <1>2. /\ Outcome(s, x, o) /\ o.decision = w.decision /\ o.ctx.args = w.ctx.args
        /\ o = [session |-> o.session, ctx |-> o.ctx, decision |-> o.decision]
    BY <1>1, CommitKeeps
  <1>3. w.ctx.tool = x.tool /\ o.ctx.tool = x.tool
    BY <1>2, WalkKeeps DEF Outcome
  <1>4. ASSUME AskingStages, ~Blocked(o.decision), Asked(s, x) PROVE Approved(s, o.ctx)
    <2>1. Approved(s, w.ctx)
      BY <1>2, <1>4, WalkApproved
    <2> QED BY <1>2, <1>3, <2>1 DEF Approved, ApprovalKey, WildcardKey
  <1> QED BY <1>2, <1>4

LEMMA BeforeApprovedFacts ==
  ASSUME NEW s, Bounded(s), NEW x \in ContextType, x.reserved = 0, NEW id \in ApprovalIds,
         NEW o \in BeforeApproved(s, x, id)
  PROVE  Outcome(s, x, o)
  <1> DEFINE added == {ApprovalKey(x)} \ s.approvals
             a == s.approvals \cup added
             t == [s EXCEPT !.approvals = a]
  <1>1. /\ Bounded(t) /\ t.used = s.used /\ t.reserved = s.reserved
    <2>1. a \in SUBSET Keys /\ s \in SessionType
      BY CostType DEF Bounded, SessionType
    <2> HIDE DEF a
    <2> QED BY <2>1, FieldsType DEF SessionType
  <1>2. PICK p \in BeforeOutcomes(t, x, id) : o = [p EXCEPT !.session.approvals = @ \ added]
    BY DEF BeforeApproved
  <1> HIDE DEF t, added
  <1>3. Outcome(t, x, p) /\ p = [session |-> p.session, ctx |-> p.ctx, decision |-> p.decision]
    BY <1>1, BeforeFacts
  <1> DEFINE b == p.session.approvals \ added
             u == [p.session EXCEPT !.approvals = b]
  <1>4. o.session = u /\ o.ctx = p.ctx /\ o.decision = p.decision
    BY <1>2, <1>3
  <1>5. Bounded(u) /\ u.used = p.session.used /\ u.reserved = p.session.reserved
    <2>1. b \in SUBSET Keys /\ p.session \in SessionType /\ Bounded(p.session)
      BY <1>3 DEF Outcome, Bounded, SessionType
    <2> HIDE DEF b
    <2> QED BY <2>1, FieldsType DEF SessionType
  <1> HIDE DEF u
  <1>6. BudgetVerdict(t, x) = BudgetVerdict(s, x)
    BY <1>1 DEF BudgetVerdict
  <1> QED BY <1>1, <1>3, <1>4, <1>5, <1>6 DEF Outcome

\* The after hooks move no money.
LEMMA SeenKeeps ==
  ASSUME NEW s, Bounded(s), NEW x, NEW i
  PROVE  LET t == Seen(s, x, i)
         IN  Bounded(t) /\ t.used = s.used /\ t.reserved = s.reserved
  BY FieldsType DEF Seen, Bounded, SessionType

\* A call is charged its cost by after, and its reservation ends.
LEMMA AfterFacts ==
  ASSUME NEW s, Bounded(s), NEW x \in ContextType, NEW t \in AfterOutcomes(s, x)
  PROVE  /\ Bounded(t) /\ t.used = s.used + Cost(x)
         /\ t.reserved = IF s.reserved > x.reserved THEN s.reserved - x.reserved ELSE 0
  <1> DEFINE seen == Seen(s, x, 1)
  <1>1. Bounded(seen) /\ seen.used = s.used /\ seen.reserved = s.reserved
    BY SeenKeeps
  <1>2. t = Settle(seen, x)[1] \/ t = Settle(s, x)[1]
    BY DEF AfterOutcomes
  <1> HIDE DEF seen
  <1> QED BY <1>1, <1>2, SettleType

\* Unless a hook raises what is no GatewayError: then no money moves.
LEMMA RaisedFacts ==
  ASSUME NEW s, Bounded(s), NEW x, NEW t \in AfterRaised(s, x)
  PROVE  Bounded(t) /\ t.used = s.used /\ t.reserved = s.reserved
  BY SeenKeeps DEF AfterRaised

-----------------------------------------------------------------------------
(* The dictionaries of the hook adapters. *)

\* The entries of a dictionary, and that an id is a key at most once.
Values(q) == {q[i] : i \in DOMAIN q}
Unique(q) == \A i, j \in DOMAIN q : q[i].call = q[j].call => i = j
Dictionary(q) == q \in Seq(EntryType) /\ Len(q) <= MaxInflight /\ Unique(q)

\* An entry of a new call is inserted; at the limit, another one goes.
LEMMA InsertedEntry ==
  ASSUME NEW q, Dictionary(q), NEW e \in EntryType, \A v \in Values(q) : v.call # e.call
  PROVE  LET r == PushedOnto(q, e, MaxInflight)
         IN  /\ Dictionary(r) /\ e \in Values(r) /\ Values(r) \subseteq Values(q) \cup {e}
             /\ Len(q) # MaxInflight => Len(r) = Len(q) + 1 /\ Values(r) = Values(q) \cup {e}
  <1> DEFINE max == MaxInflight
             r == PushedOnto(q, e, max)
             n == Len(q)
             m == Len(r)
  <1>1. q \in Seq(EntryType) /\ n <= max /\ max \in Nat \ {0}
    BY AdapterAssumption DEF Dictionary
  <1>2. /\ r \in Seq(EntryType) /\ n \in Nat /\ DOMAIN q = 1..n /\ DOMAIN r = 1..m
        /\ n # max => m = n + 1 /\ r[n + 1] = e /\ \A i \in 1..n : r[i] = q[i]
        /\ n = max => m = n /\ r[n] = e /\ \A i \in 1..(n - 1) : r[i] = q[i + 1]
    BY <1>1, PushedAt
  <1>3. \A i, j \in 1..n : q[i].call = q[j].call => i = j
    BY <1>2 DEF Dictionary, Unique
  <1>4. \A i \in 1..n : q[i].call # e.call
    BY <1>2 DEF Values
  <1> HIDE DEF max, r, n, m
  <1>5. CASE n # max
    <2>1. m = n + 1 /\ m <= max /\ n + 1 \in 1..m
      BY <1>1, <1>2, <1>5
    <2>2. \A i \in 1..m : i = n + 1 \/ i \in 1..n
      BY <1>2, <2>1
    <2>3. \A i \in 1..n : i \in 1..m
      BY <1>2, <2>1
    <2>4. \A i, j \in 1..m : r[i].call = r[j].call => i = j
      BY <1>2, <1>3, <1>4, <1>5, <2>2
    <2>5. Values(r) = Values(q) \cup {e}
      BY <1>2, <1>5, <2>1, <2>2, <2>3 DEF Values
    <2> QED BY <1>2, <2>1, <2>4, <2>5 DEF Dictionary, Unique, r, n, m, max
  <1>6. CASE n = max
    <2>1. m = n /\ m <= max /\ n \in 1..m
      BY <1>1, <1>2, <1>6
    <2>2. \A i \in 1..m : i = n \/ (i \in 1..(n - 1) /\ i + 1 \in 1..n)
      BY <1>2, <2>1
    <2>3. ASSUME NEW i \in 1..m, NEW j \in 1..m, r[i].call = r[j].call PROVE i = j
      <3>1. CASE i \in 1..(n - 1) /\ j \in 1..(n - 1)
        <4>1. i + 1 \in 1..n /\ j + 1 \in 1..n /\ r[i] = q[i + 1] /\ r[j] = q[j + 1]
          BY <1>2, <1>6, <2>2, <3>1
        <4>2. i + 1 = j + 1
          BY <1>3, <2>3, <4>1
        <4> QED BY <1>2, <4>2
      <3> QED BY <1>2, <1>4, <1>6, <2>2, <2>3, <3>1
    <2>4. e \in Values(r) /\ Values(r) \subseteq Values(q) \cup {e}
      BY <1>2, <1>6, <2>1, <2>2 DEF Values
    <2> QED BY <1>2, <1>6, <2>1, <2>3, <2>4 DEF Dictionary, Unique, r, n, m, max
  <1> QED BY <1>5, <1>6

\* Popping an id takes its entry, and no other.
LEMMA PoppedEntry ==
  ASSUME NEW q, Dictionary(q), NEW k \in DOMAIN q
  PROVE  /\ Dictionary(WithoutAt(q, k))
         /\ Values(WithoutAt(q, k)) = {v \in Values(q) : v.call # q[k].call}
  <1> DEFINE r == WithoutAt(q, k)
             n == Len(q)
  <1>1. q \in Seq(EntryType) /\ n <= MaxInflight /\ MaxInflight \in Nat
    BY AdapterAssumption DEF Dictionary
  <1>2. /\ r \in Seq(EntryType) /\ n \in Nat \ {0} /\ DOMAIN q = 1..n
        /\ Len(r) = n - 1 /\ DOMAIN r = 1..(n - 1)
        /\ \A j \in 1..(n - 1) : Beyond(j, k) \in (1..n) \ {k} /\ r[j] = q[Beyond(j, k)]
    BY <1>1, RemovedAt
  <1>3. k \in 1..n /\ \A i, j \in 1..n : q[i].call = q[j].call => i = j
    BY <1>2 DEF Dictionary, Unique
  <1> HIDE DEF r, n
  <1>4. \A i, j \in 1..(n - 1) : Beyond(i, k) = Beyond(j, k) => i = j
    BY <1>2, <1>3 DEF Beyond
  <1>5. \A i, j \in 1..(n - 1) : r[i].call = r[j].call => i = j
    BY <1>2, <1>3, <1>4
  <1>6. ASSUME NEW i \in 1..n, i # k PROVE \E j \in 1..(n - 1) : r[j] = q[i]
    <2>1. CASE i < k
      <3>1. i \in 1..(n - 1) /\ Beyond(i, k) = i
        BY <1>2, <1>3, <2>1 DEF Beyond
      <3> QED BY <1>2, <3>1
    <2>2. CASE i > k
      <3>1. i - 1 \in 1..(n - 1) /\ Beyond(i - 1, k) = i
        BY <1>2, <1>3, <2>2 DEF Beyond
      <3> QED BY <1>2, <3>1
    <2> QED BY <1>2, <1>3, <1>6, <2>1, <2>2
  <1>7. Values(r) = {v \in Values(q) : v.call # q[k].call}
    <2>1. ASSUME NEW j \in 1..(n - 1)
          PROVE  \E i \in 1..n : r[j] = q[i] /\ q[i].call # q[k].call
      <3>1. Beyond(j, k) \in 1..n /\ Beyond(j, k) # k /\ r[j] = q[Beyond(j, k)]
        BY <1>2
      <3> QED BY <1>3, <3>1
    <2>2. ASSUME NEW i \in 1..n, q[i].call # q[k].call PROVE \E j \in 1..(n - 1) : r[j] = q[i]
      BY <1>6, <2>2
    <2>3. Values(r) = {r[j] : j \in 1..(n - 1)} /\ Values(q) = {q[i] : i \in 1..n}
      BY <1>2 DEF Values
    <2>4. ASSUME NEW v \in Values(r) PROVE v \in Values(q) /\ v.call # q[k].call
      BY <2>1, <2>3
    <2>5. ASSUME NEW v \in Values(q), v.call # q[k].call PROVE v \in Values(r)
      BY <2>2, <2>3, <2>5
    <2> QED BY <2>4, <2>5
  <1>8. n - 1 <= MaxInflight
    BY <1>1, <1>2
  <1> QED BY <1>2, <1>5, <1>7, <1>8 DEF Dictionary, Unique, r

-----------------------------------------------------------------------------
(* What the adapters keep of a call, between the steps. *)

\* Where the framework may be with a call that its dictionary lists.
Remembered == [claude |-> {"asked", "running", "rejected", "lost"},
               openai |-> {"planned", "asked", "rejected"}]

\* An entry is about a call of the adapter's framework that is on its way, and its
\* context holds the cost of the call if the decision was to go ahead.
EntryInv(a, e) ==
    /\ Via[e.call] = a /\ sdk[e.call] \in Remembered[a]
    /\ e.ctx.tool = Call[e.call].tool
    /\ e.ctx.reserved = IF Blocked(e.decision) THEN 0 ELSE CostOf(e.call)
    /\ a = "openai" /\ e.decision = "require_approval" => shown[e.call] # {}

\* A wrapper keeps a context while its tool runs; a question was answered with yes
\* when the call goes on.
CallInv(c) ==
    /\ local[c] # NoContext <=> Via[c] # "claude" /\ sdk[c] = "running"
    /\ local[c] # NoContext =>
          local[c].tool = Call[c].tool /\ local[c].reserved = CostOf(c)
    /\ Via[c] = "claude" /\ sdk[c] = "running" => ran[c] # NoArgs
    /\ Via[c] = "openai" /\ sdk[c] = "new" => shown[c] = {}
    /\ Via[c] = "openai" /\ sdk[c] = "planned" /\ shown[c] # {} => answer[c] = "yes"
    /\ Via[c] = "pydantic" /\ sdk[c] = "resumed" => answer[c] = "yes"

KeptInv ==
    /\ TypeOK /\ Bounded(session)
    /\ \A a \in HookAdapters :
          Dictionary(inflight[a]) /\ \A e \in Values(inflight[a]) : EntryInv(a, e)
    /\ \A c \in Calls : CallInv(c)

\* The variables that describe single calls, as TypeOK has them.
CallTypes ==
    /\ local \in [Calls -> ContextType \cup {NoContext}]
    /\ sdk \in [Calls -> Progress]
    /\ answer \in [Calls -> {"none", "yes", "no"}]
    /\ shown \in [Calls -> SUBSET Keys]
    /\ ran \in [Calls -> Args \cup {NoArgs}]

OthersStay(c) ==
    \A d \in Calls \ {c} : /\ local'[d] = local[d] /\ sdk'[d] = sdk[d]
                          /\ answer'[d] = answer[d] /\ shown'[d] = shown[d]
                          /\ ran'[d] = ran[d]

\* A step of call c leaves every entry of the other calls as it was.
LEMMA KeptStep ==
  ASSUME KeptInv, NEW c \in Calls, Bounded(session'), CallTypes', OthersStay(c), CallInv(c)',
         inflight' \in [HookAdapters -> Seq(EntryType)],
         \A a \in HookAdapters : Dictionary(inflight'[a]),
         \A a \in HookAdapters : \A e \in Values(inflight'[a]) :
            (e \in Values(inflight[a]) /\ e.call # c) \/ EntryInv(a, e)'
  PROVE  KeptInv'
  <1>1. TypeOK'
    <2>1. \A a \in HookAdapters : Len(inflight'[a]) <= MaxInflight
      BY DEF Dictionary
    <2> QED BY <2>1 DEF TypeOK, CallTypes, Bounded
  <1>2. ASSUME NEW d \in Calls, d # c PROVE CallInv(d)'
    <2>1. CallInv(d) /\ d \in Calls \ {c}
      BY <1>2 DEF KeptInv
    <2> QED BY <2>1 DEF CallInv, OthersStay
  <1>3. ASSUME NEW a \in HookAdapters, NEW e \in Values(inflight'[a]) PROVE EntryInv(a, e)'
    <2> SUFFICES ASSUME e \in Values(inflight[a]), e.call # c PROVE EntryInv(a, e)'
      OBVIOUS
    <2>1. EntryInv(a, e) /\ e.call \in Calls
      <3>1. inflight[a] \in Seq(EntryType)
        BY DEF KeptInv, TypeOK
      <3>2. e \in EntryType
        BY <3>1, ElementOfSeq, LenProperties DEF Values
      <3> QED BY <3>2 DEF KeptInv, EntryType
    <2>2. e.call \in Calls \ {c}
      BY <2>1
    <2> QED BY <2>1, <2>2 DEF EntryInv, OthersStay, CostOf
  <1> QED BY <1>1, <1>2, <1>3 DEF KeptInv

\* What the invariant says of the dictionaries.
LEMMA DictionaryFacts ==
  ASSUME KeptInv, NEW a \in HookAdapters
  PROVE  /\ inflight \in [HookAdapters -> Seq(EntryType)] /\ Dictionary(inflight[a])
         /\ \A e \in Values(inflight[a]) : e \in EntryType /\ EntryInv(a, e)
         /\ \A c \in Calls : Entries(a, c) = {e \in Values(inflight[a]) : e.call = c}
  <1>1. inflight \in [HookAdapters -> Seq(EntryType)] /\ inflight[a] \in Seq(EntryType)
    BY DEF KeptInv, TypeOK
  <1>2. \A e \in Values(inflight[a]) : e \in EntryType
    BY <1>1, ElementOfSeq, LenProperties DEF Values
  <1> QED BY <1>1, <1>2 DEF KeptInv, Entries, Values

Entry(c, o) == [call |-> c, ctx |-> o.ctx, decision |-> o.decision]

\* _remember lists the decision of a new call, and evicts only a full dictionary's oldest.
LEMMA RememberKeeps ==
  ASSUME KeptInv, NEW a \in HookAdapters, NEW c \in Calls, sdk[c] = "new", NEW o,
         o.ctx \in ContextType, o.decision \in Decisions, Remember(a, c, o)
  PROVE  /\ inflight' \in [HookAdapters -> Seq(EntryType)] /\ Dictionary(inflight'[a])
         /\ \A b \in HookAdapters \ {a} : inflight'[b] = inflight[b]
         /\ Entry(c, o) \in Values(inflight'[a])
         /\ Values(inflight'[a]) \subseteq Values(inflight[a]) \cup {Entry(c, o)}
         /\ Len(inflight[a]) # MaxInflight =>
               Values(inflight'[a]) = Values(inflight[a]) \cup {Entry(c, o)}
  <1> DEFINE q == inflight[a]
             e == Entry(c, o)
             r == PushedOnto(q, e, MaxInflight)
  <1>1. /\ inflight \in [HookAdapters -> Seq(EntryType)] /\ Dictionary(q)
        /\ \A v \in Values(q) : EntryInv(a, v)
    BY DictionaryFacts
  <1>2. inflight' = [inflight EXCEPT ![a] = r]
    BY DEF Remember, PushedOnto, Entry
  <1>3. e \in EntryType /\ e.call = c
    BY DEF EntryType, Entry
  <1>4. \A v \in Values(q) : v.call # e.call
    <2>1. \A b \in HookAdapters : "new" \notin Remembered[b]
      BY DEF Remembered, HookAdapters
    <2>2. \A v \in Values(q) : sdk[v.call] \in Remembered[a]
      BY <1>1 DEF EntryInv
    <2> HIDE DEF q, e
    <2> QED BY <1>3, <2>1, <2>2
  <1> HIDE DEF e
  <1>5. /\ Dictionary(r) /\ e \in Values(r) /\ Values(r) \subseteq Values(q) \cup {e}
        /\ Len(q) # MaxInflight => Values(r) = Values(q) \cup {e}
    BY <1>1, <1>3, <1>4, InsertedEntry
  <1> HIDE DEF r, q
  <1>6. r \in Seq(EntryType)
    BY <1>5 DEF Dictionary
  <1> QED BY <1>1, <1>2, <1>5, <1>6 DEF q, e

\* pop takes the entry of the call, if there is one.
LEMMA ForgetKeeps ==
  ASSUME KeptInv, NEW a \in HookAdapters, NEW c \in Calls, Forget(a, c)
  PROVE  /\ inflight' \in [HookAdapters -> Seq(EntryType)] /\ Dictionary(inflight'[a])
         /\ \A b \in HookAdapters \ {a} : inflight'[b] = inflight[b]
         /\ Values(inflight'[a]) = {e \in Values(inflight[a]) : e.call # c}
  <1> DEFINE q == inflight[a]
  <1>1. /\ inflight \in [HookAdapters -> Seq(EntryType)] /\ Dictionary(q)
        /\ Entries(a, c) = {e \in Values(q) : e.call = c}
    BY DictionaryFacts
  <1>2. CASE Entries(a, c) = {}
    <2>1. inflight' = inflight
      BY <1>2 DEF Forget
    <2> HIDE DEF q
    <2> QED BY <1>1, <1>2, <2>1 DEF q
  <1>3. CASE Entries(a, c) # {}
    <2> DEFINE k == CHOOSE i \in DOMAIN inflight[a] : inflight[a][i].call = c
               r == WithoutAt(q, k)
    <2>1. \E i \in DOMAIN inflight[a] : inflight[a][i].call = c
      BY <1>3 DEF Entries
    <2>2. k \in DOMAIN q /\ q[k].call = c
      BY <2>1
    <2>3. inflight' = [inflight EXCEPT ![a] = r]
      BY <1>3 DEF Forget, WithoutAt
    <2> HIDE DEF k, q
    <2>4. Dictionary(r) /\ Values(r) = {v \in Values(q) : v.call # q[k].call}
      BY <1>1, <2>2, PoppedEntry
    <2> HIDE DEF r
    <2>5. r \in Seq(EntryType)
      BY <2>4 DEF Dictionary
    <2> QED BY <1>1, <2>2, <2>3, <2>4, <2>5 DEF q
  <1> QED BY <1>2, <1>3

-----------------------------------------------------------------------------
(* What a step does to the money. *)

\* The calls that hold money in a context somebody keeps; those that lost theirs, and
\* those for which after came to its end.
Carriers == {c \in Calls : \/ local[c] # NoContext
                           \/ \E a \in HookAdapters : \E e \in Values(inflight[a]) :
                                 e.call = c /\ ~Blocked(e.decision)}
Lost == {c \in Calls : LostByWrapper(c)}
Done == {c \in Calls : sdk[c] = "done"}
Ended == {"failed", "uncharged", "done"}
USE DEF Ended

\* Nothing is forgotten: there is no hook that finds no context, and the dictionary
\* has room for every call that may be listed there.
OpenAICalls == {c \in Calls : Via[c] = "openai"}
Roomy == /\ \A c \in Calls : Via[c] # "claude"
         /\ IsFiniteSet(OpenAICalls) /\ Cardinality(OpenAICalls) <= MaxInflight

\* The cost of call c is reserved: it was decided, or the host's yes to it came to the
\* Post hook of the Claude adapter, and an after hook raised.
Reserves(c) ==
    /\ session'.reserved = session.reserved + CostOf(c) /\ session'.used = session.used
    /\ c \notin Carriers \cup Lost /\ Carriers' \subseteq Carriers \cup {c}
    /\ Roomy => Carriers' = Carriers \cup {c}
    /\ Lost' = Lost /\ Done' = Done
    /\ Via[c] # "claude" /\ Listed("budget") =>
          BudgetVerdict(session, NewContext(Call[c])) = "allow"

\* No money moves; a reservation may be forgotten, or lost by a wrapper.
Keeps ==
    /\ session'.reserved = session.reserved /\ session'.used = session.used
    /\ Carriers' \subseteq Carriers
    /\ Roomy => (Carriers \cup Lost)' = Carriers \cup Lost
    /\ Done' = Done

\* Call c is settled or released.
Ends(c) ==
    /\ LET n == IF c \in Carriers THEN CostOf(c) ELSE 0
       IN  session'.reserved = IF session.reserved > n THEN session.reserved - n ELSE 0
    /\ c \notin Lost /\ Carriers' = Carriers \ {c} /\ Lost' = Lost
    /\ Via[c] # "claude" => c \in Carriers
    /\ \/ session'.used = session.used /\ Done' = Done
       \/ /\ session'.used = session.used + CostOf(c)
          /\ c \notin Done /\ Done' = Done \cup {c}

\* The two things to show of a step of call c.
StepOK(c) == KeptInv' /\ (Keeps \/ Reserves(c) \/ Ends(c))

LEMMA CallFacts ==
  ASSUME NEW c \in Calls
  PROVE  LET x == NewContext(Call[c])
         IN  /\ x \in ContextType /\ x.tool = Call[c].tool /\ x.reserved = 0
             /\ x.args = Call[c].args /\ Call[c].args \in Args /\ x.depth = Call[c].depth
             /\ CostOf(c) \in Nat /\ \A y : y.tool = Call[c].tool => Cost(y) = CostOf(c)
             /\ <<c, "first">> \in ApprovalIds /\ <<c, "replay">> \in ApprovalIds
             /\ <<c, "approved">> \in ApprovalIds
             /\ Via[c] \in Frameworks
  <1>1. Call[c] \in CallType /\ Via[c] \in Frameworks
    BY AdapterAssumption
  <1>2. CostOf(c) \in Nat
    BY <1>1, StateAssumption DEF CostOf, ManifestType, CallType
  <1> QED BY <1>1, <1>2, AdapterAssumption DEF NewContext, ContextType, CallType, Cost, CostOf

\* The other calls hold what they held, except for what the dictionary evicts.
LEMMA OthersCarry ==
  ASSUME NEW c \in Calls, OthersStay(c),
         \A a \in HookAdapters : \A e \in Values(inflight'[a]) :
            e.call # c => e \in Values(inflight[a])
  PROVE  /\ Carriers' \subseteq Carriers \cup {c}
         /\ Lost' \ {c} = Lost \ {c} /\ Done' \ {c} = Done \ {c}
         /\ (\A a \in HookAdapters : \A e \in Values(inflight[a]) :
                e.call # c => e \in Values(inflight'[a]))
             => Carriers' \ {c} = Carriers \ {c}
  <1>1. ASSUME NEW d \in Calls, d # c
        PROVE  /\ local'[d] = local[d] /\ sdk'[d] = sdk[d]
               /\ LostByWrapper(d)' <=> LostByWrapper(d)
               /\ d \in Carriers' => d \in Carriers
    <2>1. local'[d] = local[d] /\ sdk'[d] = sdk[d]
      BY <1>1 DEF OthersStay
    <2> QED BY <1>1, <2>1 DEF LostByWrapper, Carriers
  <1>2. ASSUME \A a \in HookAdapters : \A e \in Values(inflight[a]) :
                  e.call # c => e \in Values(inflight'[a]),
               NEW d \in Carriers, d # c
        PROVE  d \in Carriers'
    BY <1>1, <1>2 DEF Carriers
  <1>3. Carriers \subseteq Calls /\ Carriers' \subseteq Calls
    BY DEF Carriers
  <1>4. Lost' \ {c} = Lost \ {c}
    BY <1>1 DEF Lost
  <1>5. Done' \ {c} = Done \ {c}
    BY <1>1 DEF Done
  <1> HIDE DEF Carriers, Lost, Done
  <1> QED BY <1>1, <1>2, <1>3, <1>4, <1>5

\* Sets that agree on c and on the rest.
LEMMA SameSet ==
  ASSUME NEW A, NEW B, NEW c, A \ {c} = B \ {c}
  PROVE  /\ (c \in A <=> c \in B) => A = B
         /\ c \in A /\ c \notin B => A = B \cup {c} /\ B = A \ {c}
  <1>1. \A e : e # c => (e \in A <=> e \in B)
    OBVIOUS
  <1> QED BY <1>1

\* A call holds money if its wrapper keeps a context, or its entry goes ahead.
LEMMA CarrierFacts ==
  ASSUME KeptInv, NEW c \in Calls
  PROVE  /\ c \in Carriers <=> \/ local[c] # NoContext
                              \/ \E a \in HookAdapters : \E e \in Entries(a, c) : ~Blocked(e.decision)
         /\ Via[c] \notin HookAdapters => \A a \in HookAdapters : Entries(a, c) = {}
         /\ \A a \in HookAdapters : \A e \in Values(inflight[a]) :
               /\ e \in EntryType /\ (e.call = c => e \in Entries(a, c))
               /\ e.call = c => EntryInv(a, e)
  <1>1. \A a \in HookAdapters : /\ Entries(a, c) = {e \in Values(inflight[a]) : e.call = c}
                               /\ \A e \in Values(inflight[a]) : e \in EntryType /\ EntryInv(a, e)
    BY DictionaryFacts
  <1>2. Via[c] \notin HookAdapters => \A a \in HookAdapters : Entries(a, c) = {}
    BY <1>1 DEF EntryInv
  <1>3. c \in Carriers <=> \/ local[c] # NoContext
                         \/ \E a \in HookAdapters : \E e \in Entries(a, c) : ~Blocked(e.decision)
    BY <1>1 DEF Carriers
  <1> QED BY <1>1, <1>2, <1>3

\* A step of call c that moves no money, and leaves the contexts where they are.
LEMMA QuietStep ==
  ASSUME KeptInv, NEW c \in Calls, Bounded(session'), CallTypes', OthersStay(c), CallInv(c)',
         session'.reserved = session.reserved, session'.used = session.used,
         local' = local, inflight' = inflight,
         sdk[c] \notin Ended, sdk'[c] \notin Ended,
         \A a \in HookAdapters : \A e \in Entries(a, c) : EntryInv(a, e)'
  PROVE  StepOK(c)
  <1>1. \A a \in HookAdapters : /\ Dictionary(inflight[a]) /\ inflight \in [HookAdapters -> Seq(EntryType)]
                               /\ \A e \in Values(inflight[a]) : e.call = c => e \in Entries(a, c)
    BY DictionaryFacts, CarrierFacts
  <1>2. inflight' \in [HookAdapters -> Seq(EntryType)]
    BY DEF KeptInv, TypeOK
  <1>3. KeptInv'
    BY <1>1, <1>2, KeptStep
  <1>4. Carriers' = Carriers
    BY DEF Carriers
  <1>5. Lost' \ {c} = Lost \ {c} /\ Done' \ {c} = Done \ {c}
    BY OthersCarry
  <1>6. c \notin Lost /\ c \notin Lost' /\ c \notin Done /\ c \notin Done'
    BY DEF Lost, Done, LostByWrapper
  <1>7. Lost' = Lost /\ Done' = Done
    BY <1>5, <1>6, SameSet
  <1>8. Keeps
    BY <1>4, <1>7 DEF Keeps
  <1> QED BY <1>3, <1>8 DEF StepOK

\* A dictionary with room for every call is not full when a new one comes.
LEMMA RoomLeft ==
  ASSUME KeptInv, Roomy, NEW c \in OpenAICalls, sdk[c] = "new"
  PROVE  Len(inflight["openai"]) # MaxInflight
  <1> DEFINE q == inflight["openai"]
             n == Len(q)
             f == [i \in 1..n |-> q[i].call]
             T == OpenAICalls \ {c}
  <1>1. /\ q \in Seq(EntryType) /\ Dictionary(q)
        /\ \A e \in Values(q) : e \in EntryType /\ EntryInv("openai", e)
    BY DictionaryFacts DEF HookAdapters
  <1>2. n \in Nat /\ DOMAIN q = 1..n
    BY <1>1, LenProperties
  <1>3. \A i \in 1..n : q[i].call \in T
    BY <1>1, <1>2 DEF Values, EntryInv, EntryType, Remembered, OpenAICalls
  <1>4. f \in Injection(1..n, T)
    <2>1. \A i, j \in 1..n : q[i].call = q[j].call => i = j
      BY <1>1, <1>2 DEF Dictionary, Unique
    <2> HIDE DEF q, n, T
    <2> QED BY <1>3, <2>1 DEF Injection, IsInjective
  <1>5. IsFiniteSet(T) /\ Cardinality(T) = Cardinality(OpenAICalls) - 1
    BY FS_RemoveElement DEF Roomy
  <1>6. IsFiniteSet(1..n) /\ Cardinality(1..n) = n
    BY <1>2, FS_Interval
  <1>7. Cardinality(1..n) <= Cardinality(T)
    <2> HIDE DEF f, n, T
    <2> QED BY <1>4, <1>5, FS_Injection
  <1>8. Cardinality(OpenAICalls) \in Nat /\ MaxInflight \in Nat
    BY FS_CardinalityType, AdapterAssumption DEF Roomy
  <1> HIDE DEF n, T
  <1> QED BY <1>2, <1>5, <1>6, <1>7, <1>8 DEF Roomy, n

\* The decision of a new call is remembered.
LEMMA RememberStep ==
  ASSUME KeptInv, NEW c \in Calls, NEW a \in HookAdapters, Via[c] = a, sdk[c] = "new",
         NEW o, Outcome(session, NewContext(Call[c]), o), session' = o.session, Remember(a, c, o),
         CallTypes', OthersStay(c), CallInv(c)', local' = local, sdk'[c] \in Remembered[a],
         a = "openai" /\ o.decision = "require_approval" => shown'[c] # {}
  PROVE  StepOK(c)
  <1> DEFINE x == NewContext(Call[c])
             e == Entry(c, o)
  <1>1. /\ Bounded(session') /\ o.ctx \in ContextType /\ o.decision \in Decisions
        /\ o.ctx.tool = Call[c].tool /\ session'.used = session.used
        /\ Blocked(o.decision) => session'.reserved = session.reserved /\ o.ctx.reserved = 0
        /\ ~Blocked(o.decision) =>
              /\ session'.reserved = session.reserved + CostOf(c) /\ o.ctx.reserved = CostOf(c)
              /\ Listed("budget") => BudgetVerdict(session, x) = "allow"
    BY CallFacts DEF Outcome
  <1>2. /\ inflight' \in [HookAdapters -> Seq(EntryType)] /\ Dictionary(inflight'[a])
        /\ \A b \in HookAdapters \ {a} : inflight'[b] = inflight[b]
        /\ e \in Values(inflight'[a])
        /\ Values(inflight'[a]) \subseteq Values(inflight[a]) \cup {e}
        /\ Len(inflight[a]) # MaxInflight => Values(inflight'[a]) = Values(inflight[a]) \cup {e}
    BY <1>1, RememberKeeps
  <1>3. e.call = c /\ e.ctx = o.ctx /\ e.decision = o.decision
    BY DEF Entry
  <1> HIDE DEF e
  <1>4. \A b \in HookAdapters : Dictionary(inflight'[b])
    BY <1>2, DictionaryFacts
  <1>5. EntryInv(a, e)'
    BY <1>1, <1>3 DEF EntryInv, CostOf
  <1>6. \A b \in HookAdapters : \A v \in Values(inflight[b]) : v.call # c
    BY DictionaryFacts DEF EntryInv, Remembered, HookAdapters
  <1>7. \A b \in HookAdapters : \A v \in Values(inflight'[b]) :
           (v \in Values(inflight[b]) /\ v.call # c) \/ (b = a /\ v = e)
    BY <1>2, <1>6
  <1>8. KeptInv'
    BY <1>1, <1>2, <1>4, <1>5, <1>7, KeptStep
  <1>9. Carriers' \subseteq Carriers \cup {c} /\ Lost' \ {c} = Lost \ {c} /\ Done' \ {c} = Done \ {c}
    BY <1>3, <1>7, OthersCarry
  <1>10. Lost' = Lost /\ Done' = Done
    <2>1. sdk'[c] \notin Ended
      BY DEF Remembered, HookAdapters
    <2>2. c \notin Lost /\ c \notin Lost' /\ c \notin Done /\ c \notin Done'
      BY <2>1 DEF Lost, Done, LostByWrapper
    <2> QED BY <1>9, <2>2, SameSet
  <1>11. c \notin Carriers /\ c \notin Lost
    <2>1. local[c] = NoContext
      BY DEF KeptInv, CallInv
    <2> QED BY <1>6, <2>1 DEF Carriers, Lost, LostByWrapper
  <1>12. c \in Carriers' <=> ~Blocked(o.decision)
    <2>1. local'[c] = NoContext
      BY DEF KeptInv, CallInv
    <2> QED BY <1>2, <1>3, <1>7, <2>1 DEF Carriers
  <1>13. ASSUME Roomy PROVE Carriers' \ {c} = Carriers
    <2>1. a = "openai" /\ c \in OpenAICalls
      BY <1>13 DEF Roomy, HookAdapters, OpenAICalls
    <2>2. Values(inflight'[a]) = Values(inflight[a]) \cup {e}
      BY <1>2, <1>13, <2>1, RoomLeft
    <2>3. \A b \in HookAdapters : \A v \in Values(inflight[b]) : v \in Values(inflight'[b])
      BY <1>2, <2>2
    <2>4. Carriers' \ {c} = Carriers \ {c}
      BY <1>3, <1>7, <2>3, OthersCarry
    <2> QED BY <1>11, <2>4
  <1> HIDE DEF Carriers, Lost, Done, Roomy
  <1>14. CASE Blocked(o.decision)
    <2>1. Keeps
      BY <1>1, <1>9, <1>10, <1>12, <1>13, <1>14 DEF Keeps
    <2> QED BY <1>8, <2>1 DEF StepOK
  <1>15. CASE ~Blocked(o.decision)
    <2>1. Roomy => Carriers' = Carriers \cup {c}
      BY <1>12, <1>13, <1>15
    <2>2. Reserves(c)
      BY <1>1, <1>9, <1>10, <1>11, <1>15, <2>1 DEF Reserves
    <2> QED BY <1>8, <2>2 DEF StepOK
  <1> QED BY <1>14, <1>15

\* The dictionaries list the other calls as before, and call c no more.
NoLongerListed(c) ==
    /\ inflight' \in [HookAdapters -> Seq(EntryType)]
    /\ \A a \in HookAdapters : /\ Dictionary(inflight'[a])
                              /\ Values(inflight'[a]) = {e \in Values(inflight[a]) : e.call # c}

LEMMA NotListed ==
  ASSUME KeptInv, NEW c \in Calls, \A a \in HookAdapters : Entries(a, c) = {}, inflight' = inflight
  PROVE  NoLongerListed(c)
  <1>1. \A a \in HookAdapters :
           /\ inflight \in [HookAdapters -> Seq(EntryType)] /\ Dictionary(inflight[a])
           /\ Entries(a, c) = {e \in Values(inflight[a]) : e.call = c}
    BY DictionaryFacts
  <1>2. inflight \in [HookAdapters -> Seq(EntryType)]
    BY DEF KeptInv, TypeOK
  <1>3. \A a \in HookAdapters : Values(inflight[a]) = {e \in Values(inflight[a]) : e.call # c}
    BY <1>1
  <1> QED BY <1>1, <1>2, <1>3 DEF NoLongerListed

LEMMA PoppedFrom ==
  ASSUME KeptInv, NEW c \in Calls, NEW a \in HookAdapters, Via[c] = a, Forget(a, c)
  PROVE  NoLongerListed(c)
  <1>1. /\ inflight' \in [HookAdapters -> Seq(EntryType)] /\ Dictionary(inflight'[a])
        /\ \A b \in HookAdapters \ {a} : inflight'[b] = inflight[b]
        /\ Values(inflight'[a]) = {e \in Values(inflight[a]) : e.call # c}
    BY ForgetKeeps
  <1>2. ASSUME NEW b \in HookAdapters \ {a}
        PROVE  /\ Dictionary(inflight'[b])
               /\ Values(inflight'[b]) = {e \in Values(inflight[b]) : e.call # c}
    <2>1. Dictionary(inflight[b]) /\ \A e \in Values(inflight[b]) : e.call # c
      BY DictionaryFacts DEF EntryInv
    <2> QED BY <1>1, <2>1
  <1> QED BY <1>1, <1>2 DEF NoLongerListed

\* What a wrapper does with the outcome of before, for a call that holds nothing.
LEMMA WrapStep ==
  ASSUME KeptInv, NEW c \in Calls, Via[c] # "claude", sdk[c] \notin {"running"} \cup Ended,
         \A a \in HookAdapters : \A e \in Entries(a, c) : Blocked(e.decision),
         NEW s, s.reserved = session.reserved, s.used = session.used,
         NEW x, x.tool = Call[c].tool, NEW o, Outcome(s, x, o),
         NEW given \in Args, Wrap(c, o, given), NoLongerListed(c), answer' = answer,
         shown' \in [Calls -> SUBSET Keys], \A d \in Calls \ {c} : shown'[d] = shown[d]
  PROVE  StepOK(c)
  <1>0. CallTypes /\ CallInv(c) /\ local[c] = NoContext
    BY DEF KeptInv, CallInv, TypeOK, CallTypes
  <1>1. /\ Bounded(session') /\ o.ctx \in ContextType /\ o.decision \in Decisions
        /\ o.ctx.tool = Call[c].tool /\ session'.used = session.used
        /\ Blocked(o.decision) => session'.reserved = session.reserved
        /\ ~Blocked(o.decision) =>
              /\ session'.reserved = session.reserved + CostOf(c) /\ o.ctx.reserved = CostOf(c)
              /\ Listed("budget") => BudgetVerdict(session, NewContext(Call[c])) = "allow"
    <2>1. Cost(x) = CostOf(c) /\ Cost(NewContext(Call[c])) = CostOf(c)
      BY CallFacts
    <2>2. BudgetVerdict(s, x) = BudgetVerdict(session, NewContext(Call[c]))
      BY <2>1 DEF BudgetVerdict
    <2> QED BY <2>1, <2>2 DEF Outcome, Wrap
  <1>2. OthersStay(c) /\ CallTypes' /\ sdk'[c] \notin Ended
        /\ (Blocked(o.decision) => sdk'[c] = "blocked" /\ local'[c] = NoContext)
        /\ (~Blocked(o.decision) => sdk'[c] = "running" /\ local'[c] = o.ctx)
    <2>1. Payload(o, given) \in Args
      BY <1>1 DEF Payload, ContextType
    <2>2. CASE Blocked(o.decision)
      <3>1. sdk' = [sdk EXCEPT ![c] = "blocked"] /\ local' = local /\ ran' = ran
        BY <2>2 DEF Wrap, Becomes
      <3> QED BY <1>0, <2>2, <3>1 DEF OthersStay, CallTypes, Progress
    <2>3. CASE ~Blocked(o.decision)
      <3>1. /\ sdk' = [sdk EXCEPT ![c] = "running"] /\ local' = [local EXCEPT ![c] = o.ctx]
            /\ ran' = [ran EXCEPT ![c] = Payload(o, given)]
        BY <2>3 DEF Wrap, Becomes
      <3> QED BY <1>0, <1>1, <2>1, <2>3, <3>1 DEF OthersStay, CallTypes, Progress
    <2> QED BY <2>2, <2>3
  <1>3. CallInv(c)'
    <2>1. CASE Blocked(o.decision)
      BY <1>2, <2>1 DEF CallInv
    <2>2. CASE ~Blocked(o.decision)
      BY <1>1, <1>2, <2>2, AdapterAssumption DEF CallInv, CostOf
    <2> QED BY <2>1, <2>2
  <1>4. KeptInv'
    <2>1. \A a \in HookAdapters : Dictionary(inflight'[a])
      BY DEF NoLongerListed
    <2>2. inflight' \in [HookAdapters -> Seq(EntryType)]
      BY DEF NoLongerListed
    <2>3. \A a \in HookAdapters : \A e \in Values(inflight'[a]) : e \in Values(inflight[a]) /\ e.call # c
      BY DEF NoLongerListed
    <2> QED BY <1>1, <1>2, <1>3, <2>1, <2>2, <2>3, KeptStep
  <1>5. /\ Carriers' \ {c} = Carriers \ {c} /\ Lost' \ {c} = Lost \ {c} /\ Done' \ {c} = Done \ {c}
    BY <1>2, OthersCarry DEF NoLongerListed
  <1>6. Lost' = Lost /\ Done' = Done /\ c \notin Lost
    <2>1. c \notin Lost /\ c \notin Lost' /\ c \notin Done /\ c \notin Done'
      BY <1>2 DEF Lost, Done, LostByWrapper
    <2> QED BY <1>5, <2>1, SameSet
  <1>7. c \notin Carriers
    BY <1>0, CarrierFacts
  <1>8. c \in Carriers' <=> ~Blocked(o.decision)
    <2>1. \A a \in HookAdapters : \A e \in Values(inflight'[a]) : e.call # c
      BY DEF NoLongerListed
    <2> QED BY <1>1, <1>2, <2>1, AdapterAssumption DEF Carriers
  <1> HIDE DEF Carriers, Lost, Done, Roomy
  <1>9. CASE Blocked(o.decision)
    <2>1. Carriers' = Carriers
      BY <1>5, <1>7, <1>8, <1>9, SameSet
    <2>2. Keeps
      BY <1>1, <1>6, <1>9, <2>1 DEF Keeps
    <2> QED BY <1>4, <2>2 DEF StepOK
  <1>10. CASE ~Blocked(o.decision)
    <2>1. Carriers' = Carriers \cup {c}
      BY <1>5, <1>7, <1>8, <1>10, SameSet
    <2>2. Reserves(c)
      BY <1>1, <1>6, <1>7, <1>10, <2>1 DEF Reserves
    <2> QED BY <1>4, <2>2 DEF StepOK
  <1> QED BY <1>9, <1>10

\* The tool of a wrapper is over, and its context gone.
LEMMA WrapperOver ==
  ASSUME KeptInv, NEW c \in Calls, Via[c] # "claude", sdk[c] = "running", Bounded(session'),
         NEW p \in Ended, Becomes(c, p), local' = [local EXCEPT ![c] = NoContext],
         UNCHANGED <<inflight, answer, shown, ran>>
  PROVE  /\ KeptInv' /\ c \in Carriers /\ Carriers' = Carriers \ {c}
         /\ c \notin Lost /\ c \notin Done
         /\ Lost' = IF p = "uncharged" \/ (p = "failed" /\ Via[c] = "openai")
                      THEN Lost \cup {c} ELSE Lost
         /\ Done' = IF p = "done" THEN Done \cup {c} ELSE Done
  <1>1. /\ CallTypes /\ local[c] # NoContext
        /\ local' = [local EXCEPT ![c] = NoContext] /\ sdk' = [sdk EXCEPT ![c] = p]
    BY DEF KeptInv, CallInv, TypeOK, CallTypes, Becomes
  <1>2. OthersStay(c) /\ CallTypes' /\ sdk'[c] = p /\ local'[c] = NoContext
    BY <1>1 DEF OthersStay, CallTypes, Progress
  <1>3. CallInv(c)'
    BY <1>2 DEF CallInv
  <1>4. \A a \in HookAdapters : \A e \in Values(inflight[a]) : e.call # c
    BY DictionaryFacts DEF EntryInv, Remembered, HookAdapters
  <1>5. KeptInv'
    <2>1. \A a \in HookAdapters : Dictionary(inflight[a])
      BY DictionaryFacts
    <2>2. inflight \in [HookAdapters -> Seq(EntryType)]
      BY DEF KeptInv, TypeOK
    <2> QED BY <1>2, <1>3, <1>4, <2>1, <2>2, KeptStep
  <1>6. /\ Carriers' \ {c} = Carriers \ {c} /\ Lost' \ {c} = Lost \ {c} /\ Done' \ {c} = Done \ {c}
    BY <1>2, OthersCarry
  <1>7. c \in Carriers /\ c \notin Carriers'
    BY <1>1, <1>2, <1>4 DEF Carriers
  <1>8. /\ c \notin Lost /\ c \notin Done /\ (c \in Done' <=> p = "done")
        /\ c \in Lost' <=> p = "uncharged" \/ (p = "failed" /\ Via[c] = "openai")
    BY <1>2 DEF Lost, Done, LostByWrapper
  <1> HIDE DEF Carriers, Lost, Done
  <1> QED BY <1>5, <1>6, <1>7, <1>8, SameSet

\* It is settled, or released.
LEMMA WrapperEnds ==
  ASSUME KeptInv, NEW c \in Calls, Via[c] # "claude", sdk[c] = "running", Bounded(session'),
         session'.reserved = IF session.reserved > local[c].reserved
                               THEN session.reserved - local[c].reserved ELSE 0,
         NEW p \in {"done", "failed"}, Becomes(c, p), p = "failed" => Via[c] # "openai",
         session'.used = IF p = "done" THEN session.used + Cost(local[c]) ELSE session.used,
         local' = [local EXCEPT ![c] = NoContext], UNCHANGED <<inflight, answer, shown, ran>>
  PROVE  StepOK(c)
  <1>1. local[c].reserved = CostOf(c) /\ Cost(local[c]) = CostOf(c)
    <2>1. local[c].tool = Call[c].tool /\ local[c].reserved = CostOf(c)
      BY DEF KeptInv, CallInv
    <2> QED BY <2>1, CallFacts
  <1>2. /\ KeptInv' /\ c \in Carriers /\ Carriers' = Carriers \ {c}
        /\ c \notin Lost /\ c \notin Done /\ Lost' = Lost
        /\ Done' = IF p = "done" THEN Done \cup {c} ELSE Done
    BY WrapperOver
  <1> HIDE DEF Carriers, Lost, Done
  <1> QED BY <1>1, <1>2 DEF StepOK, Ends

\* Its context is dropped with the reservation in it.
LEMMA WrapperLoses ==
  ASSUME KeptInv, NEW c \in Calls, Via[c] # "claude", sdk[c] = "running", Bounded(session'),
         session'.reserved = session.reserved, session'.used = session.used,
         NEW p \in {"uncharged", "failed"}, Becomes(c, p), p = "failed" => Via[c] = "openai",
         local' = [local EXCEPT ![c] = NoContext], UNCHANGED <<inflight, answer, shown, ran>>
  PROVE  StepOK(c)
  <1>1. /\ KeptInv' /\ c \in Carriers /\ Carriers' = Carriers \ {c}
        /\ Lost' = Lost \cup {c} /\ Done' = Done
    BY WrapperOver
  <1> HIDE DEF Carriers, Lost, Done
  <1> QED BY <1>1 DEF StepOK, Keeps

-----------------------------------------------------------------------------
(* The steps of the frameworks. *)

\* A new call holds nothing, and no dictionary lists it.
LEMMA NewCall ==
  ASSUME KeptInv, NEW c \in Calls, sdk[c] = "new"
  PROVE  /\ \A a \in HookAdapters : Entries(a, c) = {}
         /\ local[c] = NoContext /\ c \notin Carriers /\ c \notin Lost /\ c \notin Done
         /\ \A o \in BeforeOutcomes(session, NewContext(Call[c]), <<c, "first">>) :
               Outcome(session, NewContext(Call[c]), o)
  <1>1. \A a \in HookAdapters : Entries(a, c) = {}
    BY DictionaryFacts DEF EntryInv, Remembered, HookAdapters
  <1>2. local[c] = NoContext
    BY DEF KeptInv, CallInv
  <1>3. c \notin Carriers /\ c \notin Lost /\ c \notin Done
    BY <1>1, <1>2, CarrierFacts DEF Lost, Done, LostByWrapper
  <1>4. Bounded(session)
    BY DEF KeptInv
  <1> QED BY <1>1, <1>2, <1>3, <1>4, CallFacts, BeforeFacts

LEMMA PreToolUseStep ==
  ASSUME KeptInv, NEW c \in Calls, PreToolUse(c)
  PROVE  StepOK(c)
  <1>1. CallTypes /\ Claude(c) /\ sdk[c] = "new" /\ local' = local /\ answer' = answer
    BY DEF KeptInv, TypeOK, CallTypes, PreToolUse
  <1>2. PICK o \in BeforeOutcomes(session, NewContext(Call[c]), <<c, "first">>) :
          /\ \/ inflight' = inflight
             \/ o.decision # "deny" /\ Remember("claude", c, o)
          /\ IF o.decision = "require_approval"
               THEN Ask(c, o) /\ UNCHANGED ran
               ELSE /\ session' = o.session
                    /\ Becomes(c, IF o.decision = "deny" THEN "blocked" ELSE "running")
                    /\ ran' = IF o.decision = "deny" THEN ran
                              ELSE [ran EXCEPT ![c] = Payload(o, Call[c].args)]
                    /\ UNCHANGED shown
    BY DEF PreToolUse
  <1>3. Outcome(session, NewContext(Call[c]), o) /\ \A a \in HookAdapters : Entries(a, c) = {}
    BY <1>1, NewCall
  <1>4. /\ o.ctx \in ContextType /\ o.decision \in Decisions /\ ApprovalKey(o.ctx) \in Keys
        /\ Payload(o, Call[c].args) \in Args /\ NoArgs \notin Args /\ session' = o.session
        /\ Bounded(session') /\ session'.used = session.used
    BY <1>2, <1>3, CostType, CallFacts, AdapterAssumption DEF Outcome, Payload, ContextType, Ask
  <1>5. /\ CallTypes' /\ OthersStay(c)
        /\ sdk'[c] = IF o.decision = "require_approval" THEN "asked"
                     ELSE IF o.decision = "deny" THEN "blocked" ELSE "running"
        /\ sdk'[c] = "running" => ran'[c] # NoArgs
    <2>1. CASE o.decision = "require_approval"
      BY <1>1, <1>2, <1>4, <2>1 DEF Ask, Becomes, CallTypes, OthersStay, Progress
    <2>2. CASE o.decision = "deny"
      BY <1>1, <1>2, <1>4, <2>2 DEF Becomes, CallTypes, OthersStay, Progress
    <2>3. CASE o.decision \notin {"require_approval", "deny"}
      BY <1>1, <1>2, <1>4, <2>3 DEF Becomes, CallTypes, OthersStay, Progress
    <2> QED BY <2>1, <2>2, <2>3
  <1>6. CallInv(c)'
    <2>1. local'[c] = NoContext /\ Via[c] = "claude"
      BY <1>1, NewCall DEF Claude
    <2> QED BY <1>5, <2>1 DEF CallInv
  <1>7. CASE o.decision # "deny" /\ Remember("claude", c, o)
    BY <1>1, <1>3, <1>4, <1>5, <1>6, <1>7, RememberStep DEF Claude, HookAdapters, Remembered
  <1>8. CASE inflight' = inflight /\ Blocked(o.decision)
    BY <1>1, <1>3, <1>4, <1>5, <1>6, <1>8, QuietStep DEF Outcome, Blocked
  <1>9. CASE inflight' = inflight /\ ~Blocked(o.decision)
    <2>1. NoLongerListed(c)
      BY <1>3, <1>9, NotListed
    <2>2. KeptInv'
      <3>1. \A a \in HookAdapters : /\ Dictionary(inflight'[a])
               /\ \A e \in Values(inflight'[a]) : e \in Values(inflight[a]) /\ e.call # c
        BY <2>1 DEF NoLongerListed
      <3>2. inflight' \in [HookAdapters -> Seq(EntryType)]
        BY <2>1 DEF NoLongerListed
      <3> QED BY <1>4, <1>5, <1>6, <3>1, <3>2, KeptStep
    <2>3. Carriers' = Carriers
      BY <1>1, <1>9 DEF Carriers
    <2>4. Lost' = Lost /\ Done' = Done /\ c \notin Carriers \cup Lost
      <3>1. Lost' \ {c} = Lost \ {c} /\ Done' \ {c} = Done \ {c}
        BY <1>5, <2>1, OthersCarry DEF NoLongerListed
      <3>2. c \notin Lost' /\ c \notin Done'
        BY <1>5 DEF Lost, Done, LostByWrapper
      <3> QED BY <1>1, <3>1, <3>2, NewCall, SameSet
    <2>5. ~Roomy
      BY <1>1 DEF Roomy, Claude
    <2>6. /\ session'.reserved = session.reserved + CostOf(c)
          /\ Listed("budget") => BudgetVerdict(session, NewContext(Call[c])) = "allow"
      BY <1>3, <1>4, <1>9, CallFacts DEF Outcome
    <2>7. Reserves(c)
      BY <1>4, <2>3, <2>4, <2>5, <2>6 DEF Reserves
    <2> QED BY <2>2, <2>7 DEF StepOK
  <1> QED BY <1>2, <1>7, <1>8, <1>9

LEMMA CanUseToolStep ==
  ASSUME KeptInv, NEW c \in Calls, CanUseTool(c)
  PROVE  StepOK(c)
  <1>1. /\ CallTypes /\ CallInv(c) /\ Bounded(session) /\ Via[c] = "claude" /\ sdk[c] = "asked"
        /\ UNCHANGED <<session, inflight, local, shown>>
    BY DEF KeptInv, TypeOK, CallTypes, CanUseTool, Claude
  <1>2. CallTypes' /\ OthersStay(c) /\ sdk'[c] \in {"running", "rejected"}
        /\ (sdk'[c] = "running" => ran'[c] # NoArgs)
    <2>1. Call[c].args \in Args /\ NoArgs \notin Args
      BY CallFacts, AdapterAssumption
    <2>2. CASE Becomes(c, "running") /\ answer' = [answer EXCEPT ![c] = "yes"]
               /\ ran' = [ran EXCEPT ![c] = Call[c].args]
      BY <1>1, <2>1, <2>2 DEF Becomes, CallTypes, OthersStay, Progress
    <2>3. CASE Becomes(c, "rejected") /\ answer' = [answer EXCEPT ![c] = "no"] /\ ran' = ran
      BY <1>1, <2>3 DEF Becomes, CallTypes, OthersStay, Progress
    <2> QED BY <2>2, <2>3 DEF CanUseTool
  <1>3. CallInv(c)'
    BY <1>1, <1>2 DEF CallInv
  <1>4. \A a \in HookAdapters : \A e \in Entries(a, c) : EntryInv(a, e)'
    <2>1. \A a \in HookAdapters : \A e \in Entries(a, c) : e.call = c /\ EntryInv(a, e)
      BY DictionaryFacts
    <2> QED BY <1>1, <1>2, <2>1 DEF EntryInv, Remembered, HookAdapters, CostOf
  <1> QED BY <1>1, <1>2, <1>3, <1>4, QuietStep

LEMMA AbortRunStep ==
  ASSUME KeptInv, NEW c \in Calls, AbortRun(c)
  PROVE  StepOK(c)
  <1>1. /\ CallTypes /\ CallInv(c) /\ Bounded(session) /\ Via[c] = "claude"
        /\ sdk[c] \in {"asked", "running"} /\ sdk' = [sdk EXCEPT ![c] = "lost"]
        /\ UNCHANGED <<session, inflight, local, answer, shown, ran>>
    BY DEF KeptInv, TypeOK, CallTypes, AbortRun, Claude, Becomes
  <1>2. CallTypes' /\ OthersStay(c) /\ sdk'[c] = "lost"
    BY <1>1 DEF CallTypes, OthersStay, Progress
  <1>3. CallInv(c)'
    BY <1>1, <1>2 DEF CallInv
  <1>4. \A a \in HookAdapters : \A e \in Entries(a, c) : EntryInv(a, e)'
    <2>1. \A a \in HookAdapters : \A e \in Entries(a, c) : e.call = c /\ EntryInv(a, e)
      BY DictionaryFacts
    <2> QED BY <1>1, <1>2, <2>1 DEF EntryInv, Remembered, HookAdapters, CostOf
  <1> QED BY <1>1, <1>2, <1>3, <1>4, QuietStep

\* A dictionary has one entry of a call, which holds the money of the call.
LEMMA OneEntry ==
  ASSUME KeptInv, NEW c \in Calls, NEW a \in HookAdapters, Via[c] = a, local[c] = NoContext
  PROVE  /\ Entries(a, c) = {} => c \notin Carriers
         /\ \A e \in Entries(a, c) :
               /\ Entries(a, c) = {e} /\ (c \in Carriers <=> ~Blocked(e.decision))
               /\ e \in EntryType /\ e.call = c /\ EntryInv(a, e)
  <1>1. /\ Dictionary(inflight[a]) /\ Entries(a, c) = {e \in Values(inflight[a]) : e.call = c}
        /\ \A e \in Values(inflight[a]) : e \in EntryType /\ EntryInv(a, e)
    BY DictionaryFacts
  <1>2. \A b \in HookAdapters : b # a => Entries(b, c) = {}
    BY DictionaryFacts DEF EntryInv
  <1>3. c \in Carriers <=> \E e \in Entries(a, c) : ~Blocked(e.decision)
    BY <1>2, CarrierFacts
  <1>4. ASSUME NEW e \in Entries(a, c), NEW f \in Entries(a, c) PROVE e = f
    BY <1>1 DEF Dictionary, Unique, Values
  <1>5. ASSUME NEW e \in Entries(a, c) PROVE Entries(a, c) = {e}
    BY <1>4
  <1> HIDE DEF Carriers
  <1> QED BY <1>1, <1>3, <1>4, <1>5

\* A Post hook pops the entry of its call.
LEMMA PostOver ==
  ASSUME KeptInv, NEW c \in Calls, Via[c] = "claude", sdk[c] = "running", Bounded(session'),
         NEW p \in Ended, Becomes(c, p), Forget("claude", c), UNCHANGED <<local, answer, shown, ran>>
  PROVE  /\ KeptInv' /\ Carriers' = Carriers \ {c} /\ c \notin Lost /\ Lost' = Lost
         /\ c \notin Done /\ Done' = IF p = "done" THEN Done \cup {c} ELSE Done
  <1>1. CallTypes /\ local[c] = NoContext
    BY DEF KeptInv, CallInv, TypeOK, CallTypes
  <1>2. OthersStay(c) /\ CallTypes' /\ sdk'[c] = p /\ local'[c] = NoContext
    BY <1>1 DEF OthersStay, CallTypes, Becomes, Progress
  <1>3. CallInv(c)'
    BY <1>2 DEF CallInv
  <1>4. /\ inflight' \in [HookAdapters -> Seq(EntryType)]
        /\ \A a \in HookAdapters : /\ Dictionary(inflight'[a])
               /\ Values(inflight'[a]) = {e \in Values(inflight[a]) : e.call # c}
    BY PoppedFrom DEF NoLongerListed, HookAdapters
  <1>5. KeptInv'
    BY <1>2, <1>3, <1>4, KeptStep
  <1>6. /\ Carriers' \ {c} = Carriers \ {c} /\ Lost' \ {c} = Lost \ {c} /\ Done' \ {c} = Done \ {c}
    BY <1>2, <1>4, OthersCarry
  <1>7. c \notin Carriers'
    BY <1>2, <1>4 DEF Carriers
  <1>8. /\ c \notin Lost /\ c \notin Lost' /\ c \notin Done /\ (c \in Done' <=> p = "done")
    BY <1>2 DEF Lost, Done, LostByWrapper
  <1> HIDE DEF Carriers, Lost, Done
  <1>9. Carriers' = Carriers \ {c} /\ Lost' = Lost
    BY <1>6, <1>7, <1>8, SameSet
  <1>10. Done' = IF p = "done" THEN Done \cup {c} ELSE Done
    BY <1>6, <1>8, SameSet
  <1> QED BY <1>5, <1>8, <1>9, <1>10

LEMMA PostEnds ==
  ASSUME KeptInv, NEW c \in Calls, Via[c] = "claude", sdk[c] = "running", Bounded(session'),
         NEW n, n = IF c \in Carriers THEN CostOf(c) ELSE 0,
         session'.reserved = IF session.reserved > n THEN session.reserved - n ELSE 0,
         NEW p \in {"done", "failed"}, Becomes(c, p),
         session'.used = IF p = "done" THEN session.used + CostOf(c) ELSE session.used,
         Forget("claude", c), UNCHANGED <<local, answer, shown, ran>>
  PROVE  StepOK(c)
  <1>1. /\ KeptInv' /\ Carriers' = Carriers \ {c} /\ c \notin Lost /\ Lost' = Lost
        /\ c \notin Done /\ Done' = IF p = "done" THEN Done \cup {c} ELSE Done
    BY PostOver
  <1> HIDE DEF Carriers, Lost, Done
  <1> QED BY <1>1 DEF StepOK, Ends

\* What the Post hook runs after on: the money the entry held is in the context, and
\* what a host's yes reserves is in it, too.
LEMMA PostContextFacts ==
  ASSUME KeptInv, NEW c \in Calls, Via[c] = "claude", sdk[c] = "running"
  PROVE  LET s == PostContext(c)[1]
             x == PostContext(c)[2]
             n == IF c \in Carriers THEN CostOf(c) ELSE 0
         IN  /\ Bounded(s) /\ x \in ContextType /\ Cost(x) = CostOf(c) /\ s.used = session.used
             /\ (IF s.reserved > x.reserved THEN s.reserved - x.reserved ELSE 0)
                  = IF session.reserved > n THEN session.reserved - n ELSE 0
             /\ \/ s.reserved = session.reserved
                \/ c \notin Carriers /\ s.reserved = session.reserved + CostOf(c)
  <1> DEFINE n == IF c \in Carriers THEN CostOf(c) ELSE 0
             s == PostContext(c)[1]
             x == PostContext(c)[2]
  <1>1. /\ Bounded(session) /\ local[c] = NoContext /\ ran[c] \in Args
        /\ CostOf(c) \in Nat /\ session.reserved \in Nat /\ session.used \in Nat
    BY CallFacts DEF KeptInv, CallInv, TypeOK, Bounded, SessionType
  <1>2. CASE Entries("claude", c) = {}
    <2> DEFINE y == [NewContext(Call[c]) EXCEPT !.args = ran[c]]
    <2>1. PostContext(c) = <<session, y>>
      BY <1>2 DEF PostContext
    <2>2. y \in ContextType /\ y.tool = Call[c].tool /\ y.reserved = 0
      BY <1>1, CallFacts DEF ContextType
    <2> HIDE DEF y
    <2>3. s = session /\ x = y /\ n = 0
      BY <1>1, <1>2, <2>1, OneEntry DEF HookAdapters
    <2> HIDE DEF s, x, n
    <2>4. Cost(x) = CostOf(c)
      BY <2>2, <2>3, CallFacts
    <2> QED BY <1>1, <2>2, <2>3, <2>4 DEF s, x, n
  <1>3. CASE Entries("claude", c) # {}
    <2> DEFINE e == CHOOSE e \in Entries("claude", c) : TRUE
    <2>1. e \in Entries("claude", c)
      BY <1>3
    <2>2. PostContext(c) = IF e.decision = "require_approval" THEN Reserve(session, e.ctx)
                                                              ELSE <<session, e.ctx>>
      BY <1>3 DEF PostContext
    <2> HIDE DEF e
    <2>3. /\ e \in EntryType /\ EntryInv("claude", e) /\ e.call = c
          /\ (c \in Carriers <=> ~Blocked(e.decision))
      BY <1>1, <2>1, OneEntry DEF HookAdapters
    <2>4. e.ctx \in ContextType /\ e.ctx.tool = Call[c].tool /\ e.ctx.reserved = n
          /\ Cost(e.ctx) = CostOf(c)
      BY <2>3, CallFacts DEF EntryInv, EntryType
    <2>5. CASE e.decision = "require_approval"
      <3>1. s = Reserve(session, e.ctx)[1] /\ x = Reserve(session, e.ctx)[2] /\ n = 0
            /\ c \notin Carriers
        BY <2>2, <2>3, <2>5 DEF Blocked
      <3> HIDE DEF s, x, n
      <3>2. /\ Bounded(s) /\ x \in ContextType /\ x.tool = Call[c].tool /\ s.used = session.used
            /\ s.reserved = session.reserved + CostOf(c) /\ x.reserved = CostOf(c)
        BY <1>1, <2>4, <3>1, ReserveType
      <3>3. Cost(x) = CostOf(c)
        BY <3>2, CallFacts
      <3> QED BY <1>1, <3>1, <3>2, <3>3 DEF s, x, n
    <2>6. CASE e.decision # "require_approval"
      <3>1. s = session /\ x = e.ctx
        BY <2>2, <2>6
      <3> HIDE DEF s, x, n
      <3> QED BY <1>1, <2>4, <3>1 DEF s, x, n
    <2> QED BY <2>5, <2>6
  <1> QED BY <1>2, <1>3

LEMMA PostToolUseStep ==
  ASSUME KeptInv, NEW c \in Calls, PostToolUse(c)
  PROVE  StepOK(c)
  <1> DEFINE n == IF c \in Carriers THEN CostOf(c) ELSE 0
             s == PostContext(c)[1]
             x == PostContext(c)[2]
  <1>1. /\ Via[c] = "claude" /\ sdk[c] = "running"
    BY DEF PostToolUse, Claude
  <1>2. /\ Bounded(s) /\ x \in ContextType /\ Cost(x) = CostOf(c) /\ s.used = session.used
        /\ (IF s.reserved > x.reserved THEN s.reserved - x.reserved ELSE 0)
             = IF session.reserved > n THEN session.reserved - n ELSE 0
    BY <1>1, PostContextFacts
  <1>3. PICK t \in AfterOutcomes(s, x) : session' = t
    BY DEF PostToolUse
  <1> HIDE DEF s, x
  <1>4. /\ Bounded(session') /\ session'.used = session.used + CostOf(c)
        /\ session'.reserved = IF session.reserved > n THEN session.reserved - n ELSE 0
    <2> HIDE DEF n
    <2> QED BY <1>2, <1>3, AfterFacts
  <1> QED BY <1>1, <1>4, PostEnds DEF PostToolUse

LEMMA PostToolUseRaisesStep ==
  ASSUME KeptInv, NEW c \in Calls, PostToolUseRaises(c)
  PROVE  StepOK(c)
  <1> DEFINE s == PostContext(c)[1]
             x == PostContext(c)[2]
  <1>1. /\ Via[c] = "claude" /\ sdk[c] = "running"
    BY DEF PostToolUseRaises, Claude
  <1>2. /\ Bounded(s) /\ s.used = session.used
        /\ \/ s.reserved = session.reserved
           \/ c \notin Carriers /\ s.reserved = session.reserved + CostOf(c)
    BY <1>1, PostContextFacts
  <1>3. PICK t \in AfterRaised(s, x) : session' = t
    BY DEF PostToolUseRaises
  <1> HIDE DEF s, x
  <1>4. Bounded(session') /\ session'.used = session.used /\ session'.reserved = s.reserved
    BY <1>2, <1>3, RaisedFacts
  <1>5. /\ KeptInv' /\ Carriers' = Carriers \ {c} /\ c \notin Lost /\ Lost' = Lost /\ Done' = Done
    BY <1>1, <1>4, PostOver DEF PostToolUseRaises
  <1>6. ~Roomy
    BY <1>1 DEF Roomy
  <1> HIDE DEF Carriers, Lost, Done, Roomy
  <1>7. CASE s.reserved = session.reserved
    BY <1>4, <1>5, <1>6, <1>7 DEF StepOK, Keeps
  <1>8. CASE c \notin Carriers /\ s.reserved = session.reserved + CostOf(c)
    BY <1>1, <1>4, <1>5, <1>6, <1>8 DEF StepOK, Reserves
  <1> QED BY <1>2, <1>7, <1>8

LEMMA PostToolUseFailureStep ==
  ASSUME KeptInv, NEW c \in Calls, PostToolUseFailure(c)
  PROVE  StepOK(c)
  <1> DEFINE n == IF c \in Carriers THEN CostOf(c) ELSE 0
  <1>1. /\ Via[c] = "claude" /\ sdk[c] = "running" /\ Bounded(session) /\ local[c] = NoContext
        /\ CostOf(c) \in Nat /\ session.reserved \in Nat
    BY CallFacts DEF PostToolUseFailure, Claude, KeptInv, CallInv, Bounded, SessionType
  <1>2. /\ Bounded(session') /\ session'.used = session.used
        /\ session'.reserved = IF session.reserved > n THEN session.reserved - n ELSE 0
    <2>1. CASE Entries("claude", c) = {} /\ session' = session
      <3>1. n = 0
        BY <1>1, <2>1, OneEntry DEF HookAdapters
      <3> HIDE DEF n
      <3> QED BY <1>1, <2>1, <3>1
    <2>2. CASE \E e \in Entries("claude", c) : session' = Release(session, e.ctx)[1]
      <3>1. PICK e \in Entries("claude", c) : session' = Release(session, e.ctx)[1]
        BY <2>2
      <3>2. e.ctx \in ContextType /\ e.ctx.reserved = n
        BY <1>1, OneEntry DEF EntryInv, EntryType, HookAdapters
      <3> HIDE DEF n
      <3> QED BY <1>1, <3>1, <3>2, ReleaseType
    <2> QED BY <2>1, <2>2 DEF PostToolUseFailure
  <1> QED BY <1>1, <1>2, PostEnds DEF PostToolUseFailure

LEMMA ClaudeKept == ASSUME KeptInv, NEW c \in Calls, ClaudeStep(c) PROVE StepOK(c)
  BY PreToolUseStep, CanUseToolStep, PostToolUseStep, PostToolUseRaisesStep,
     PostToolUseFailureStep, AbortRunStep
     DEF ClaudeStep

\* The wrappers of three frameworks settle, and those of two release.
LEMMA RunningWrapper ==
  ASSUME KeptInv, NEW c \in Calls, Via[c] # "claude", sdk[c] = "running"
  PROVE  /\ Bounded(session) /\ local[c] \in ContextType
         /\ local[c].tool = Call[c].tool /\ local[c].reserved = CostOf(c)
  BY DEF KeptInv, CallInv, TypeOK

LEMMA WrapperReturnsStep ==
  ASSUME KeptInv, NEW c \in Calls, Via[c] # "claude", WrapperReturns(c)
  PROVE  StepOK(c)
  <1>1. sdk[c] = "running" /\ Bounded(session) /\ local[c] \in ContextType
    BY RunningWrapper DEF WrapperReturns
  <1>2. PICK t \in AfterOutcomes(session, local[c]) : session' = t
    BY DEF WrapperReturns
  <1>3. /\ Bounded(t) /\ t.used = session.used + Cost(local[c])
        /\ t.reserved = IF session.reserved > local[c].reserved
                           THEN session.reserved - local[c].reserved ELSE 0
    BY <1>1, <1>2, AfterFacts
  <1> QED BY <1>1, <1>2, <1>3, WrapperEnds DEF WrapperReturns

LEMMA WrapperAfterRaisesStep ==
  ASSUME KeptInv, NEW c \in Calls, Via[c] # "claude", WrapperAfterRaises(c)
  PROVE  StepOK(c)
  <1>1. sdk[c] = "running" /\ Bounded(session)
    BY RunningWrapper DEF WrapperAfterRaises
  <1>2. PICK t \in AfterRaised(session, local[c]) : session' = t
    BY DEF WrapperAfterRaises
  <1>3. Bounded(t) /\ t.used = session.used /\ t.reserved = session.reserved
    BY <1>1, <1>2, RaisedFacts
  <1> QED BY <1>1, <1>2, <1>3, WrapperLoses DEF WrapperAfterRaises

LEMMA WrapperRaisesStep ==
  ASSUME KeptInv, NEW c \in Calls, Via[c] \notin {"claude", "openai"}, WrapperRaises(c)
  PROVE  StepOK(c)
  <1>1. sdk[c] = "running" /\ Bounded(session) /\ local[c] \in ContextType
    BY RunningWrapper DEF WrapperRaises
  <1>2. session' = Release(session, local[c])[1]
    BY DEF WrapperRaises
  <1>3. /\ Bounded(session') /\ session'.used = session.used
        /\ session'.reserved = IF session.reserved > local[c].reserved
                                  THEN session.reserved - local[c].reserved ELSE 0
    BY <1>1, <1>2, ReleaseType
  <1> QED BY <1>1, <1>3, WrapperEnds DEF WrapperRaises

LEMMA PlanCallStep ==
  ASSUME KeptInv, NEW c \in Calls, PlanCall(c)
  PROVE  StepOK(c)
  <1>1. /\ CallTypes /\ CallInv(c) /\ Via[c] = "openai" /\ sdk[c] = "new"
        /\ UNCHANGED <<local, answer, ran>>
    BY DEF KeptInv, TypeOK, CallTypes, PlanCall, OpenAI
  <1>2. PICK o \in BeforeOutcomes(session, NewContext(Call[c]), <<c, "first">>) :
          /\ Remember("openai", c, o)
          /\ IF o.decision = "require_approval" \/ c \in UserNeeds
               THEN Ask(c, o)
               ELSE session' = o.session /\ Becomes(c, "planned") /\ UNCHANGED shown
    BY DEF PlanCall
  <1>3. Outcome(session, NewContext(Call[c]), o) /\ session' = o.session
    BY <1>1, <1>2, NewCall DEF Ask
  <1>4. ApprovalKey(o.ctx) \in Keys
    BY <1>3, CostType DEF Outcome
  <1>5. /\ CallTypes' /\ OthersStay(c) /\ sdk'[c] \in {"asked", "planned"}
        /\ o.decision = "require_approval" => shown'[c] # {}
        /\ sdk'[c] = "planned" => shown'[c] = shown[c]
    <2>1. CASE o.decision = "require_approval" \/ c \in UserNeeds
      BY <1>1, <1>2, <1>4, <2>1 DEF Ask, Becomes, CallTypes, OthersStay, Progress
    <2>2. CASE ~(o.decision = "require_approval" \/ c \in UserNeeds)
      BY <1>1, <1>2, <2>2 DEF Becomes, CallTypes, OthersStay, Progress
    <2> QED BY <2>1, <2>2
  <1>6. CallInv(c)'
    BY <1>1, <1>5 DEF CallInv
  <1> QED BY <1>1, <1>2, <1>3, <1>5, <1>6, RememberStep DEF HookAdapters, Remembered

LEMMA ResolveInterruptionStep ==
  ASSUME KeptInv, NEW c \in Calls, ResolveInterruption(c)
  PROVE  StepOK(c)
  <1>1. /\ CallTypes /\ CallInv(c) /\ Bounded(session) /\ Via[c] = "openai" /\ sdk[c] = "asked"
        /\ UNCHANGED <<session, inflight, local, shown, ran>>
    BY DEF KeptInv, TypeOK, CallTypes, ResolveInterruption, OpenAI
  <1>2. /\ CallTypes' /\ OthersStay(c) /\ sdk'[c] \in {"planned", "rejected"}
        /\ (sdk'[c] = "planned" => answer'[c] = "yes")
    <2>1. CASE Becomes(c, "planned") /\ answer' = [answer EXCEPT ![c] = "yes"]
      BY <1>1, <2>1 DEF Becomes, CallTypes, OthersStay, Progress
    <2>2. CASE Becomes(c, "rejected") /\ answer' = [answer EXCEPT ![c] = "no"]
      BY <1>1, <2>2 DEF Becomes, CallTypes, OthersStay, Progress
    <2> QED BY <2>1, <2>2 DEF ResolveInterruption
  <1>3. CallInv(c)'
    BY <1>1, <1>2 DEF CallInv
  <1>4. \A a \in HookAdapters : \A e \in Entries(a, c) : EntryInv(a, e)'
    <2>1. \A a \in HookAdapters : \A e \in Entries(a, c) : e.call = c /\ EntryInv(a, e)
      BY DictionaryFacts
    <2> QED BY <1>1, <1>2, <2>1 DEF EntryInv, Remembered, HookAdapters, CostOf
  <1> QED BY <1>1, <1>2, <1>3, <1>4, QuietStep

LEMMA InvokeStep ==
  ASSUME KeptInv, NEW c \in Calls, Invoke(c)
  PROVE  StepOK(c)
  <1>1. /\ CallTypes /\ CallInv(c) /\ Bounded(session) /\ Via[c] = "openai"
        /\ sdk[c] \in {"new", "planned"} /\ local[c] = NoContext /\ NoLongerListed(c)
        /\ UNCHANGED <<answer, shown>> /\ Call[c].args \in Args
        /\ shown' \in [Calls -> SUBSET Keys]
    BY PoppedFrom, CallFacts
       DEF KeptInv, CallInv, TypeOK, CallTypes, Invoke, OpenAI, HookAdapters
  <1>2. PICK o \in InvokeOutcomes(c) : Wrap(c, o, Call[c].args)
    BY DEF Invoke
  <1>3. \A b \in HookAdapters : b # "openai" => Entries(b, c) = {}
    BY <1>1, DictionaryFacts DEF EntryInv
  <1>4. CASE Entries("openai", c) = {}
    <2> DEFINE x == NewContext(Call[c])
    <2>1. o \in BeforeOutcomes(session, x, <<c, "replay">>)
      BY <1>2, <1>4 DEF InvokeOutcomes
    <2>2. Outcome(session, x, o) /\ x.tool = Call[c].tool
      BY <1>1, <2>1, CallFacts, BeforeFacts
    <2>3. \A a \in HookAdapters : \A e \in Entries(a, c) : Blocked(e.decision)
      BY <1>3, <1>4
    <2> HIDE DEF x
    <2> QED BY <1>1, <1>2, <2>2, <2>3, WrapStep
  <1>5. CASE Entries("openai", c) # {}
    <2>1. PICK e \in Entries("openai", c) :
             o \in IF e.decision = "require_approval"
                     THEN BeforeApproved(session, e.ctx, <<c, "approved">>)
                     ELSE {[session |-> session, ctx |-> e.ctx, decision |-> e.decision]}
      BY <1>2, <1>5 DEF InvokeOutcomes
    <2>2. /\ Entries("openai", c) = {e} /\ (c \in Carriers <=> ~Blocked(e.decision))
          /\ e.ctx \in ContextType /\ e.ctx.tool = Call[c].tool /\ e.decision \in Decisions
          /\ e.ctx.reserved = IF Blocked(e.decision) THEN 0 ELSE CostOf(c)
          /\ sdk[c] = "planned"
      BY <1>1, OneEntry DEF HookAdapters, EntryInv, EntryType, Remembered
    <2>3. CASE Blocked(e.decision)
      <3>1. Outcome(session, e.ctx, o)
        <4>1. CASE e.decision = "require_approval"
          BY <1>1, <2>1, <2>2, <2>3, <4>1, CallFacts, BeforeApprovedFacts
        <4>2. CASE e.decision # "require_approval"
          BY <1>1, <2>1, <2>2, <2>3, <4>2 DEF Outcome
        <4> QED BY <4>1, <4>2
      <3>2. \A a \in HookAdapters : \A f \in Entries(a, c) : Blocked(f.decision)
        BY <1>3, <2>2, <2>3
      <3> QED BY <1>1, <1>2, <2>2, <3>1, <3>2, WrapStep
    <2>4. CASE ~Blocked(e.decision)
      <3>1. /\ session' = session /\ sdk' = [sdk EXCEPT ![c] = "running"]
            /\ local' = [local EXCEPT ![c] = e.ctx]
            /\ ran' = [ran EXCEPT ![c] = Payload(o, Call[c].args)]
            /\ Payload(o, Call[c].args) \in Args
        <4>1. o = [session |-> session, ctx |-> e.ctx, decision |-> e.decision]
          BY <2>1, <2>4 DEF Blocked
        <4> QED BY <1>1, <1>2, <2>2, <2>4, <4>1 DEF Wrap, Becomes, Payload, ContextType
      <3>2. CallTypes' /\ OthersStay(c) /\ sdk'[c] = "running" /\ local'[c] = e.ctx
        BY <1>1, <2>2, <3>1 DEF CallTypes, OthersStay, Progress
      <3>3. local'[c] # NoContext
        BY <2>2, <3>2, AdapterAssumption
      <3>4. CallInv(c)'
        BY <1>1, <2>2, <2>4, <3>2, <3>3 DEF CallInv, CostOf
      <3>5. KeptInv'
        <4>1. /\ \A a \in HookAdapters : Dictionary(inflight'[a])
              /\ inflight' \in [HookAdapters -> Seq(EntryType)]
              /\ \A a \in HookAdapters : \A f \in Values(inflight'[a]) :
                    f \in Values(inflight[a]) /\ f.call # c
          BY <1>1 DEF NoLongerListed
        <4> QED BY <1>1, <3>1, <3>2, <3>4, <4>1, KeptStep
      <3>6. Carriers' = Carriers
        <4>1. Carriers' \ {c} = Carriers \ {c}
          BY <1>1, <3>2, OthersCarry DEF NoLongerListed
        <4>2. c \in Carriers /\ c \in Carriers'
          BY <2>2, <2>4, <3>3 DEF Carriers
        <4> QED BY <4>1, <4>2, SameSet
      <3>7. Lost' = Lost /\ Done' = Done
        <4>1. Lost' \ {c} = Lost \ {c} /\ Done' \ {c} = Done \ {c}
          BY <1>1, <3>2, OthersCarry DEF NoLongerListed
        <4>2. c \notin Lost /\ c \notin Lost' /\ c \notin Done /\ c \notin Done'
          BY <2>2, <3>2 DEF Lost, Done, LostByWrapper
        <4> QED BY <4>1, <4>2, SameSet
      <3> QED BY <3>1, <3>5, <3>6, <3>7 DEF StepOK, Keeps
    <2> QED BY <2>3, <2>4
  <1> QED BY <1>4, <1>5

LEMMA ToolRaisedStep ==
  ASSUME KeptInv, NEW c \in Calls, ToolRaised(c)
  PROVE  StepOK(c)
  <1>1. Via[c] = "openai" /\ sdk[c] = "running" /\ Bounded(session)
    BY DEF KeptInv, ToolRaised, OpenAI
  <1> QED BY <1>1, WrapperLoses DEF ToolRaised

LEMMA OpenAIKept == ASSUME KeptInv, NEW c \in Calls, OpenAIStep(c) PROVE StepOK(c)
  <1>1. CASE ToolReturned(c)
    BY <1>1, WrapperReturnsStep DEF ToolReturned, OpenAI
  <1>2. CASE InvokeAfterRaises(c)
    BY <1>2, WrapperAfterRaisesStep DEF InvokeAfterRaises, OpenAI
  <1> QED BY <1>1, <1>2, PlanCallStep, ResolveInterruptionStep, InvokeStep, ToolRaisedStep
             DEF OpenAIStep

\* A wrapper without a dictionary asks the host.
LEMMA AskStep ==
  ASSUME KeptInv, NEW c \in Calls, Via[c] \notin HookAdapters, sdk[c] = "new",
         NEW o, Outcome(session, NewContext(Call[c]), o), o.decision = "require_approval",
         Ask(c, o), UNCHANGED <<inflight, local, answer, ran>>
  PROVE  StepOK(c)
  <1>1. /\ CallTypes /\ CallInv(c) /\ Bounded(session') /\ ApprovalKey(o.ctx) \in Keys
        /\ session'.reserved = session.reserved /\ session'.used = session.used
        /\ sdk' = [sdk EXCEPT ![c] = "asked"]
        /\ shown' = [shown EXCEPT ![c] = {ApprovalKey(o.ctx)}]
    BY CostType DEF KeptInv, TypeOK, CallTypes, Outcome, Blocked, Ask, Becomes
  <1>2. CallTypes' /\ OthersStay(c) /\ sdk'[c] = "asked"
    BY <1>1 DEF CallTypes, OthersStay, Progress
  <1>3. CallInv(c)'
    BY <1>1, <1>2 DEF CallInv
  <1> QED BY <1>1, <1>2, <1>3, CarrierFacts, QuietStep

LEMMA WrapToolCallStep ==
  ASSUME KeptInv, NEW c \in Calls, WrapToolCall(c)
  PROVE  StepOK(c)
  <1>1. /\ CallTypes /\ Via[c] = "langgraph" /\ sdk[c] = "new" /\ Call[c].args \in Args
        /\ UNCHANGED <<inflight, answer>>
    BY CallFacts DEF KeptInv, TypeOK, CallTypes, WrapToolCall, LangGraph
  <1>2. PICK o \in BeforeOutcomes(session, NewContext(Call[c]), <<c, "first">>) :
          IF o.decision = "require_approval"
            THEN Ask(c, o) /\ UNCHANGED <<local, ran>>
            ELSE Wrap(c, o, Call[c].args) /\ UNCHANGED shown
    BY DEF WrapToolCall
  <1>3. /\ Outcome(session, NewContext(Call[c]), o) /\ NoLongerListed(c)
        /\ \A a \in HookAdapters : Entries(a, c) = {}
    BY <1>1, <1>2, NewCall, NotListed
  <1>4. CASE o.decision = "require_approval"
    BY <1>1, <1>2, <1>3, <1>4, AskStep DEF HookAdapters
  <1>5. CASE o.decision # "require_approval"
    <2> DEFINE x == NewContext(Call[c])
    <2>1. Outcome(session, x, o) /\ x.tool = Call[c].tool
      BY <1>3, CallFacts
    <2>2. shown' \in [Calls -> SUBSET Keys] /\ \A d \in Calls \ {c} : shown'[d] = shown[d]
      BY <1>1, <1>2, <1>5 DEF CallTypes
    <2> HIDE DEF x
    <2> QED BY <1>1, <1>2, <1>3, <1>5, <2>1, <2>2, WrapStep
  <1> QED BY <1>4, <1>5

LEMMA ResumeGraphStep ==
  ASSUME KeptInv, NEW c \in Calls, ResumeGraph(c)
  PROVE  StepOK(c)
  <1>1. /\ CallTypes /\ CallInv(c) /\ Bounded(session) /\ Via[c] = "langgraph" /\ sdk[c] = "asked"
        /\ sdk' = [sdk EXCEPT ![c] = "resumed"] /\ UNCHANGED <<session, inflight, local, shown, ran>>
    BY DEF KeptInv, TypeOK, CallTypes, ResumeGraph, LangGraph, Becomes
  <1>2. PICK a \in {"yes", "no"} : answer' = [answer EXCEPT ![c] = a]
    BY DEF ResumeGraph
  <1>3. CallTypes' /\ OthersStay(c) /\ sdk'[c] = "resumed"
    BY <1>1, <1>2 DEF CallTypes, OthersStay, Progress
  <1>4. CallInv(c)'
    BY <1>1, <1>3 DEF CallInv
  <1> QED BY <1>1, <1>3, <1>4, CarrierFacts, QuietStep DEF HookAdapters

LEMMA ReplayStep ==
  ASSUME KeptInv, NEW c \in Calls, Replay(c)
  PROVE  StepOK(c)
  <1> DEFINE x == NewContext(Call[c])
  <1>1. /\ CallTypes /\ CallInv(c) /\ Bounded(session) /\ Via[c] = "langgraph" /\ sdk[c] = "resumed"
        /\ Call[c].args \in Args /\ UNCHANGED <<inflight, answer, shown>>
        /\ <<c, "replay">> \in ApprovalIds /\ <<c, "approved">> \in ApprovalIds
        /\ x \in ContextType /\ x.tool = Call[c].tool /\ x.reserved = 0
    BY CallFacts DEF KeptInv, TypeOK, CallTypes, Replay, LangGraph
  <1>2. PICK o \in BeforeOutcomes(session, x, <<c, "replay">>) :
          IF o.decision # "require_approval"
            THEN Wrap(c, o, Call[c].args)
          ELSE IF AnsweredYes(c)
            THEN \E p \in BeforeApproved(o.session, o.ctx, <<c, "approved">>) :
                    Wrap(c, p, Call[c].args)
            ELSE session' = o.session /\ Becomes(c, "rejected") /\ UNCHANGED <<local, ran>>
    BY DEF Replay
  <1> HIDE DEF x
  <1>3. Outcome(session, x, o)
    BY <1>1, <1>2, BeforeFacts
  <1>4. /\ NoLongerListed(c) /\ \A a \in HookAdapters : Entries(a, c) = {}
        /\ shown' \in [Calls -> SUBSET Keys] /\ \A d \in Calls \ {c} : shown'[d] = shown[d]
    BY <1>1, CarrierFacts, NotListed DEF HookAdapters, CallTypes
  <1>5. CASE o.decision # "require_approval"
    BY <1>1, <1>2, <1>3, <1>4, <1>5, WrapStep
  <1>6. CASE o.decision = "require_approval" /\ AnsweredYes(c)
    <2>1. PICK p \in BeforeApproved(o.session, o.ctx, <<c, "approved">>) : Wrap(c, p, Call[c].args)
      BY <1>2, <1>6
    <2>2. /\ Bounded(o.session) /\ o.ctx \in ContextType /\ o.ctx.reserved = 0
          /\ o.ctx.tool = Call[c].tool
          /\ o.session.reserved = session.reserved /\ o.session.used = session.used
      BY <1>1, <1>3, <1>6 DEF Outcome, Blocked
    <2>3. Outcome(o.session, o.ctx, p)
      BY <1>1, <2>1, <2>2, BeforeApprovedFacts
    <2> QED BY <1>1, <1>4, <2>1, <2>2, <2>3, WrapStep
  <1>7. CASE o.decision = "require_approval" /\ ~AnsweredYes(c)
    <2>1. /\ Bounded(session') /\ session'.reserved = session.reserved /\ session'.used = session.used
          /\ sdk' = [sdk EXCEPT ![c] = "rejected"] /\ UNCHANGED <<local, ran>>
      BY <1>2, <1>3, <1>7 DEF Outcome, Blocked, Becomes
    <2>2. CallTypes' /\ OthersStay(c) /\ sdk'[c] = "rejected"
      BY <1>1, <2>1 DEF CallTypes, OthersStay, Progress
    <2>3. CallInv(c)'
      BY <1>1, <2>1, <2>2 DEF CallInv
    <2> QED BY <1>1, <1>4, <2>1, <2>2, <2>3, QuietStep
  <1> QED BY <1>5, <1>6, <1>7

LEMMA CommandReturnedStep ==
  ASSUME KeptInv, NEW c \in Calls, CommandReturned(c)
  PROVE  StepOK(c)
  <1>1. /\ Via[c] = "langgraph" /\ sdk[c] = "running" /\ Bounded(session)
        /\ local[c] \in ContextType /\ session' = Settle(session, local[c])[1]
    BY RunningWrapper DEF CommandReturned, LangGraph
  <1>2. /\ Bounded(session') /\ session'.used = session.used + Cost(local[c])
        /\ session'.reserved = IF session.reserved > local[c].reserved
                                  THEN session.reserved - local[c].reserved ELSE 0
    BY <1>1, SettleType
  <1> QED BY <1>1, <1>2, WrapperEnds DEF CommandReturned

LEMMA LangGraphKept == ASSUME KeptInv, NEW c \in Calls, LangGraphStep(c) PROVE StepOK(c)
  <1>1. CASE ToolMessage(c)
    BY <1>1, WrapperReturnsStep DEF ToolMessage, LangGraph
  <1>2. CASE ExecuteRaised(c)
    BY <1>2, WrapperRaisesStep DEF ExecuteRaised, LangGraph
  <1>3. CASE FinishRaises(c)
    BY <1>3, WrapperAfterRaisesStep DEF FinishRaises, LangGraph
  <1> QED BY <1>1, <1>2, <1>3, WrapToolCallStep, ResumeGraphStep, ReplayStep, CommandReturnedStep
             DEF LangGraphStep

LEMMA CallToolStep ==
  ASSUME KeptInv, NEW c \in Calls, CallTool(c)
  PROVE  StepOK(c)
  <1>1. /\ CallTypes /\ Via[c] = "pydantic" /\ sdk[c] = "new" /\ Call[c].args \in Args
        /\ UNCHANGED <<inflight, answer>>
    BY CallFacts DEF KeptInv, TypeOK, CallTypes, CallTool, Pydantic
  <1>2. PICK o \in BeforeOutcomes(session, NewContext(Call[c]), <<c, "first">>) :
          IF o.decision = "require_approval"
            THEN Ask(c, o) /\ UNCHANGED <<local, ran>>
            ELSE Wrap(c, o, Call[c].args) /\ UNCHANGED shown
    BY DEF CallTool
  <1>3. /\ Outcome(session, NewContext(Call[c]), o) /\ NoLongerListed(c)
        /\ \A a \in HookAdapters : Entries(a, c) = {}
    BY <1>1, <1>2, NewCall, NotListed
  <1>4. CASE o.decision = "require_approval"
    BY <1>1, <1>2, <1>3, <1>4, AskStep DEF HookAdapters
  <1>5. CASE o.decision # "require_approval"
    <2> DEFINE x == NewContext(Call[c])
    <2>1. Outcome(session, x, o) /\ x.tool = Call[c].tool
      BY <1>3, CallFacts
    <2>2. shown' \in [Calls -> SUBSET Keys] /\ \A d \in Calls \ {c} : shown'[d] = shown[d]
      BY <1>1, <1>2, <1>5 DEF CallTypes
    <2> HIDE DEF x
    <2> QED BY <1>1, <1>2, <1>3, <1>5, <2>1, <2>2, WrapStep
  <1> QED BY <1>4, <1>5

LEMMA ResolveDeferredStep ==
  ASSUME KeptInv, NEW c \in Calls, ResolveDeferred(c)
  PROVE  StepOK(c)
  <1>1. /\ CallTypes /\ CallInv(c) /\ Bounded(session) /\ Via[c] = "pydantic" /\ sdk[c] = "asked"
        /\ UNCHANGED <<session, inflight, local, shown, ran>>
    BY DEF KeptInv, TypeOK, CallTypes, ResolveDeferred, Pydantic
  <1>2. /\ CallTypes' /\ OthersStay(c) /\ sdk'[c] \in {"resumed", "rejected"}
        /\ (sdk'[c] = "resumed" => answer'[c] = "yes")
    <2>1. CASE Becomes(c, "resumed") /\ answer' = [answer EXCEPT ![c] = "yes"]
      BY <1>1, <2>1 DEF Becomes, CallTypes, OthersStay, Progress
    <2>2. CASE Becomes(c, "rejected") /\ answer' = [answer EXCEPT ![c] = "no"]
      BY <1>1, <2>2 DEF Becomes, CallTypes, OthersStay, Progress
    <2> QED BY <2>1, <2>2 DEF ResolveDeferred
  <1>3. CallInv(c)'
    BY <1>1, <1>2 DEF CallInv
  <1> QED BY <1>1, <1>2, <1>3, CarrierFacts, QuietStep DEF HookAdapters

LEMMA CallToolApprovedStep ==
  ASSUME KeptInv, NEW c \in Calls, CallToolApproved(c)
  PROVE  StepOK(c)
  <1>1. /\ CallTypes /\ Bounded(session) /\ Via[c] = "pydantic" /\ sdk[c] = "resumed"
        /\ UNCHANGED <<inflight, answer>> /\ <<c, "approved">> \in ApprovalIds
    BY CallFacts DEF KeptInv, TypeOK, CallTypes, CallToolApproved, Pydantic
  <1>2. PICK given \in {Call[c].args} \cup Overrides :
          /\ \E o \in BeforeApproved(session, [NewContext(Call[c]) EXCEPT !.args = given],
                                      <<c, "approved">>) : Wrap(c, o, given)
          /\ shown' = [shown EXCEPT ![c] = @ \cup {ApprovalKey([NewContext(Call[c]) EXCEPT !.args = given])}]
    BY DEF CallToolApproved
  <1> DEFINE x == [NewContext(Call[c]) EXCEPT !.args = given]
  <1>3. given \in Args /\ x \in ContextType /\ x.tool = Call[c].tool /\ x.reserved = 0
    BY CallFacts, AdapterAssumption DEF ContextType
  <1>4. PICK o \in BeforeApproved(session, x, <<c, "approved">>) : Wrap(c, o, given)
    BY <1>2
  <1>5. shown' = [shown EXCEPT ![c] = @ \cup {ApprovalKey(x)}]
    BY <1>2
  <1> HIDE DEF x
  <1>6. Outcome(session, x, o) /\ ApprovalKey(x) \in Keys
    BY <1>1, <1>3, <1>4, BeforeApprovedFacts, CostType
  <1>7. shown' \in [Calls -> SUBSET Keys] /\ \A d \in Calls \ {c} : shown'[d] = shown[d]
    BY <1>1, <1>5, <1>6 DEF CallTypes
  <1>8. NoLongerListed(c) /\ \A a \in HookAdapters : Entries(a, c) = {}
    BY <1>1, CarrierFacts, NotListed DEF HookAdapters
  <1> QED BY <1>1, <1>3, <1>4, <1>6, <1>7, <1>8, WrapStep

LEMMA PydanticKept == ASSUME KeptInv, NEW c \in Calls, PydanticStep(c) PROVE StepOK(c)
  <1>1. CASE WrappedReturned(c)
    BY <1>1, WrapperReturnsStep DEF WrappedReturned, Pydantic
  <1>2. CASE WrappedRaised(c)
    BY <1>2, WrapperRaisesStep DEF WrappedRaised, Pydantic
  <1>3. CASE CallToolAfterRaises(c)
    BY <1>3, WrapperAfterRaisesStep DEF CallToolAfterRaises, Pydantic
  <1> QED BY <1>1, <1>2, <1>3, CallToolStep, ResolveDeferredStep, CallToolApprovedStep
             DEF PydanticStep

\* The human moves no money.
LEMMA SessionOnly ==
  ASSUME KeptInv, Bounded(session'), session'.used = session.used,
         session'.reserved = session.reserved, UNCHANGED <<inflight, local, sdk, answer, shown, ran>>
  PROVE  KeptInv' /\ Keeps
  <1>1. KeptInv'
    BY DEF KeptInv, TypeOK, Bounded, CallInv, EntryInv
  <1>2. Carriers' = Carriers /\ Lost' = Lost /\ Done' = Done
    BY DEF Carriers, Lost, Done, LostByWrapper
  <1> HIDE DEF Carriers, Lost, Done
  <1> QED BY <1>1, <1>2 DEF Keeps

\* Every step keeps what the adapters remember in order, and does one thing to the money.
Effect == Keeps \/ \E c \in Calls : Reserves(c) \/ Ends(c)

LEMMA KeptInductive == KeptInv /\ [Next]_vars => KeptInv' /\ Effect
  <1> SUFFICES ASSUME KeptInv, [Next]_vars PROVE KeptInv' /\ Effect
    OBVIOUS
  <1>1. Bounded(session)
    BY DEF KeptInv
  <1>2. CASE \E c \in Calls : ClaudeStep(c) \/ OpenAIStep(c) \/ LangGraphStep(c) \/ PydanticStep(c)
    BY <1>2, ClaudeKept, OpenAIKept, LangGraphKept, PydanticKept DEF StepOK, Effect
  <1>3. CASE GrantApprovalById
    BY <1>1, <1>3, RedeemPendingType, SessionOnly DEF GrantApprovalById, Effect
  <1>4. CASE ClearTaint
    <2>1. session' = [session EXCEPT !.tainted = FALSE] /\ session \in SessionType
      BY <1>1, <1>4 DEF ClearTaint, Bounded
    <2>2. Bounded(session') /\ session'.used = session.used /\ session'.reserved = session.reserved
      BY <1>1, <2>1, FieldsType DEF SessionType
    <2> QED BY <1>4, <2>2, SessionOnly DEF ClearTaint, Effect
  <1>5. CASE UNCHANGED vars
    BY <1>1, <1>5, SessionOnly DEF vars, Effect
  <1> QED BY <1>2, <1>3, <1>4, <1>5 DEF Next, Quiet

LEMMA KeptInitially == Init => KeptInv
  <1> SUFFICES ASSUME Init PROVE KeptInv
    OBVIOUS
  <1>1. Bounded(session)
    BY StateAssumption, EmptySeq DEF Init, NewSession, Bounded, SessionType
  <1>2. \A a \in HookAdapters : inflight[a] = <<>> /\ Values(inflight[a]) = {}
    BY DEF Init, Values
  <1>3. \A a \in HookAdapters : Dictionary(inflight[a])
    <2>1. <<>> \in Seq(EntryType) /\ Len(<<>>) = 0 /\ DOMAIN <<>> = {}
      BY EmptySeq
    <2>2. 0 <= MaxInflight
      BY AdapterAssumption
    <2>3. Dictionary(<<>>)
      BY <2>1, <2>2 DEF Dictionary, Unique
    <2> QED BY <1>2, <2>3
  <1>4. inflight \in [HookAdapters -> Seq(EntryType)] /\ CallTypes
    BY DEF Init, CallTypes, Progress
  <1>5. TypeOK
    BY <1>1, <1>3, <1>4 DEF TypeOK, CallTypes, Bounded, Dictionary
  <1>6. \A c \in Calls : CallInv(c)
    BY DEF Init, CallInv
  <1> QED BY <1>1, <1>2, <1>3, <1>5, <1>6 DEF KeptInv

\* Type correctness: the session, the dictionaries within max_inflight, the contexts
\* the wrappers keep and the answers of the hosts are always of their types.
THEOREM AdaptersTypeCorrect == Spec => []TypeOK
  <1>1. KeptInv => TypeOK
    BY DEF KeptInv
  <1> QED BY KeptInductive, KeptInitially, <1>1, PTL DEF Spec

-----------------------------------------------------------------------------
(* Counting the money of the adapters. *)

\* What the calls of Q cost, cent by cent.
Priced(Q) == UNION {{c} \X (1..CostOf(c)) : c \in Q}

LEMMA PricedWith ==
  ASSUME NEW Q \in SUBSET Calls, IsFiniteSet(Priced(Q)), NEW c \in Calls, c \notin Q
  PROVE  /\ IsFiniteSet(Priced(Q \cup {c})) /\ Cardinality(Priced(Q)) \in Nat
         /\ Cardinality(Priced(Q \cup {c})) = Cardinality(Priced(Q)) + CostOf(c)
  <1> DEFINE A == Priced(Q)
             B == {c} \X (1..CostOf(c))
  <1>1. CostOf(c) \in Nat
    BY CallFacts
  <1>2. IsFiniteSet(B) /\ Cardinality(B) = CostOf(c)
    BY <1>1, CentsCount
  <1>3. Priced(Q \cup {c}) = A \cup B
    BY DEF Priced
  <1>4. A \cap B = {}
    BY DEF Priced
  <1>5. Cardinality(A) \in Nat
    BY FS_CardinalityType
  <1> HIDE DEF A, B
  <1>6. /\ IsFiniteSet(A \cup B)
        /\ Cardinality(A \cup B) = Cardinality(A) + Cardinality(B) - Cardinality(A \cap B)
    BY <1>2, FS_Union DEF A
  <1>7. Cardinality(A \cap B) = 0
    BY <1>4, FS_EmptySet
  <1>8. Cardinality(A \cup B) = Cardinality(A) + CostOf(c)
    BY <1>1, <1>2, <1>5, <1>6, <1>7
  <1> QED BY <1>3, <1>5, <1>6, <1>8 DEF A

LEMMA PricedPart ==
  ASSUME NEW Q, NEW R \in SUBSET Q, IsFiniteSet(Priced(Q))
  PROVE  IsFiniteSet(Priced(R)) /\ Cardinality(Priced(R)) <= Cardinality(Priced(Q))
  <1>1. Priced(R) \subseteq Priced(Q)
    BY DEF Priced
  <1> QED BY <1>1, FS_Subset

LEMMA PricedNone == IsFiniteSet(Priced({})) /\ Cardinality(Priced({})) = 0
  <1>1. Priced({}) = {}
    BY DEF Priced
  <1> QED BY <1>1, FS_EmptySet

\* The money a call of Q costs is part of what the calls of Q cost.
LEMMA PricedWithout ==
  ASSUME NEW Q \in SUBSET Calls, IsFiniteSet(Priced(Q)), NEW c \in Q
  PROVE  /\ IsFiniteSet(Priced(Q \ {c})) /\ Cardinality(Priced(Q \ {c})) \in Nat
         /\ Cardinality(Priced(Q)) = Cardinality(Priced(Q \ {c})) + CostOf(c)
  <1> DEFINE R == Q \ {c}
  <1>1. R \in SUBSET Calls /\ R \in SUBSET Q /\ c \in Calls /\ c \notin R /\ R \cup {c} = Q
    OBVIOUS
  <1> HIDE DEF R
  <1>2. IsFiniteSet(Priced(R))
    BY <1>1, PricedPart
  <1>3. /\ Cardinality(Priced(R)) \in Nat
        /\ Cardinality(Priced(R \cup {c})) = Cardinality(Priced(R)) + CostOf(c)
    BY <1>1, <1>2, PricedWith
  <1> QED BY <1>1, <1>2, <1>3 DEF R

\* The money in the contexts that are kept is the cost of the calls they are about.
LEMMA HeldIsPriced == ASSUME KeptInv PROVE HeldCents = Priced(Carriers)
  <1>1. ASSUME NEW c \in Calls, NEW x \in Kept(c), x.reserved # 0
        PROVE  c \in Carriers /\ x.reserved = CostOf(c)
    <2>1. CASE x = local[c] /\ local[c] # NoContext
      BY <2>1 DEF KeptInv, CallInv, Carriers
    <2>2. CASE \E a \in HookAdapters : \E e \in Entries(a, c) : x = e.ctx
      <3>1. PICK a \in HookAdapters : \E e \in Entries(a, c) : x = e.ctx
        BY <2>2
      <3>2. PICK e \in Entries(a, c) : x = e.ctx
        BY <3>1
      <3>3. e \in Values(inflight[a]) /\ e.call = c /\ EntryInv(a, e)
        BY DictionaryFacts
      <3> QED BY <1>1, <3>2, <3>3 DEF EntryInv, Carriers
    <2> QED BY <2>1, <2>2 DEF Kept, HookAdapters
  <1>2. ASSUME NEW c \in Carriers
        PROVE  c \in Calls /\ \E x \in Kept(c) : x.reserved = CostOf(c)
    <2>1. CASE local[c] # NoContext
      BY <2>1 DEF KeptInv, CallInv, Carriers, Kept
    <2>2. CASE \E a \in HookAdapters : \E e \in Values(inflight[a]) : e.call = c /\ ~Blocked(e.decision)
      <3>0. PICK a \in HookAdapters : \E e \in Values(inflight[a]) : e.call = c /\ ~Blocked(e.decision)
        BY <2>2
      <3>1. PICK e \in Values(inflight[a]) : e.call = c /\ ~Blocked(e.decision)
        BY <3>0
      <3>2. c \in Calls /\ e \in Entries(a, c) /\ EntryInv(a, e)
        BY <3>1, DictionaryFacts DEF Carriers
      <3>3. e.ctx \in Kept(c)
        BY <3>2 DEF Kept, HookAdapters
      <3> QED BY <3>1, <3>2, <3>3 DEF EntryInv
    <2> QED BY <2>1, <2>2 DEF Carriers
  <1>3. ASSUME NEW h \in HeldCents PROVE h \in Priced(Carriers)
    <2>0. PICK c \in Calls : \E x \in Kept(c) : h \in {c} \X (1..x.reserved)
      BY DEF HeldCents
    <2>1. PICK x \in Kept(c) : h \in {c} \X (1..x.reserved)
      BY <2>0
    <2>2. x.reserved # 0
      BY <2>1
    <2>3. c \in Carriers /\ h \in {c} \X (1..CostOf(c))
      BY <1>1, <2>1, <2>2
    <2> QED BY <2>3 DEF Priced
  <1>4. ASSUME NEW h \in Priced(Carriers) PROVE h \in HeldCents
    <2>1. PICK c \in Carriers : h \in {c} \X (1..CostOf(c))
      BY DEF Priced
    <2>2. PICK x \in Kept(c) : x.reserved = CostOf(c)
      BY <1>2
    <2>3. c \in Calls /\ h \in {c} \X (1..x.reserved)
      BY <1>2, <2>1, <2>2
    <2> QED BY <2>3 DEF HeldCents
  <1> QED BY <1>3, <1>4

\* What the session reserves covers the contexts that are kept, and what it has spent
\* is the cost of the calls for which after came to its end.
MoneyInv ==
    /\ KeptInv
    /\ IsFiniteSet(Priced(Carriers)) /\ Cardinality(Priced(Carriers)) <= session.reserved
    /\ IsFiniteSet(Priced(Done)) /\ session.used = Cardinality(Priced(Done))

LEMMA MoneyFacts ==
  ASSUME KeptInv
  PROVE  /\ session.reserved \in Nat /\ session.used \in Nat
         /\ Carriers \in SUBSET Calls /\ Lost \in SUBSET Calls /\ Done \in SUBSET Calls
         /\ \A c \in Calls : CostOf(c) \in Nat
  BY CallFacts DEF KeptInv, Bounded, SessionType, Carriers, Lost, Done

LEMMA MoneyStep == MoneyInv /\ [Next]_vars => MoneyInv'
  <1> SUFFICES ASSUME MoneyInv, [Next]_vars PROVE MoneyInv'
    OBVIOUS
  <1>1. KeptInv /\ KeptInv' /\ Effect
    BY KeptInductive DEF MoneyInv
  <1>2. /\ session.reserved \in Nat /\ session.used \in Nat
        /\ Carriers \in SUBSET Calls /\ Done \in SUBSET Calls
        /\ \A c \in Calls : CostOf(c) \in Nat
    BY <1>1, MoneyFacts
  <1>3. /\ IsFiniteSet(Priced(Carriers)) /\ Cardinality(Priced(Carriers)) <= session.reserved
        /\ IsFiniteSet(Priced(Done)) /\ session.used = Cardinality(Priced(Done))
        /\ Cardinality(Priced(Carriers)) \in Nat
    BY FS_CardinalityType DEF MoneyInv
  <1>4. CASE Keeps
    <2>1. /\ IsFiniteSet(Priced(Carriers'))
          /\ Cardinality(Priced(Carriers')) <= Cardinality(Priced(Carriers))
      BY <1>3, <1>4, PricedPart DEF Keeps
    <2>2. Cardinality(Priced(Carriers')) \in Nat
      BY <2>1, FS_CardinalityType
    <2>3. Cardinality(Priced(Carriers')) <= session'.reserved
      BY <1>2, <1>3, <1>4, <2>1, <2>2 DEF Keeps
    <2>4. Priced(Carriers)' = Priced(Carriers') /\ Priced(Done)' = Priced(Done')
      BY DEF Priced, CostOf
    <2> QED BY <1>1, <1>3, <1>4, <2>1, <2>3, <2>4 DEF Keeps, MoneyInv
  <1>5. ASSUME NEW c \in Calls, Reserves(c) PROVE MoneyInv'
    <2> DEFINE C == Carriers \cup {c}
    <2>1. c \notin Carriers /\ Carriers' \subseteq C /\ Done' = Done
          /\ session'.reserved = session.reserved + CostOf(c) /\ session'.used = session.used
      BY <1>5 DEF Reserves
    <2>2. IsFiniteSet(Priced(C)) /\ Cardinality(Priced(C)) = Cardinality(Priced(Carriers)) + CostOf(c)
      BY <1>2, <1>3, <2>1, PricedWith
    <2> HIDE DEF C
    <2>3. /\ IsFiniteSet(Priced(Carriers'))
          /\ Cardinality(Priced(Carriers')) <= Cardinality(Priced(C))
      BY <2>1, <2>2, PricedPart
    <2>4. Cardinality(Priced(Carriers')) \in Nat
      BY <2>3, FS_CardinalityType
    <2>5. Cardinality(Priced(Carriers')) <= session'.reserved
      BY <1>2, <1>3, <2>1, <2>2, <2>3, <2>4
    <2>6. Priced(Carriers)' = Priced(Carriers') /\ Priced(Done)' = Priced(Done')
      BY DEF Priced, CostOf
    <2> QED BY <1>1, <1>3, <2>1, <2>3, <2>5, <2>6 DEF MoneyInv
  <1>6. ASSUME NEW c \in Calls, Ends(c) PROVE MoneyInv'
    <2> DEFINE C == Carriers \ {c}
               n == IF c \in Carriers THEN CostOf(c) ELSE 0
    <2>1. Carriers' = C /\ session'.reserved = IF session.reserved > n THEN session.reserved - n ELSE 0
      BY <1>6 DEF Ends
    <2>2. /\ IsFiniteSet(Priced(C)) /\ Cardinality(Priced(C)) \in Nat
          /\ Cardinality(Priced(Carriers)) = Cardinality(Priced(C)) + n
      <3>1. CASE c \in Carriers
        BY <1>2, <1>3, <3>1, PricedWithout
      <3>2. CASE c \notin Carriers
        <4>1. C = Carriers /\ n = 0
          BY <3>2
        <4> HIDE DEF C, n
        <4> QED BY <1>3, <4>1
      <3> QED BY <3>1, <3>2
    <2>3. n \in Nat
      BY <1>2
    <2> HIDE DEF C, n
    <2>4. Cardinality(Priced(Carriers')) <= session'.reserved
      BY <1>2, <1>3, <2>1, <2>2, <2>3
    <2>5. IsFiniteSet(Priced(Done')) /\ session'.used = Cardinality(Priced(Done'))
      <3>1. CASE session'.used = session.used /\ Done' = Done
        BY <1>3, <3>1
      <3>2. CASE session'.used = session.used + CostOf(c) /\ c \notin Done /\ Done' = Done \cup {c}
        BY <1>2, <1>3, <3>2, PricedWith
      <3> QED BY <1>6, <3>1, <3>2 DEF Ends
    <2>6. Priced(Carriers)' = Priced(Carriers') /\ Priced(Done)' = Priced(Done')
      BY DEF Priced, CostOf
    <2> QED BY <1>1, <2>1, <2>2, <2>4, <2>5, <2>6 DEF MoneyInv
  <1> QED BY <1>1, <1>4, <1>5, <1>6 DEF Effect

\* At the start nobody holds, has lost or has spent anything.
LEMMA NothingInitially ==
  ASSUME Init
  PROVE  /\ KeptInv /\ Carriers = {} /\ Lost = {} /\ Done = {}
         /\ session.reserved = 0 /\ session.used = 0
  <1>1. \A a \in HookAdapters : Values(inflight[a]) = {}
    BY EmptySeq DEF Init, Values
  <1>2. Carriers = {}
    BY <1>1 DEF Carriers, Init
  <1>3. Lost = {} /\ Done = {}
    BY DEF Init, Lost, Done, LostByWrapper
  <1>4. session.reserved = 0 /\ session.used = 0
    BY DEF Init, NewSession
  <1> QED BY <1>2, <1>3, <1>4, KeptInitially

LEMMA MoneyInitially == Init => MoneyInv
  BY NothingInitially, PricedNone DEF MoneyInv

\* No adapter gives back money that a call still holds: what the session reserves
\* covers every context that can still be settled or released, though an entry may
\* be evicted, a hook may find no context, or a run may be aborted.
THEOREM AdaptersHoldReserved == Spec => []HeldIsReserved
  <1>1. MoneyInv => HeldIsReserved
    <2> SUFFICES ASSUME MoneyInv PROVE HeldIsReserved
      OBVIOUS
    <2>1. HeldCents = Priced(Carriers)
      BY HeldIsPriced DEF MoneyInv
    <2>2. session.reserved \in Nat /\ Cardinality(Priced(Carriers)) \in Nat
      BY MoneyFacts, FS_CardinalityType DEF MoneyInv
    <2> QED BY <2>1, <2>2 DEF MoneyInv, HeldIsReserved
  <1> QED BY MoneyStep, MoneyInitially, <1>1, PTL DEF Spec

\* What a session has spent is the cost of the calls for which after came to its end,
\* each charged once, whichever adapter ran them and whatever it still remembered: no
\* call that failed, and none whose after hook raised what is no GatewayError.
THEOREM AdaptersCharge == Spec => []SpendIsCharged
  <1>1. MoneyInv => SpendIsCharged
    BY DEF MoneyInv, SpendIsCharged, Priced, Done
  <1> QED BY MoneyStep, MoneyInitially, <1>1, PTL DEF Spec

\* With nothing forgotten, the reservation is what the calls hold or have lost.
ExactInv == /\ MoneyInv /\ IsFiniteSet(Priced(Carriers \cup Lost))
            /\ session.reserved = Cardinality(Priced(Carriers \cup Lost))

LEMMA ExactStep == Roomy /\ ExactInv /\ [Next]_vars => ExactInv'
  <1> SUFFICES ASSUME Roomy, ExactInv, [Next]_vars PROVE ExactInv'
    OBVIOUS
  <1> DEFINE H == Carriers \cup Lost
             G == Carriers' \cup Lost'
  <1>1. MoneyInv /\ MoneyInv' /\ KeptInv /\ Effect
    BY MoneyStep, KeptInductive DEF ExactInv, MoneyInv
  <1>2. session.reserved \in Nat /\ H \in SUBSET Calls /\ \A c \in Calls : CostOf(c) \in Nat
    BY <1>1, MoneyFacts
  <1>3. IsFiniteSet(Priced(H)) /\ session.reserved = Cardinality(Priced(H))
    BY DEF ExactInv
  <1>4. Priced(Carriers \cup Lost)' = Priced(G)
    BY DEF Priced, CostOf
  <1>5. ASSUME IsFiniteSet(Priced(G)), session'.reserved = Cardinality(Priced(G)) PROVE ExactInv'
    BY <1>1, <1>4, <1>5 DEF ExactInv
  <1>6. CASE Keeps
    <2>1. G = H /\ session'.reserved = session.reserved
      BY <1>6 DEF Keeps
    <2> HIDE DEF G, H
    <2> QED BY <1>3, <1>5, <2>1
  <1>7. ASSUME NEW c \in Calls, Reserves(c) PROVE ExactInv'
    <2>1. c \notin H /\ G = H \cup {c} /\ session'.reserved = session.reserved + CostOf(c)
      BY <1>7 DEF Reserves
    <2> HIDE DEF G, H
    <2>2. IsFiniteSet(Priced(G)) /\ Cardinality(Priced(G)) = Cardinality(Priced(H)) + CostOf(c)
      BY <1>2, <1>3, <2>1, PricedWith
    <2> QED BY <1>3, <1>5, <2>1, <2>2
  <1>8. ASSUME NEW c \in Calls, Ends(c) PROVE ExactInv'
    <2>1. /\ c \in H /\ G = H \ {c}
          /\ session'.reserved = IF session.reserved > CostOf(c) THEN session.reserved - CostOf(c) ELSE 0
      BY <1>8 DEF Ends, Roomy
    <2> HIDE DEF G, H
    <2>2. /\ IsFiniteSet(Priced(G)) /\ Cardinality(Priced(G)) \in Nat
          /\ Cardinality(Priced(H)) = Cardinality(Priced(G)) + CostOf(c)
      BY <1>2, <1>3, <2>1, PricedWithout
    <2>3. session'.reserved = Cardinality(Priced(G))
      BY <1>2, <1>3, <2>1, <2>2
    <2> QED BY <1>5, <2>2, <2>3
  <1> QED BY <1>1, <1>6, <1>7, <1>8 DEF Effect

LEMMA ExactInitially == Init => ExactInv
  BY NothingInitially, MoneyInitially, PricedNone DEF ExactInv

\* With wrapped tools only and a dictionary with room for the calls of its framework,
\* money is reserved from the decision to the end of a call and at no other time,
\* across interrupts, replays, re-entries, rejections and failures; but what a wrapper
\* drops stays reserved for good: when an after hook raises what is no GatewayError,
\* and in the OpenAI wrapper when the tool raises.
THEOREM AdaptersHoldExactly == ASSUME Roomy PROVE Spec => []MoneyIsHeld
  <1>1. ExactInv => MoneyIsHeld
    <2> SUFFICES ASSUME ExactInv PROVE MoneyIsHeld
      OBVIOUS
    <2>1. HeldCents = Priced(Carriers)
      BY HeldIsPriced DEF ExactInv, MoneyInv
    <2>2. HeldCents \cup UNION {{c} \X (1..CostOf(c)) : c \in {d \in Calls : LostByWrapper(d)}}
            = Priced(Carriers \cup Lost)
      BY <2>1 DEF Priced, Lost
    <2> QED BY <2>2 DEF ExactInv, MoneyIsHeld
  <1> QED BY ExactStep, ExactInitially, <1>1, PTL DEF Spec

\* A budget that is checked, and no hook that finds no context.
Budgeted == Listed("budget") /\ BudgetLimit # NoLimit /\ \A c \in Calls : Via[c] # "claude"
WithinInv == MoneyInv /\ session.used + session.reserved <= BudgetLimit

LEMMA WithinStep == Budgeted /\ WithinInv /\ [Next]_vars => WithinInv'
  <1> SUFFICES ASSUME Budgeted, WithinInv, [Next]_vars PROVE WithinInv'
    OBVIOUS
  <1>1. MoneyInv /\ MoneyInv' /\ KeptInv /\ Effect
    BY MoneyStep, KeptInductive DEF WithinInv, MoneyInv
  <1>2. /\ session.reserved \in Nat /\ session.used \in Nat /\ BudgetLimit \in Nat
        /\ Carriers \in SUBSET Calls /\ \A c \in Calls : CostOf(c) \in Nat
        /\ session.used + session.reserved <= BudgetLimit
    BY <1>1, MoneyFacts, StateAssumption DEF Budgeted, WithinInv
  <1>3. CASE Keeps
    BY <1>1, <1>2, <1>3 DEF Keeps, WithinInv
  <1>4. ASSUME NEW c \in Calls, Reserves(c) PROVE WithinInv'
    <2>1. BudgetVerdict(session, NewContext(Call[c])) = "allow"
      BY <1>4 DEF Reserves, Budgeted
    <2>2. session.used + session.reserved + CostOf(c) <= BudgetLimit
      <3>1. Cost(NewContext(Call[c])) = CostOf(c)
        BY CallFacts
      <3> QED BY <1>2, <2>1, <3>1 DEF BudgetVerdict, Budgeted
    <2>3. session'.used + session'.reserved <= BudgetLimit
      BY <1>2, <1>4, <2>2 DEF Reserves
    <2> QED BY <1>1, <2>3 DEF WithinInv
  <1>5. ASSUME NEW c \in Calls, Ends(c) PROVE WithinInv'
    <2>1. /\ c \in Carriers
          /\ session'.reserved = IF session.reserved > CostOf(c) THEN session.reserved - CostOf(c) ELSE 0
          /\ \/ session'.used = session.used
             \/ session'.used = session.used + CostOf(c)
      BY <1>5 DEF Ends, Budgeted
    <2>2. CostOf(c) <= session.reserved
      <3>1. /\ IsFiniteSet(Priced(Carriers)) /\ Cardinality(Priced(Carriers)) <= session.reserved
            /\ Cardinality(Priced(Carriers)) \in Nat
        BY <1>1, FS_CardinalityType DEF MoneyInv
      <3>2. /\ Cardinality(Priced(Carriers \ {c})) \in Nat
            /\ Cardinality(Priced(Carriers)) = Cardinality(Priced(Carriers \ {c})) + CostOf(c)
        BY <1>2, <2>1, <3>1, PricedWithout
      <3> QED BY <1>2, <3>1, <3>2
    <2>3. session'.used + session'.reserved <= BudgetLimit
      BY <1>2, <2>1, <2>2
    <2> QED BY <1>1, <2>3 DEF WithinInv
  <1> QED BY <1>1, <1>3, <1>4, <1>5 DEF Effect

\* The ceiling of the budget stage holds under every framework that wraps its tools,
\* also for calls that are approved while the budget is being used up, decided again
\* after an interrupt, or decided inline because their plan was evicted.
THEOREM AdaptersWithinBudget ==
  ASSUME Listed("budget"), \A c \in Calls : Via[c] # "claude"
  PROVE  Spec => []BudgetNeverOvershoots
  <1>1. CASE BudgetLimit = NoLimit
    <2>1. BudgetNeverOvershoots
      BY <1>1 DEF BudgetNeverOvershoots
    <2> QED BY <2>1, PTL
  <1>2. CASE BudgetLimit # NoLimit
    <2>1. Budgeted
      BY <1>2 DEF Budgeted
    <2>2. Init => WithinInv
      BY <1>2, NothingInitially, MoneyInitially, StateAssumption DEF WithinInv
    <2>3. WithinInv => BudgetNeverOvershoots
      BY DEF WithinInv, BudgetNeverOvershoots
    <2> QED BY <2>1, <2>2, <2>3, WithinStep, PTL DEF Spec
  <1> QED BY <1>1, <1>2

-----------------------------------------------------------------------------
(* Approvals. *)

\* A wrapper decides on call c, and starts its tool.
StartsDeciding(c) == /\ Via[c] # "claude" /\ local[c] = NoContext /\ local'[c] # NoContext
                     /\ Entries("openai", c) = {} \/ shown[c] # {}

\* Somebody said yes to call c, or to its key.
MayRun(c) == answer[c] = "yes" \/ Approved(session, local'[c])

\* A call that before lets pass needs nobody's approval, or has it.
LEMMA PassedApproved ==
  ASSUME AskingStages, KeptInv, NEW c \in Calls, NEW id \in ApprovalIds,
         NEW o \in BeforeOutcomes(session, NewContext(Call[c]), id), ~Blocked(o.decision),
         local'[c] = o.ctx, NeedsApproval(c, local'[c])
  PROVE  MayRun(c)
  <1> DEFINE x == NewContext(Call[c])
  <1>1. /\ x \in ContextType /\ x.reserved = 0 /\ x.tool = Call[c].tool /\ x.args = Call[c].args
        /\ Bounded(session)
    BY CallFacts DEF KeptInv
  <1> HIDE DEF x
  <1>2. /\ Outcome(session, x, o)
        /\ AskingStages /\ ~Blocked(o.decision) /\ Asked(session, x) => Approved(session, o.ctx)
    BY <1>1, BeforeFacts DEF x
  <1>3. ApprovalKey(x) = <<Call[c].tool, Call[c].args>>
    BY <1>1 DEF ApprovalKey
  <1>4. TaintGates(session, o.ctx) = TaintGates(session, x) /\ RiskScore(session, o.ctx) = RiskScore(session, x)
    BY <1>2 DEF Outcome, TaintGates, RiskScore
  <1>5. Asked(session, x)
    BY <1>3, <1>4 DEF NeedsApproval, Asked
  <1> QED BY <1>2, <1>5 DEF MayRun

\* A tool is started with the context of an outcome that is not blocked.
LEMMA WrapStarts ==
  ASSUME KeptInv, NEW c \in Calls, NEW o, NEW given, Wrap(c, o, given),
         local[c] = NoContext, local'[c] # NoContext
  PROVE  ~Blocked(o.decision) /\ local'[c] = o.ctx
  <1>1. local \in [Calls -> ContextType \cup {NoContext}]
    BY DEF KeptInv, TypeOK
  <1> QED BY <1>1 DEF Wrap

LEMMA ApprovedStep ==
  ASSUME AskingStages, KeptInv, NEW d \in Calls, NEW c \in Calls,
         ClaudeStep(d) \/ OpenAIStep(d) \/ LangGraphStep(d) \/ PydanticStep(d),
         StartsDeciding(c), NeedsApproval(c, local'[c])
  PROVE  MayRun(c)
  <1>1. /\ Via[c] # "claude" /\ local[c] = NoContext /\ local'[c] # NoContext
        /\ CallInv(c) /\ Bounded(session) /\ local \in [Calls -> ContextType \cup {NoContext}]
    BY DEF StartsDeciding, KeptInv, TypeOK
  <1>2. d = c /\ \/ Invoke(c) \/ WrapToolCall(c) \/ Replay(c) \/ CallTool(c) \/ CallToolApproved(c)
    <2>1. CASE ClaudeStep(d)
      <3>1. local' = local
        BY <2>1 DEF ClaudeStep, PreToolUse, CanUseTool, PostToolUse, PostToolUseRaises,
                    PostToolUseFailure, AbortRun
      <3> QED BY <1>1, <3>1
    <2>2. CASE OpenAIStep(d)
      <3>1. \/ local' = local \/ local' = [local EXCEPT ![d] = NoContext] \/ Invoke(d)
        BY <2>2 DEF OpenAIStep, PlanCall, ResolveInterruption, ToolReturned, WrapperReturns,
                    InvokeAfterRaises, WrapperAfterRaises, ToolRaised
      <3>2. Invoke(d) => local' = local \/ \E y : local' = [local EXCEPT ![d] = y]
        BY DEF Invoke, Wrap
      <3> QED BY <1>1, <3>1, <3>2
    <2>3. CASE LangGraphStep(d)
      <3>1. \/ local' = local \/ local' = [local EXCEPT ![d] = NoContext]
            \/ WrapToolCall(d) \/ Replay(d)
        BY <2>3 DEF LangGraphStep, ResumeGraph, ToolMessage, WrapperReturns, CommandReturned, FinishRaises, WrapperAfterRaises,
                    ExecuteRaised, WrapperRaises
      <3>2. WrapToolCall(d) \/ Replay(d) => local' = local \/ \E y : local' = [local EXCEPT ![d] = y]
        BY DEF WrapToolCall, Replay, Wrap
      <3> QED BY <1>1, <3>1, <3>2
    <2>4. CASE PydanticStep(d)
      <3>1. \/ local' = local \/ local' = [local EXCEPT ![d] = NoContext]
            \/ CallTool(d) \/ CallToolApproved(d)
        BY <2>4 DEF PydanticStep, ResolveDeferred, WrappedReturned, WrapperReturns,
                    CallToolAfterRaises, WrapperAfterRaises, WrappedRaised, WrapperRaises
      <3>2. CallTool(d) \/ CallToolApproved(d) => local' = local \/ \E y : local' = [local EXCEPT ![d] = y]
        BY DEF CallTool, CallToolApproved, Wrap
      <3> QED BY <1>1, <3>1, <3>2
    <2> QED BY <2>1, <2>2, <2>3, <2>4
  <1>3. <<c, "first">> \in ApprovalIds /\ <<c, "replay">> \in ApprovalIds
    BY CallFacts
  <1>4. CASE Invoke(c)
    <2>1. CASE Entries("openai", c) = {}
      <3>1. PICK o \in BeforeOutcomes(session, NewContext(Call[c]), <<c, "replay">>) :
               Wrap(c, o, Call[c].args)
        BY <1>4, <2>1 DEF Invoke, InvokeOutcomes
      <3> QED BY <1>1, <1>3, <3>1, WrapStarts, PassedApproved
    <2>2. CASE Entries("openai", c) # {}
      <3>1. shown[c] # {} /\ Via[c] = "openai"
        BY <1>4, <2>2 DEF StartsDeciding, Invoke, OpenAI
      <3>2. answer[c] = "yes"
        BY <1>1, <1>4, <3>1 DEF CallInv, Invoke
      <3> QED BY <3>2 DEF MayRun
    <2> QED BY <2>1, <2>2
  <1>5. CASE WrapToolCall(c)
    <2>1. PICK o \in BeforeOutcomes(session, NewContext(Call[c]), <<c, "first">>) :
             IF o.decision = "require_approval" THEN local' = local ELSE Wrap(c, o, Call[c].args)
      BY <1>5 DEF WrapToolCall
    <2>2. Wrap(c, o, Call[c].args)
      BY <1>1, <2>1
    <2> QED BY <1>1, <1>3, <2>2, WrapStarts, PassedApproved
  <1>6. CASE Replay(c)
    <2>1. PICK o \in BeforeOutcomes(session, NewContext(Call[c]), <<c, "replay">>) :
             IF o.decision # "require_approval" THEN Wrap(c, o, Call[c].args)
             ELSE AnsweredYes(c) \/ local' = local
      BY <1>6 DEF Replay
    <2>2. Wrap(c, o, Call[c].args) \/ answer[c] = "yes"
      BY <1>1, <2>1 DEF AnsweredYes
    <2> QED BY <1>1, <1>3, <2>2, WrapStarts, PassedApproved DEF MayRun
  <1>7. CASE CallTool(c)
    <2>1. PICK o \in BeforeOutcomes(session, NewContext(Call[c]), <<c, "first">>) :
             IF o.decision = "require_approval" THEN local' = local ELSE Wrap(c, o, Call[c].args)
      BY <1>7 DEF CallTool
    <2>2. Wrap(c, o, Call[c].args)
      BY <1>1, <2>1
    <2> QED BY <1>1, <1>3, <2>2, WrapStarts, PassedApproved
  <1>8. CASE CallToolApproved(c)
    BY <1>1, <1>8 DEF CallInv, CallToolApproved, Pydantic, MayRun
  <1> QED BY <1>2, <1>4, <1>5, <1>6, <1>7, <1>8

\* With the stages that ask in place, and the policy before the others, no wrapper
\* that decides and starts a tool in one go starts one that needs an approval, unless
\* the host said yes to the call or a human granted its key: a resumed graph, an
\* approved re-entry, an invoked plan or an evicted one is no way around it.
THEOREM AdaptersAskFirst == ASSUME AskingStages PROVE Spec => NeverRunsUnapproved
  <1>1. KeptInv /\ [Next]_vars =>
          [\A c \in Calls :
              /\ Via[c] # "claude" /\ local[c] = NoContext /\ local'[c] # NoContext
              /\ Entries("openai", c) = {} \/ shown[c] # {}
              /\ NeedsApproval(c, local'[c])
              => answer[c] = "yes" \/ Approved(session, local'[c])]_vars
    <2> SUFFICES ASSUME KeptInv, [Next]_vars, NEW c \in Calls, StartsDeciding(c),
                        NeedsApproval(c, local'[c])
                 PROVE  MayRun(c)
      BY DEF StartsDeciding, MayRun
    <2>1. local' # local
      BY DEF StartsDeciding
    <2>2. PICK d \in Calls : ClaudeStep(d) \/ OpenAIStep(d) \/ LangGraphStep(d) \/ PydanticStep(d)
      BY <2>1 DEF Next, GrantApprovalById, ClearTaint, Quiet, vars
    <2> QED BY <2>2, ApprovedStep
  <1>2. KeptInv /\ [Next]_vars => KeptInv'
    BY KeptInductive
  <1> QED BY <1>1, <1>2, KeptInitially, PTL DEF Spec, NeverRunsUnapproved
=============================================================================
