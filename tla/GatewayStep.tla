---------------------------- MODULE GatewayStep -----------------------------
(***************************************************************************)
(* The pipeline in one step: before, before_approved and after of an       *)
(* enforcing gateway (dry_run is FALSE, fail_closed TRUE), as sets of what *)
(* they may leave.  The adapters use them so; Gateway takes the same       *)
(* coroutines apart, with their faults and in the other modes, and says    *)
(* when they amount to this.                                               *)
(***************************************************************************)
EXTENDS GatewayState

Blocked(decision) == decision \in {"deny", "require_approval"}

\* One turn of the for loop: w is the context and the decision so far.
Judge(s, w, st) ==
    IF Blocked(w.decision) THEN {w}
    ELSE {CASE v = "allow"     -> w
            [] v = "transform" -> [ctx |-> [w.ctx EXCEPT !.args = Rewrite[ApprovalKey(w.ctx)]],
                                   decision |-> v]
            [] OTHER           -> [w EXCEPT !.decision = v] : v \in Verdicts(s, w.ctx, st)}

\* What the loop may have come to after each of its turns.
Turns(s, x) ==
    LET upto[i \in 0..Len(Stages)] ==
          IF i = 0 THEN {[ctx |-> x, decision |-> "allow"]}
          ELSE UNION {Judge(s, w, Stages[i]) : w \in upto[i - 1]}
    IN  upto

Walk(s, x) == Turns(s, x)[Len(Stages)]

\* Mutant: the reservation is made for a question, too.
CommitAsked(s, w, id) ==
    LET q == IF w.decision = "require_approval" THEN AddPending(s, id, ApprovalKey(w.ctx)) ELSE s
        r == IF w.decision = "deny" THEN <<q, w.ctx>> ELSE Reserve(q, w.ctx)
    IN  [session |-> r[1], ctx |-> r[2], decision |-> w.decision]

\* The end of before: a question is listed, a call that goes ahead reserves.
Commit(s, w, id) ==
    LET q == IF w.decision = "require_approval" THEN AddPending(s, id, ApprovalKey(w.ctx)) ELSE s
        r == IF Blocked(w.decision) THEN <<q, w.ctx>> ELSE Reserve(q, w.ctx)
    IN  [session |-> r[1], ctx |-> r[2], decision |-> w.decision]

BeforeOutcomes(s, x, id) == {Commit(s, w, id) : w \in Walk(s, x)}

\* before_approved: the key is among the approvals while before runs.
BeforeApproved(s, x, id) ==
    LET added == {ApprovalKey(x)} \ s.approvals
    IN  {[o EXCEPT !.session.approvals = @ \ added] :
            o \in BeforeOutcomes([s EXCEPT !.approvals = @ \cup added], x, id)}

\* The session after the after hooks of the stages from first on have seen the
\* result; they run from the last stage to the first.
Seen(s, x, first) ==
    IF \E i \in first..Len(Stages) : AfterStage(s, x, Stages[i]).tainted
      THEN [s EXCEPT !.tainted = TRUE] ELSE s

\* after comes to its end: the hooks see the result and the call is settled; or an
\* output guard withholds the result before the taint stage, which comes later,
\* sees it.
AfterOutcomes(s, x) ==
    {Settle(Seen(s, x, 1), x)[1]} \cup
    {Settle(s, x)[1] : i \in {j \in DOMAIN Stages : Stages[j] = "guardrails"}}

\* after is left by an exception that is no GatewayError, from the hook of a stage
\* i: those of the later stages have run, and the call is not settled.
AfterRaised(s, x) == {Seen(s, x, i + 1) : i \in DOMAIN Stages}
=============================================================================
