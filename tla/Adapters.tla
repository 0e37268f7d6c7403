------------------------------ MODULE Adapters ------------------------------
(***************************************************************************)
(* The four adapters on one session: calls of several frameworks whose     *)
(* hooks, wrappers and hosts interleave, and the human who answers         *)
(* questions by their id and clears the taint.                             *)
(***************************************************************************)
EXTENDS ClaudeHooks, OpenAIHooks, LangGraphWrapper, PydanticToolset

\* grant_approval_by_id, for an id that is known.
GrantApprovalById ==
    /\ \E i \in DOMAIN session.pending : session' = RedeemPending(session, i)
    /\ UNCHANGED <<inflight, local, sdk, answer, shown, ran>>

ClearTaint ==
    /\ session.tainted
    /\ session' = [session EXCEPT !.tainted = FALSE]
    /\ UNCHANGED <<inflight, local, sdk, answer, shown, ran>>

Quiet == (\A c \in Calls : sdk[c] \in Over) /\ UNCHANGED vars

Next ==
    \/ \E c \in Calls : ClaudeStep(c) \/ OpenAIStep(c) \/ LangGraphStep(c) \/ PydanticStep(c)
    \/ GrantApprovalById
    \/ ClearTaint
    \/ Quiet

Spec == Init /\ [][Next]_vars

-----------------------------------------------------------------------------
(* What the adapters promise. *)

CostOf(c) == Manifest[Call[c].tool].cost_usd

\* The contexts an adapter can still settle or release, and their money.
Kept(c) == {e.ctx : e \in Entries("claude", c) \cup Entries("openai", c)}
              \cup ({local[c]} \ {NoContext})
HeldCents == UNION {UNION {{c} \X (1..x.reserved) : x \in Kept(c)} : c \in Calls}

\* No adapter gives back money that a call still holds, though a context may be
\* found by its id, be evicted, or be built anew: what the session reserves
\* covers every context that can still be settled or released.
HeldIsReserved == session.reserved >= Cardinality(HeldCents)

\* Where a wrapper drops a context without settling or releasing it: an after hook
\* raises what is no GatewayError, or, in the OpenAI wrapper alone, the tool raises.
LostByWrapper(c) ==
    \/ Via[c] # "claude" /\ sdk[c] = "uncharged"
    \/ Via[c] = "openai" /\ sdk[c] = "failed"

\* Around a wrapped tool, and while no dictionary evicts a plan, money is held from
\* the decision to the end of the call and by nothing else, across interrupts,
\* replays, re-entries and failures; a wrapper leaves a reservation behind on the two
\* ways out of LostByWrapper, and then all of it and for good.
MoneyIsHeld ==
    session.reserved = Cardinality(HeldCents \cup
        UNION {{c} \X (1..CostOf(c)) : c \in {d \in Calls : LostByWrapper(d)}})

\* Every call for which after came to its end, under any adapter, is charged once:
\* with the context of its decision, one the host approved, or one built anew
\* because the dictionary forgot it.  Nothing else is charged: no tool that failed,
\* and none whose after hook raised what is no GatewayError.
SpendIsCharged ==
    session.used = Cardinality(UNION {{c} \X (1..CostOf(c)) :
                                        c \in {d \in Calls : sdk[d] = "done"}})

\* The per-session cost ceiling of BudgetStage, whichever framework runs the
\* calls, and also for calls approved while the budget was being used up.
BudgetNeverOvershoots ==
    BudgetLimit # NoLimit => session.used + session.reserved <= BudgetLimit

\* Whether the stages want somebody's approval of call c now.
NeedsApproval(c, x) ==
    \/ Policy[<<Call[c].tool, Call[c].args>>] = "require_approval"
    \/ TaintGates(session, x) /\ RequireApprovalWhenTainted
    \/ RiskScore(session, x) >= ApprovalThreshold

\* A wrapper that decides and starts the tool in one go starts one that needs
\* an approval only if the host said yes to this call, or a human granted its
\* key: a resumed graph, a re-entry or an evicted plan is no way around it.
NeverRunsUnapproved ==
    [][\A c \in Calls :
          /\ Via[c] # "claude" /\ local[c] = NoContext /\ local'[c] # NoContext
          /\ Entries("openai", c) = {} \/ shown[c] # {}
          /\ NeedsApproval(c, local'[c])
          => answer[c] = "yes" \/ Approved(session, local'[c])]_vars

\* What the host approved is what runs: the arguments of the tool are those the
\* question was about, rewritten or not.
ApprovedArgumentsRun ==
    \A c \in Calls : answer[c] = "yes" /\ ran[c] # NoArgs
                        => <<Call[c].tool, ran[c]>> \in shown[c]
=============================================================================
