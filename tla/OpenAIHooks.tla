----------------------------- MODULE OpenAIHooks ----------------------------
(***************************************************************************)
(* The OpenAI Agents SDK adapter (adapters/openai_agents.py): before runs  *)
(* when the SDK plans the call and asks needs_approval; the decision waits *)
(* in a bounded dictionary until the SDK invokes the tool.                 *)
(***************************************************************************)
EXTENDS AdapterState

OpenAI(c) == Via[c] = "openai"

\* Planning, with the tool's own needs_approval on top of the gateway's.
PlanCall(c) ==
    /\ OpenAI(c) /\ sdk[c] = "new"
    /\ \E o \in BeforeOutcomes(session, NewContext(Call[c]), <<c, "first">>) :
          /\ Remember("openai", c, o)
          /\ IF o.decision = "require_approval" \/ c \in UserNeeds
               THEN Ask(c, o)
               ELSE session' = o.session /\ Becomes(c, "planned") /\ UNCHANGED shown
    /\ UNCHANGED <<local, answer, ran>>

\* RunState.approve and RunState.reject; a rejected call is never invoked.
ResolveInterruption(c) ==
    /\ OpenAI(c) /\ sdk[c] = "asked"
    /\ \/ Becomes(c, "planned") /\ answer' = [answer EXCEPT ![c] = "yes"]
       \/ Becomes(c, "rejected") /\ answer' = [answer EXCEPT ![c] = "no"]
    /\ UNCHANGED <<session, inflight, local, shown, ran>>

\* Mutant: the approved call is not evaluated again.
InvokeOutcomesTrusting(c) ==
    IF Entries("openai", c) = {}
      THEN BeforeOutcomes(session, NewContext(Call[c]), <<c, "replay">>)
      ELSE {IF e.decision = "require_approval"
              THEN [session |-> Reserve(session, e.ctx)[1],
                    ctx |-> Reserve(session, e.ctx)[2], decision |-> "allow"]
              ELSE [session |-> session, ctx |-> e.ctx, decision |-> e.decision] :
                e \in Entries("openai", c)}

\* What invoke decides: inline when nothing is remembered, again when the host
\* approved, otherwise what was decided when the call was planned.
InvokeOutcomes(c) ==
    IF Entries("openai", c) = {}
      THEN BeforeOutcomes(session, NewContext(Call[c]), <<c, "replay">>)
      ELSE UNION {IF e.decision = "require_approval"
                    THEN BeforeApproved(session, e.ctx, <<c, "approved">>)
                    ELSE {[session |-> session, ctx |-> e.ctx, decision |-> e.decision]} :
                      e \in Entries("openai", c)}

\* on_invoke_tool, after planning or directly.
Invoke(c) ==
    /\ OpenAI(c) /\ sdk[c] \in {"new", "planned"}
    /\ \E o \in InvokeOutcomes(c) : Wrap(c, o, Call[c].args)
    /\ Forget("openai", c)
    /\ UNCHANGED <<answer, shown>>

ToolReturned(c) == OpenAI(c) /\ WrapperReturns(c)
InvokeAfterRaises(c) == OpenAI(c) /\ WrapperAfterRaises(c)

\* original_invoke raises: nothing catches it here.
ToolRaised(c) ==
    /\ OpenAI(c) /\ sdk[c] = "running"
    /\ Becomes(c, "failed")
    /\ local' = [local EXCEPT ![c] = NoContext]
    /\ UNCHANGED <<session, inflight, answer, shown, ran>>

OpenAIStep(c) == PlanCall(c) \/ ResolveInterruption(c) \/ Invoke(c)
                    \/ ToolReturned(c) \/ InvokeAfterRaises(c) \/ ToolRaised(c)
=============================================================================
