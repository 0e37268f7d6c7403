--------------------------- MODULE PydanticToolset --------------------------
(***************************************************************************)
(* The Pydantic AI adapter (adapters/pydantic_ai.py): call_tool around the *)
(* wrapped toolset.  A question ends the run; an approved call enters      *)
(* call_tool again, with a new context and possibly other arguments.       *)
(***************************************************************************)
EXTENDS AdapterState

Pydantic(c) == Via[c] = "pydantic"

CallTool(c) ==
    /\ Pydantic(c) /\ sdk[c] = "new"
    /\ \E o \in BeforeOutcomes(session, NewContext(Call[c]), <<c, "first">>) :
          IF o.decision = "require_approval"
            THEN Ask(c, o) /\ UNCHANGED <<local, ran>>
            ELSE Wrap(c, o, Call[c].args) /\ UNCHANGED shown
    /\ UNCHANGED <<inflight, answer>>

\* DeferredToolResults: a denied call does not enter the toolset again.
ResolveDeferred(c) ==
    /\ Pydantic(c) /\ sdk[c] = "asked"
    /\ \/ Becomes(c, "resumed") /\ answer' = [answer EXCEPT ![c] = "yes"]
       \/ Becomes(c, "rejected") /\ answer' = [answer EXCEPT ![c] = "no"]
    /\ UNCHANGED <<session, inflight, local, shown, ran>>

\* The approved re-entry, with the arguments as they were or overridden.
CallToolApproved(c) ==
    /\ Pydantic(c) /\ sdk[c] = "resumed"
    /\ \E given \in {Call[c].args} \cup Overrides :
       LET x == [NewContext(Call[c]) EXCEPT !.args = given]
       IN  /\ \E o \in BeforeApproved(session, x, <<c, "approved">>) : Wrap(c, o, given)
           /\ shown' = [shown EXCEPT ![c] = @ \cup {ApprovalKey(x)}]
    /\ UNCHANGED <<inflight, answer>>

WrappedReturned(c) == Pydantic(c) /\ WrapperReturns(c)
CallToolAfterRaises(c) == Pydantic(c) /\ WrapperAfterRaises(c)
WrappedRaised(c) == Pydantic(c) /\ WrapperRaises(c)

PydanticStep(c) == CallTool(c) \/ ResolveDeferred(c) \/ CallToolApproved(c)
                      \/ WrappedReturned(c) \/ CallToolAfterRaises(c) \/ WrappedRaised(c)
=============================================================================
