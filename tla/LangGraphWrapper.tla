-------------------------- MODULE LangGraphWrapper --------------------------
(***************************************************************************)
(* The LangGraph adapter (adapters/langgraph.py): one wrapper around the   *)
(* tool.  interrupt() ends it the first time; when the graph resumes it    *)
(* runs again from its beginning, with a new context, and interrupt()      *)
(* returns the host's answer.                                              *)
(***************************************************************************)
EXTENDS AdapterState

LangGraph(c) == Via[c] = "langgraph"

WrapToolCall(c) ==
    /\ LangGraph(c) /\ sdk[c] = "new"
    /\ \E o \in BeforeOutcomes(session, NewContext(Call[c]), <<c, "first">>) :
          IF o.decision = "require_approval"
            THEN Ask(c, o) /\ UNCHANGED <<local, ran>>
            ELSE Wrap(c, o, Call[c].args) /\ UNCHANGED shown
    /\ UNCHANGED <<inflight, answer>>

\* Command(resume=...).
ResumeGraph(c) ==
    /\ LangGraph(c) /\ sdk[c] = "asked"
    /\ \E a \in {"yes", "no"} : answer' = [answer EXCEPT ![c] = a]
    /\ Becomes(c, "resumed")
    /\ UNCHANGED <<session, inflight, local, shown, ran>>

\* Mutant: any answer approves.
AnsweredYesAlways(c) == answer[c] # "none"
AnsweredYes(c) == answer[c] = "yes"

\* The wrapper from its beginning.  The answer is read only if before asks
\* again; an approved call is evaluated once more, on the same context.
Replay(c) ==
    /\ LangGraph(c) /\ sdk[c] = "resumed"
    /\ \E o \in BeforeOutcomes(session, NewContext(Call[c]), <<c, "replay">>) :
          IF o.decision # "require_approval"
            THEN Wrap(c, o, Call[c].args)
          ELSE IF AnsweredYes(c)
            THEN \E p \in BeforeApproved(o.session, o.ctx, <<c, "approved">>) :
                    Wrap(c, p, Call[c].args)
            ELSE session' = o.session /\ Becomes(c, "rejected") /\ UNCHANGED <<local, ran>>
    /\ UNCHANGED <<inflight, answer, shown>>

\* _finish of a ToolMessage.
ToolMessage(c) == LangGraph(c) /\ WrapperReturns(c)
FinishRaises(c) == LangGraph(c) /\ WrapperAfterRaises(c)

\* Mutant: a Command costs nothing.
CommandFree(c) ==
    /\ LangGraph(c) /\ sdk[c] = "running"
    /\ session' = Release(session, local[c])[1]
    /\ Becomes(c, "done")
    /\ local' = [local EXCEPT ![c] = NoContext]
    /\ UNCHANGED <<inflight, answer, shown, ran>>

\* The tool returned a Command: settled, and passed through.
CommandReturned(c) ==
    /\ LangGraph(c) /\ sdk[c] = "running"
    /\ session' = Settle(session, local[c])[1]
    /\ Becomes(c, "done")
    /\ local' = [local EXCEPT ![c] = NoContext]
    /\ UNCHANGED <<inflight, answer, shown, ran>>

ExecuteRaised(c) == LangGraph(c) /\ WrapperRaises(c)

LangGraphStep(c) == WrapToolCall(c) \/ ResumeGraph(c) \/ Replay(c)
                       \/ ToolMessage(c) \/ FinishRaises(c) \/ CommandReturned(c)
                       \/ ExecuteRaised(c)
=============================================================================
