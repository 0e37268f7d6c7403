----------------------------- MODULE ClaudeHooks ----------------------------
(***************************************************************************)
(* The Claude Agent SDK adapter (adapters/claude_agent_sdk.py): hooks      *)
(* before and after the tool, related by the tool_use_id through a bounded *)
(* dictionary.  Between them the SDK runs the tool, and asks the host when *)
(* the answer was "ask".                                                   *)
(***************************************************************************)
EXTENDS AdapterState

Claude(c) == Via[c] = "claude"

\* A hook may come without a tool_use_id: then the context is not remembered.
PreToolUse(c) ==
    /\ Claude(c) /\ sdk[c] = "new"
    /\ \E o \in BeforeOutcomes(session, NewContext(Call[c]), <<c, "first">>) :
          /\ \/ UNCHANGED inflight
             \/ o.decision # "deny" /\ Remember("claude", c, o)
          /\ IF o.decision = "require_approval"
               THEN Ask(c, o) /\ UNCHANGED ran
               ELSE /\ session' = o.session
                    /\ Becomes(c, IF o.decision = "deny" THEN "blocked" ELSE "running")
                    /\ ran' = IF o.decision = "deny" THEN ran
                              ELSE [ran EXCEPT ![c] = Payload(o, Call[c].args)]
                    /\ UNCHANGED shown
    /\ UNCHANGED <<local, answer>>

\* can_use_tool: the SDK runs the tool with the arguments the model gave.
CanUseTool(c) ==
    /\ Claude(c) /\ sdk[c] = "asked"
    /\ \/ /\ Becomes(c, "running")
          /\ answer' = [answer EXCEPT ![c] = "yes"]
          /\ ran' = [ran EXCEPT ![c] = Call[c].args]
       \/ /\ Becomes(c, "rejected")
          /\ answer' = [answer EXCEPT ![c] = "no"]
          /\ UNCHANGED ran
    /\ UNCHANGED <<session, inflight, local, shown>>

\* The session and the context after runs on: the context of the Pre hook, for
\* which a host's yes is a reservation, or a context built anew.
PostContext(c) ==
    IF Entries("claude", c) = {}
      THEN <<session, [NewContext(Call[c]) EXCEPT !.args = ran[c]]>>
      ELSE LET e == CHOOSE e \in Entries("claude", c) : TRUE
           IN  IF e.decision = "require_approval" THEN Reserve(session, e.ctx)
                                                  ELSE <<session, e.ctx>>

\* Mutant: a call the adapter does not remember is not accounted for.
PostToolUseKnown(c) ==
    /\ Claude(c) /\ sdk[c] = "running"
    /\ IF Entries("claude", c) = {} THEN UNCHANGED session
       ELSE \E s \in AfterOutcomes(PostContext(c)[1], PostContext(c)[2]) : session' = s
    /\ Forget("claude", c)
    /\ Becomes(c, "done")
    /\ UNCHANGED <<local, answer, shown, ran>>

PostToolUse(c) ==
    /\ Claude(c) /\ sdk[c] = "running"
    /\ \E s \in AfterOutcomes(PostContext(c)[1], PostContext(c)[2]) : session' = s
    /\ Forget("claude", c)
    /\ Becomes(c, "done")
    /\ UNCHANGED <<local, answer, shown, ran>>

\* An after hook raises what is no GatewayError: the context was popped already, and
\* what a host's yes reserved just now stays reserved.
PostToolUseRaises(c) ==
    /\ Claude(c) /\ sdk[c] = "running"
    /\ \E s \in AfterRaised(PostContext(c)[1], PostContext(c)[2]) : session' = s
    /\ Forget("claude", c)
    /\ Becomes(c, "uncharged")
    /\ UNCHANGED <<local, answer, shown, ran>>

PostToolUseFailure(c) ==
    /\ Claude(c) /\ sdk[c] = "running"
    /\ \/ Entries("claude", c) = {} /\ UNCHANGED session
       \/ \E e \in Entries("claude", c) : session' = Release(session, e.ctx)[1]
    /\ Forget("claude", c)
    /\ Becomes(c, "failed")
    /\ UNCHANGED <<local, answer, shown, ran>>

\* The run is aborted: no Post hook follows.
AbortRun(c) ==
    /\ Claude(c) /\ sdk[c] \in {"asked", "running"}
    /\ Becomes(c, "lost")
    /\ UNCHANGED <<session, inflight, local, answer, shown, ran>>

ClaudeStep(c) == PreToolUse(c) \/ CanUseTool(c) \/ PostToolUse(c)
                    \/ PostToolUseRaises(c) \/ PostToolUseFailure(c) \/ AbortRun(c)
=============================================================================
