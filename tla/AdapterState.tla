---------------------------- MODULE AdapterState ----------------------------
(***************************************************************************)
(* What the framework adapters share: the session, the contexts they keep, *)
(* and the pipeline as they call it, in one step (GatewayStep).  What      *)
(* interleaves is what the frameworks do between the hooks.                *)
(***************************************************************************)
EXTENDS GatewayStep

CONSTANTS
    Calls,          \* tool calls the models issue in this session
    Call,           \* Calls -> tool, arguments, scopes, depth
    Via,            \* Calls -> the framework that runs the call
    UserNeeds,      \* calls of tools whose own needs_approval says yes
    Overrides,      \* arguments a host may put in place of the approved ones
    MaxInflight,    \* max_inflight of the hook adapters
    NoArgs, NoContext

Frameworks   == {"claude", "openai", "langgraph", "pydantic"}
HookAdapters == {"claude", "openai"}

ASSUME AdapterAssumption ==
    /\ Call \in [Calls -> CallType]
    /\ Via \in [Calls -> Frameworks]
    /\ UserNeeds \subseteq Calls
    /\ Overrides \subseteq Args
    /\ MaxInflight \in Nat \ {0}
    /\ NoArgs \notin Args /\ NoContext \notin ContextType
    /\ ApprovalIds = Calls \X {"first", "replay", "approved"}

VARIABLES
    session,    \* the SessionState all calls share
    inflight,   \* the _inflight dictionaries of the hook adapters, oldest first
    local,      \* the context a wrapper keeps while it awaits the tool
    sdk,        \* how far the framework is with each call
    answer,     \* what the host answered when asked about the call
    shown,      \* keys of the arguments the host was asked about or set, history
    ran         \* the arguments the tool was started with, history

vars == <<session, inflight, local, sdk, answer, shown, ran>>

Progress == {"new", "planned", "asked", "resumed", "running",
             "done", "uncharged", "failed", "blocked", "rejected", "lost"}
\* uncharged: the tool ran to its end, and after was left half-way.
Over == {"done", "uncharged", "failed", "blocked", "rejected", "lost"}

EntryType == [call : Calls, ctx : ContextType, decision : Decisions]

TypeOK ==
    /\ session \in SessionType
    /\ Len(session.recent) <= RecentMax /\ Len(session.pending) <= MaxPending
    /\ inflight \in [HookAdapters -> Seq(EntryType)]
    /\ \A a \in HookAdapters : Len(inflight[a]) <= MaxInflight
    /\ local \in [Calls -> ContextType \cup {NoContext}]
    /\ sdk \in [Calls -> Progress]
    /\ answer \in [Calls -> {"none", "yes", "no"}]
    /\ shown \in [Calls -> SUBSET Keys]
    /\ ran \in [Calls -> Args \cup {NoArgs}]

Init ==
    /\ session = NewSession
    /\ inflight = [a \in HookAdapters |-> <<>>]
    /\ local = [c \in Calls |-> NoContext]
    /\ sdk = [c \in Calls |-> "new"]
    /\ answer = [c \in Calls |-> "none"]
    /\ shown = [c \in Calls |-> {}]
    /\ ran = [c \in Calls |-> NoArgs]

-----------------------------------------------------------------------------
(* The dictionaries of the hook adapters, and the steps adapters share. *)

\* Mutant: nothing is popped from the dictionary.
RememberAll(a, c, o) ==
    inflight' = [inflight EXCEPT ![a] =
        Append(@, [call |-> c, ctx |-> o.ctx, decision |-> o.decision])]

\* _remember: insert, and pop the oldest while there are too many.
Remember(a, c, o) ==
    LET full == Len(inflight[a]) = MaxInflight
    IN  inflight' = [inflight EXCEPT ![a] =
            Append(IF full THEN Tail(@) ELSE @,
                   [call |-> c, ctx |-> o.ctx, decision |-> o.decision])]

Entries(a, c) == {inflight[a][i] : i \in {j \in DOMAIN inflight[a] : inflight[a][j].call = c}}
\* Mutant: get instead of pop.
ForgetNothing(a, c) == UNCHANGED inflight
\* pop(tool_use_id, None) and pop(call_id, None); an id is a key at most once.
Forget(a, c) ==
    IF Entries(a, c) = {} THEN UNCHANGED inflight
    ELSE LET i == CHOOSE i \in DOMAIN inflight[a] : inflight[a][i].call = c
         IN  inflight' = [inflight EXCEPT ![a] = SubSeq(@, 1, i - 1) \o SubSeq(@, i + 1, Len(@))]

Becomes(c, p) == sdk' = [sdk EXCEPT ![c] = p]

\* Payload of an allowed call: only a TRANSFORM replaces what was given.
Payload(o, given) == IF o.decision = "transform" THEN o.ctx.args ELSE given

\* A wrapper acts on the outcome of before: it returns the error, or awaits the
\* tool with its payload and keeps the context.
Wrap(c, o, given) ==
    /\ session' = o.session
    /\ IF Blocked(o.decision)
         THEN Becomes(c, "blocked") /\ UNCHANGED <<local, ran>>
         ELSE /\ Becomes(c, "running")
              /\ local' = [local EXCEPT ![c] = o.ctx]
              /\ ran' = [ran EXCEPT ![c] = Payload(o, given)]

\* A question reaches the host, with the arguments the stages saw.
Ask(c, o) ==
    /\ session' = o.session
    /\ Becomes(c, "asked")
    /\ shown' = [shown EXCEPT ![c] = {ApprovalKey(o.ctx)}]

\* The tool returned to its wrapper: after comes to its end, the context is gone.
WrapperReturns(c) ==
    /\ sdk[c] = "running"
    /\ \E s \in AfterOutcomes(session, local[c]) : session' = s
    /\ Becomes(c, "done")
    /\ local' = [local EXCEPT ![c] = NoContext]
    /\ UNCHANGED <<inflight, answer, shown, ran>>

\* The tool returned to its wrapper, and an after hook raises what is no
\* GatewayError: the wrappers catch nothing else there, and the context is gone.
WrapperAfterRaises(c) ==
    /\ sdk[c] = "running"
    /\ \E s \in AfterRaised(session, local[c]) : session' = s
    /\ Becomes(c, "uncharged")
    /\ local' = [local EXCEPT ![c] = NoContext]
    /\ UNCHANGED <<inflight, answer, shown, ran>>

\* except BaseException of the wrappers: release and raise.
WrapperRaises(c) ==
    /\ sdk[c] = "running"
    /\ session' = Release(session, local[c])[1]
    /\ Becomes(c, "failed")
    /\ local' = [local EXCEPT ![c] = NoContext]
    /\ UNCHANGED <<inflight, answer, shown, ran>>
=============================================================================
