----------------------------- MODULE Delegation -----------------------------
(***************************************************************************)
(* AgentIdentity (context.py).  An identity refers to its parent and never *)
(* changes, so it is its chain: the scopes of the root, of its child, and  *)
(* so on to its own.                                                       *)
(***************************************************************************)
EXTENDS Integers, Sequences

CONSTANTS
    AgentScopes,
    Root,           \* scopes of the agent the session starts with
    Requests        \* sets of scopes that are asked for

ASSUME DelegationAssumption ==
    Root \subseteq AgentScopes /\ Requests \subseteq SUBSET AgentScopes

\* Identities share nothing but their ancestors, so one lineage stands for all.
VARIABLE agent      \* the agent that calls

AgentType == Seq(SUBSET AgentScopes)
DelegationType == agent \in AgentType /\ agent # <<>>

DelegationInit == agent = <<Root>>

Depth(a) == Len(a) - 1

\* Mutant: the constructor is trusted.
OwnScopes(a) == a[Len(a)]

\* The recursion along parent intersects the scopes of the whole chain.
EffectiveScopes(a) == {s \in AgentScopes : \A i \in DOMAIN a : s \in a[i]}

\* spawn(scopes); spawn() requests all that the parent has.
Spawn(a, requested) == Append(a, requested \cap EffectiveScopes(a))

SpawnAgent(requested) == agent' = Spawn(agent, requested)

\* The constructor with a parent and any scopes at all.
ConstructAgent(scopes) == agent' = Append(agent, scopes)

Ancestors(a) == {SubSeq(a, 1, i) : i \in 1..(Len(a) - 1)}

\* ctx.effective_scopes also intersects the principal's.
ContextScopes(principal, a) == principal \cap EffectiveScopes(a)
=============================================================================
