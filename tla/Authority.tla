----------------------------- MODULE Authority ------------------------------
(***************************************************************************)
(* What a call may do before any session state comes in: the composition   *)
(* of the registry, the rules and the delegated agents with the stages of  *)
(* GatewayState that ask for a manifest, a policy decision and the scopes  *)
(* and depth of the agent.  The host changes all three while the gateway   *)
(* runs: it registers and reloads tools, adds rules, and spawns agents.    *)
(***************************************************************************)
EXTENDS ToolRegistry, RulePolicy, Delegation

CONSTANTS
    Args, AnyArgs, NoLimit,
    Principal,      \* scopes of the principal
    ApprovalThreshold, DenyThreshold, RequireApprovalWhenTainted, DenyIrreversible,
    MaxRules, MaxDepth      \* bounds on the rules and on the delegation

vars == <<tools, resolvers, rules, history, agent>>

TypeOK == RegistryType /\ PolicyType /\ DelegationType

Init == RegistryInit /\ PolicyInit /\ DelegationInit

HostRegistry ==
    /\ \/ \E n \in Names : \E m \in Explicit[n], replace \in BOOLEAN : Register(n, m, replace)
       \/ \E n \in Names : Explicit[n] # {} /\ tools[n] # Nothing /\ Unregister(n)
       \/ \E first \in BOOLEAN : AddResolver(OperatorOverlay, first)
    /\ UNCHANGED <<policyVars, agent>>

ServerAnnounces ==
    /\ \E announced \in SUBSET Listed : \E hints \in [announced -> Hints] : SwapRegistry(hints)
    /\ UNCHANGED <<policyVars, agent>>

HostPolicy ==
    /\ Len(rules) < MaxRules
    /\ \E r \in Rules : AddRule(r)
    /\ UNCHANGED <<registryVars, agent>>

HostSpawns ==
    /\ Depth(agent) < MaxDepth
    /\ \E requested \in Requests : SpawnAgent(requested) \/ ConstructAgent(requested)
    /\ UNCHANGED <<registryVars, policyVars>>

Next == HostRegistry \/ ServerAnnounces \/ HostPolicy \/ HostSpawns

Spec == Init /\ [][Next]_vars

-----------------------------------------------------------------------------
(* The stages, with what the registry and the policy now say. *)

Resolved == [n \in Names |-> Resolve(n)]
Unannounced == [n \in Names |-> McpDefault]
Ruling == [call \in Names \X Args |->
              IF call \in PolicyCalls THEN Evaluate(rules, call) ELSE "deny"]

With(manifest) == INSTANCE GatewayState WITH
    Tools <- Names, Scopes <- AgentScopes, Manifest <- manifest, Policy <- Ruling,
    SchemaInvalid <- {}, GuardViolation <- {}, Rewrite <- [k \in Names \X Args |-> k[2]],
    Stages <- <<"scope", "policy", "taint", "risk">>, BudgetLimit <- NoLimit,
    MaxRepeats <- 1, RecentMax <- 1, MaxPending <- 1, ApprovalIds <- {}

\* What the host and discovery put into the registry are manifests.
ASSUME AuthorityAssumption ==
    /\ Manifests \subseteq With(Unannounced)!ManifestType
    /\ McpDefault \in Manifests
    /\ \A h \in Hints : ManifestFromMcp(h) \in Manifests
    /\ PolicyCalls \subseteq Names \X Args
    /\ ApprovalThreshold \in Nat /\ DenyThreshold \in Nat

Context(a, call) ==
    [ tool |-> call[1], args |-> call[2], scopes |-> ContextScopes(Principal, a),
      depth |-> Depth(a), reserved |-> 0 ]

\* The sessions a call may find: clean or tainted, and with what was approved.
Sessions(call) ==
    {[tainted |-> t, approvals |-> k] : t \in BOOLEAN, k \in {{}, {call}, {<<call[1], AnyArgs>>}}}

\* No stage blocks the call of agent a in session s.
Admits(manifest, s, a, call) ==
    LET x == Context(a, call)
    IN  /\ With(manifest)!ScopeVerdict(x) = "allow"
        /\ With(manifest)!TaintVerdict(s, x) = "allow"
        /\ With(manifest)!RiskVerdict(s, x) = "allow"
        /\ With(manifest)!PolicyVerdict(s, x) \in {"allow", "transform"}

Known(call) == Resolve(call[1]) # Nothing

-----------------------------------------------------------------------------
(* What the three promise together. *)

\* Authority only attenuates as it is delegated (context.py): what an agent may
\* do, unasked or approved, in a clean or a tainted session, every ancestor of
\* it may do, however its identity was made; depth and scopes never help.
DelegationNeverLoosens ==
    \A a \in Ancestors(agent) : \A call \in PolicyCalls :
        Known(call) => \A s \in Sessions(call) :
            Admits(Resolved, s, agent, call) => Admits(Resolved, s, a, call)

\* An untrusted server gains nothing by announcing a tool, or by what its
\* annotations say: no call is admitted that would not be if discovery had never
\* seen the tool, unless a human pinned the tool's manifest.
AnnouncingGainsNothing ==
    ~Trusted => \A call \in PolicyCalls :
        call[1] \in ServerTools /\ ~Pinned(call[1]) => \A s \in Sessions(call) :
            Admits(Resolved, s, agent, call) => Admits(Unannounced, s, agent, call)

\* Discovered manifests sit below those a human wrote: whatever a server announces
\* or withdraws, a tool whose manifest a human pinned keeps that manifest.
OperatorDecides ==
    [][ServerAnnounces => \A n \in Names : Pinned(n) => Pinned(n)' /\ Resolve(n)' = Resolve(n)]_vars
=============================================================================
