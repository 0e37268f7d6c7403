---------------------------- MODULE ToolRegistry ----------------------------
(***************************************************************************)
(* The tool registry (registry.py) and the manifests discovery puts into   *)
(* it (discovery/mcp.py).  A resolver is what the code calls one: a        *)
(* function from a tool name to a manifest, or to nothing.  A glob is the  *)
(* set of names it matches.  by records who wrote a resolver's data.       *)
(***************************************************************************)
EXTENDS Integers, Sequences, SequencesExt

CONSTANTS
    Names,          \* tool names
    Manifests,      \* the manifests considered
    Nothing,        \* None: fall through to the next layer
    Registered,     \* Names -> the manifest the registry is built with, or Nothing
    Explicit,       \* Names -> the manifests a human may register by hand
    Overlay,        \* the operator's globs, in order: sequence of <<names, template>>
    ServerTools,    \* names in the namespace of the MCP server
    Listed,         \* those it may announce in tools/list
    ServerScopes,   \* required_scopes of its manifests
    Trusted,        \* trusted=True
    Default         \* the registry's default manifest, or Nothing

VARIABLES tools, resolvers

registryVars == <<tools, resolvers>>

Writers == {"operator", "server", "fallback"}

\* MCP annotations; an absent one counts as its default of the MCP specification.
Hints == [readOnly : BOOLEAN, destructive : BOOLEAN, openWorld : BOOLEAN]
DefaultHints == [readOnly |-> FALSE, destructive |-> TRUE, openWorld |-> TRUE]

ASSUME RegistryAssumption ==
    /\ Nothing \notin Manifests
    /\ Registered \in [Names -> Manifests \cup {Nothing}]
    /\ \A n \in Names : Explicit[n] \subseteq Manifests
    /\ \A i \in DOMAIN Overlay : Overlay[i][1] \subseteq Names /\ Overlay[i][2] \in Manifests
    /\ ServerTools \subseteq Names /\ Listed \subseteq ServerTools
    /\ Trusted \in BOOLEAN
    /\ Default \in Manifests \cup {Nothing}

-----------------------------------------------------------------------------
(* discovery/mcp.py. *)

SideEffectOf(h) == IF h.readOnly THEN "read"
                   ELSE IF h.destructive THEN "irreversible" ELSE "write"
TierFor == [read |-> 1, write |-> 2, irreversible |-> 3]
High == 3
AtLeast(tier, low) == IF tier < low THEN low ELSE tier

\* The fields MCP says nothing of keep their defaults.
FromServer(effect, tier, untrusted) ==
    [ cost_usd |-> 0, side_effect |-> effect, risk_tier |-> tier,
      required_scopes |-> ServerScopes, reaches_untrusted |-> untrusted,
      output_classification |-> "internal", timeout_s |-> TRUE ]

\* Mutant: an untrusted server may call its tool read-only.
ManifestFromMcpUnclamped(h) ==
    LET e == SideEffectOf(h) IN FromServer(e, TierFor[e], h.openWorld)

\* What a server declares, and what an untrusted one is clamped to.
ManifestFromMcp(h) ==
    LET e == SideEffectOf(h)
    IN  IF Trusted THEN FromServer(e, TierFor[e], h.openWorld)
        ELSE FromServer(IF e = "read" THEN "write" ELSE e, AtLeast(TierFor[e], High), TRUE)

McpDefault == FromServer("write", High, TRUE)

-----------------------------------------------------------------------------
(* Resolvers. *)

\* lookup: an exact-name table.
Lookup(table) == [n \in Names |-> IF n \in DOMAIN table THEN table[n] ELSE Nothing]

\* glob_overlay: the first pattern that matches.
GlobOverlay(rules) ==
    [n \in Names |-> LET i == SelectInSeq(rules, LAMBDA r : n \in r[1])
                     IN  IF i = 0 THEN Nothing ELSE rules[i][2]]

OperatorOverlay == [by |-> "operator", map |-> GlobOverlay(Overlay)]
\* The server's tools/list, with annotations hints for the tools it announces.
Discovered(hints) ==
    [by |-> "server", map |-> Lookup([n \in DOMAIN hints |-> ManifestFromMcp(hints[n])])]
NamespaceDefault == [by |-> "fallback", map |-> GlobOverlay(<< <<ServerTools, McpDefault>> >>)]

\* The first of the layers that says anything of n, or 0.
FirstWord(layers, n) == SelectInSeq(layers, LAMBDA r : r.map[n] # Nothing)
Layer(n) == FirstWord(resolvers, n)

\* Mutant: discovered manifests come before those registered by hand.
ResolveDiscoveredFirst(n) ==
    LET i == Layer(n)
    IN  IF i # 0 THEN resolvers[i].map[n]
        ELSE IF tools[n] # Nothing THEN tools[n] ELSE Default

\* Nothing: ToolNotRegistered is raised.
Resolve(n) ==
    LET i == Layer(n)
    IN  IF tools[n] # Nothing THEN tools[n]
        ELSE IF i # 0 THEN resolvers[i].map[n] ELSE Default

\* Resolve only consults what a human wrote.
Pinned(n) == tools[n] # Nothing \/ (Layer(n) # 0 /\ resolvers[Layer(n)].by = "operator")

-----------------------------------------------------------------------------
(* Operations.  A registry is built with the discovered manifests above the  *)
(* default of their namespace; the overlay may come with it or later.        *)

RegistryType ==
    /\ tools \in [Names -> Manifests \cup {Nothing}]
    /\ resolvers \in Seq([by : Writers, map : [Names -> Manifests \cup {Nothing}]])

RegistryInit ==
    /\ tools = Registered
    /\ resolvers = <<Discovered(<<>>), NamespaceDefault>>

\* register: a name that is taken needs replace=True.
Register(n, m, replace) ==
    /\ tools[n] = Nothing \/ replace
    /\ tools' = [tools EXCEPT ![n] = m]
    /\ UNCHANGED resolvers

Unregister(n) ==
    /\ tools' = [tools EXCEPT ![n] = Nothing]
    /\ UNCHANGED resolvers

AddResolver(r, first) ==
    /\ \A i \in DOMAIN resolvers : resolvers[i].by # r.by
    /\ resolvers' = IF first THEN <<r>> \o resolvers ELSE Append(resolvers, r)
    /\ UNCHANGED tools

\* tools/list_changed: the host discovers again, and swaps the registry for one
\* with the same layers.
SwapRegistry(hints) ==
    /\ resolvers' = [i \in DOMAIN resolvers |->
                        IF resolvers[i].by = "server" THEN Discovered(hints) ELSE resolvers[i]]
    /\ UNCHANGED tools
=============================================================================
