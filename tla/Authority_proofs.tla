-------------------------- MODULE Authority_proofs --------------------------
(***************************************************************************)
(* What a call may do, for every set of tools, manifests and scopes, every *)
(* policy, and every sequence of registrations, announcements, rules and   *)
(* delegations: the registry and the agents, then the rule list and its    *)
(* stable sort, then the policy of the example.                            *)
(***************************************************************************)
EXTENDS CodingAgent, FiniteSetTheorems, SequenceTheorems, WellFoundedInduction, TLAPS

-----------------------------------------------------------------------------
(* What the stages are monotone in. *)

\* The scopes of an identity are among those of each of its ancestors.
LEMMA ScopesAttenuate ==
  ASSUME NEW a \in AgentType, NEW i \in 1..Len(a)
  PROVE  EffectiveScopes(a) \subseteq EffectiveScopes(SubSeq(a, 1, i))
  <1>1. a \in Seq(SUBSET AgentScopes) /\ Len(a) \in Nat
    BY LenProperties DEF AgentType
  <1>2. DOMAIN SubSeq(a, 1, i) = 1..i /\ \A j \in 1..i : SubSeq(a, 1, i)[j] = a[j]
    BY <1>1, SubSeqProperties
  <1>3. 1..i \subseteq DOMAIN a
    BY <1>1, LenProperties
  <1> QED BY <1>2, <1>3 DEF EffectiveScopes

LEMMA SignalTypes ==
  ASSUME NEW f
  PROVE  /\ \A k \in 1..4 : With(f)!TierSignal[k] \in Nat
         /\ \A e \in With(f)!SideEffects : With(f)!SideEffectSignal[e] \in Nat
         /\ With(f)!SideEffectSignal["write"] <= With(f)!SideEffectSignal["irreversible"]
         /\ \A k \in With(f)!Classes : With(f)!ClassSignal[k] \in Nat
  <1>1. ASSUME NEW k \in 1..4 PROVE With(f)!TierSignal[k] \in Nat
    <2>1. k = 1 \/ k = 2 \/ k = 3 \/ k = 4
      OBVIOUS
    <2> QED BY <2>1 DEF With!TierSignal
  <1>2. ASSUME NEW e \in With(f)!SideEffects PROVE With(f)!SideEffectSignal[e] \in Nat
    BY DEF With!SideEffects, With!SideEffectSignal
  <1>3. With(f)!SideEffectSignal["write"] <= With(f)!SideEffectSignal["irreversible"]
    BY DEF With!SideEffectSignal
  <1>4. ASSUME NEW k \in With(f)!Classes PROVE With(f)!ClassSignal[k] \in Nat
    BY DEF With!Classes, With!ClassSignal
  <1> QED BY <1>1, <1>2, <1>3, <1>4

\* Manifest n asks no more of a call than manifest m.
NoStricter(n, m) ==
    /\ n.required_scopes \subseteq m.required_scopes
    /\ n.risk_tier = m.risk_tier /\ n.output_classification = m.output_classification
    /\ n.side_effect = m.side_effect \/ (n.side_effect = "write" /\ m.side_effect = "irreversible")

\* The scores of the two manifests, for the same session and two depths.
LEMMA ScoreMonotone ==
  ASSUME NEW f, NEW g, NEW s, s.tainted \in BOOLEAN, NEW x, NEW y, x.tool = y.tool,
         f[x.tool] \in With(Unannounced)!ManifestType, g[x.tool] \in With(Unannounced)!ManifestType,
         NoStricter(g[x.tool], f[x.tool]),
         x.depth \in Nat, y.depth \in Nat, y.depth <= x.depth
  PROVE  /\ With(f)!RiskScore(s, x) \in Nat /\ With(g)!RiskScore(s, y) \in Nat
         /\ With(g)!RiskScore(s, y) <= With(f)!RiskScore(s, x)
  <1> DEFINE m == f[x.tool]
             n == g[x.tool]
             gate(k) == IF s.tainted /\ k.side_effect # "read" THEN 6 ELSE 0
  <1>1. /\ m.risk_tier \in 1..4 /\ n.risk_tier = m.risk_tier
        /\ m.output_classification \in {"public", "internal", "confidential", "pii", "other"}
        /\ n.output_classification = m.output_classification
        /\ m.side_effect \in {"read", "write", "irreversible"}
        /\ n.side_effect \in {"read", "write", "irreversible"}
    BY DEF With!ManifestType, With!SideEffects, With!Classes, NoStricter
  <1>2. /\ With(f)!TierSignal[m.risk_tier] \in Nat
        /\ With(g)!TierSignal[n.risk_tier] = With(f)!TierSignal[m.risk_tier]
        /\ With(f)!ClassSignal[m.output_classification] \in Nat
        /\ With(g)!ClassSignal[n.output_classification] = With(f)!ClassSignal[m.output_classification]
    BY <1>1, SignalTypes DEF With!TierSignal, With!ClassSignal, With!Classes
  <1>3. /\ With(f)!SideEffectSignal[m.side_effect] \in Nat
        /\ With(g)!SideEffectSignal[n.side_effect] \in Nat
        /\ With(g)!SideEffectSignal[n.side_effect] <= With(f)!SideEffectSignal[m.side_effect]
    BY <1>1, SignalTypes DEF With!SideEffectSignal, With!SideEffects, NoStricter
  <1>4. gate(m) \in Nat /\ gate(n) \in Nat /\ gate(n) <= gate(m)
    BY DEF NoStricter
  <1>5. /\ With(f)!RiskScore(s, x) =
             With(f)!TierSignal[m.risk_tier] + With(f)!SideEffectSignal[m.side_effect]
               + gate(m) + x.depth + With(f)!ClassSignal[m.output_classification]
        /\ With(g)!RiskScore(s, y) =
             With(g)!TierSignal[n.risk_tier] + With(g)!SideEffectSignal[n.side_effect]
               + gate(n) + y.depth + With(g)!ClassSignal[n.output_classification]
    BY DEF With!RiskScore, With!TaintGates
  <1> HIDE DEF m, n, gate
  <1> QED BY <1>2, <1>3, <1>4, <1>5

\* More scopes, less depth or a laxer manifest never turn an admitted call away.
LEMMA AdmissionMonotone ==
  ASSUME NEW f, NEW g, NEW call, NEW s \in Sessions(call), NEW a, NEW b,
         f[call[1]] \in With(Unannounced)!ManifestType,
         g[call[1]] \in With(Unannounced)!ManifestType,
         NoStricter(g[call[1]], f[call[1]]),
         EffectiveScopes(a) \subseteq EffectiveScopes(b),
         Depth(a) \in Nat, Depth(b) \in Nat, Depth(b) <= Depth(a),
         Admits(f, s, a, call)
  PROVE  Admits(g, s, b, call)
  <1> DEFINE x == Context(a, call)
             y == Context(b, call)
  <1>1. /\ x.tool = call[1] /\ y.tool = call[1] /\ x.args = call[2] /\ y.args = call[2]
        /\ x.scopes \subseteq y.scopes
        /\ x.depth = Depth(a) /\ y.depth = Depth(b)
    BY DEF Context, ContextScopes
  <1>2. s.tainted \in BOOLEAN
    BY DEF Sessions
  <1>3. /\ With(f)!ScopeVerdict(x) = "allow" /\ With(f)!TaintVerdict(s, x) = "allow"
        /\ With(f)!RiskVerdict(s, x) = "allow"
        /\ With(f)!PolicyVerdict(s, x) \in {"allow", "transform"}
    BY DEF Admits
  <1> HIDE DEF x, y
  <1>4. With(f)!Approved(s, x) <=> With(g)!Approved(s, y)
    BY <1>1 DEF With!Approved, With!ApprovalKey, With!WildcardKey
  <1>5. With(g)!ScopeVerdict(y) = "allow"
    BY <1>1, <1>3 DEF With!ScopeVerdict, NoStricter
  <1>6. With(g)!TaintVerdict(s, y) = "allow"
    BY <1>1, <1>2, <1>3, <1>4 DEF With!TaintVerdict, With!TaintGates, NoStricter
  <1>7. With(g)!RiskVerdict(s, y) = "allow"
    <2>1. /\ With(f)!RiskScore(s, x) \in Nat /\ With(g)!RiskScore(s, y) \in Nat
          /\ With(g)!RiskScore(s, y) <= With(f)!RiskScore(s, x)
      BY <1>1, <1>2, ScoreMonotone
    <2> QED BY <1>3, <1>4, <2>1, AuthorityAssumption DEF With!RiskVerdict
  <1>8. With(g)!PolicyVerdict(s, y) = With(f)!PolicyVerdict(s, x)
    BY <1>1, <1>4 DEF With!PolicyVerdict, With!ApprovalKey
  <1> QED BY <1>3, <1>5, <1>6, <1>7, <1>8 DEF Admits, y

-----------------------------------------------------------------------------
(* The registry and the delegation, as every step leaves them. *)

ServerLayers == {Discovered(h) : h \in UNION {[shown -> Hints] : shown \in SUBSET Listed}}

\* Layers are the discovered manifests above the default of their namespace, with
\* the overlay of the operator first, last or absent; identities have a root.
\* Resolution finds manifests only because of what the layers may hold.
LayersInv ==
    \E d \in ServerLayers :
        resolvers \in { <<d, NamespaceDefault>>, <<OperatorOverlay, d, NamespaceDefault>>,
                        <<d, NamespaceDefault, OperatorOverlay>> }
AuthorityInv ==
    /\ tools \in [Names -> Manifests \cup {Nothing}]
    /\ LayersInv
    /\ DelegationType

LEMMA LeastElement ==
  ASSUME NEW I \in SUBSET Nat, I # {}
  PROVE  Min(I) \in I /\ \A i \in I : Min(I) <= i
  <1> DEFINE R == OpToRel(<, Nat)
  <1>1. IsWellFoundedOn(R, Nat)
    BY NatLessThanWellFounded
  <1>0. \A i, k \in Nat : <<i, k>> \in R <=> i < k
    BY DEF R, OpToRel
  <1> HIDE DEF R
  <1>2. PICK k \in I : \A i \in I : ~(<<i, k>> \in R)
    BY <1>1, WFMin
  <1>3. ASSUME NEW i \in I PROVE k <= i
    <2>1. i \in Nat /\ k \in Nat
      OBVIOUS
    <2>2. ~(<<i, k>> \in R)
      BY <1>2
    <2>3. ~(i < k)
      BY <1>0, <2>1, <2>2
    <2> QED BY <2>1, <2>3
  <1> QED BY <1>3 DEF Min

\* What each layer says of a name.
LEMMA LayerValues ==
  /\ NamespaceDefault.by = "fallback" /\ OperatorOverlay.by = "operator"
  /\ \A n \in Names : NamespaceDefault.map[n] = IF n \in ServerTools THEN McpDefault ELSE Nothing
  /\ \A n \in Names : OperatorOverlay.map[n] \in Manifests \cup {Nothing}
  /\ \A d \in ServerLayers : d.by = "server" /\ \A n \in Names :
        \/ d.map[n] = Nothing
        \/ n \in ServerTools /\ \E h \in Hints : d.map[n] = ManifestFromMcp(h)
  <1>1. ASSUME NEW n \in Names
        PROVE  NamespaceDefault.map[n] = IF n \in ServerTools THEN McpDefault ELSE Nothing
    <2> DEFINE r == << <<ServerTools, McpDefault>> >>
    <2>1. Len(r) = 1 /\ r[1] = <<ServerTools, McpDefault>>
      OBVIOUS
    <2>2. NamespaceDefault.map[n] = LET i == SelectInSeq(r, LAMBDA q : n \in q[1])
                                    IN  IF i = 0 THEN Nothing ELSE r[i][2]
      BY DEF NamespaceDefault, GlobOverlay
    <2> HIDE DEF r
    <2>3. CASE n \in ServerTools
      <3>1. {i \in 1..Len(r) : n \in r[i][1]} = {1}
        BY <2>1, <2>3
      <3>2. SelectInSeq(r, LAMBDA q : n \in q[1]) = 1
        BY <3>1 DEF SelectInSeq, Min
      <3> QED BY <2>1, <2>2, <2>3, <3>2
    <2>4. CASE n \notin ServerTools
      <3>1. {i \in 1..Len(r) : n \in r[i][1]} = {}
        BY <2>1, <2>4
      <3>2. SelectInSeq(r, LAMBDA q : n \in q[1]) = 0
        BY <3>1 DEF SelectInSeq
      <3> QED BY <2>2, <2>4, <3>2
    <2> QED BY <2>3, <2>4
  <1>2. ASSUME NEW n \in Names PROVE OperatorOverlay.map[n] \in Manifests \cup {Nothing}
    <2> DEFINE I == {i \in 1..Len(Overlay) : n \in Overlay[i][1]}
               k == SelectInSeq(Overlay, LAMBDA q : n \in q[1])
    <2>1. OperatorOverlay.map[n] = IF k = 0 THEN Nothing ELSE Overlay[k][2]
      BY DEF OperatorOverlay, GlobOverlay
    <2>2. k = IF I # {} THEN Min(I) ELSE 0
      BY DEF SelectInSeq
    <2>3. I # {} => Min(I) \in I
      <3>1. I \in SUBSET Nat
        OBVIOUS
      <3> QED BY <3>1, LeastElement
    <2>4. k = 0 \/ k \in DOMAIN Overlay
      BY <2>2, <2>3, RegistryAssumption
    <2> HIDE DEF k
    <2> QED BY <2>1, <2>4, RegistryAssumption
  <1>3. ASSUME NEW d \in ServerLayers
        PROVE  d.by = "server" /\ \A n \in Names :
                 \/ d.map[n] = Nothing
                 \/ n \in ServerTools /\ \E h \in Hints : d.map[n] = ManifestFromMcp(h)
    <2>0. PICK shown \in SUBSET Listed : \E h \in [shown -> Hints] : d = Discovered(h)
      BY DEF ServerLayers
    <2>1. PICK h \in [shown -> Hints] : d = Discovered(h)
      BY <2>0
    <2>2. d.by = "server" /\ \A n \in Names :
             d.map[n] = IF n \in shown THEN ManifestFromMcp(h[n]) ELSE Nothing
      BY <2>1 DEF Discovered, Lookup
    <2> QED BY <2>2, RegistryAssumption
  <1>4. NamespaceDefault.by = "fallback" /\ OperatorOverlay.by = "operator"
    BY DEF NamespaceDefault, OperatorOverlay
  <1> QED BY <1>1, <1>2, <1>3, <1>4

\* The first layer of q that says anything of n is the first whose map holds
\* anything for it.
LEMMA FirstWordFound ==
  ASSUME NEW q, NEW n
  PROVE  LET k == FirstWord(q, n)
         IN  \/ k = 0 /\ \A i \in 1..Len(q) : q[i].map[n] = Nothing
             \/ /\ k \in 1..Len(q) /\ q[k].map[n] # Nothing
                /\ \A i \in 1..Len(q) : q[i].map[n] # Nothing => k <= i
  <1> DEFINE I == {i \in 1..Len(q) : q[i].map[n] # Nothing}
  <1>1. FirstWord(q, n) = IF I # {} THEN Min(I) ELSE 0
    BY DEF FirstWord, SelectInSeq
  <1>2. CASE I = {}
    BY <1>1, <1>2
  <1>3. CASE I # {}
    <2>1. I \in SUBSET Nat
      OBVIOUS
    <2>2. Min(I) \in I /\ \A i \in I : Min(I) <= i
      BY <1>3, <2>1, LeastElement
    <2> QED BY <1>1, <1>3, <2>2
  <1> QED BY <1>2, <1>3

LEMMA LayerFound ==
  ASSUME NEW n
  PROVE  \/ Layer(n) = 0 /\ \A i \in 1..Len(resolvers) : resolvers[i].map[n] = Nothing
         \/ /\ Layer(n) \in 1..Len(resolvers) /\ resolvers[Layer(n)].map[n] # Nothing
            /\ \A i \in 1..Len(resolvers) : resolvers[i].map[n] # Nothing => Layer(n) <= i
  <1>1. Layer(n) = FirstWord(resolvers, n)
    BY DEF Layer
  <1> QED BY <1>1, FirstWordFound

\* The layers by their positions.
LEMMA LayerShapes ==
  ASSUME LayersInv
  PROVE  \E d \in ServerLayers :
            \/ Len(resolvers) = 2 /\ resolvers[1] = d /\ resolvers[2] = NamespaceDefault
            \/ /\ Len(resolvers) = 3 /\ resolvers[1] = OperatorOverlay
               /\ resolvers[2] = d /\ resolvers[3] = NamespaceDefault
            \/ /\ Len(resolvers) = 3 /\ resolvers[1] = d
               /\ resolvers[2] = NamespaceDefault /\ resolvers[3] = OperatorOverlay
  BY DEF LayersInv

LEMMA ResolveType ==
  ASSUME AuthorityInv, NEW n \in Names
  PROVE  Resolve(n) \in Manifests \cup {Nothing}
  <1>1. ASSUME NEW i \in 1..Len(resolvers)
        PROVE  resolvers[i].map[n] \in Manifests \cup {Nothing}
    <2>1. PICK d \in ServerLayers : resolvers[i] \in {d, NamespaceDefault, OperatorOverlay}
      <3>1. PICK d \in ServerLayers :
               \/ Len(resolvers) = 2 /\ resolvers[1] = d /\ resolvers[2] = NamespaceDefault
               \/ /\ Len(resolvers) = 3 /\ resolvers[1] = OperatorOverlay
                  /\ resolvers[2] = d /\ resolvers[3] = NamespaceDefault
               \/ /\ Len(resolvers) = 3 /\ resolvers[1] = d
                  /\ resolvers[2] = NamespaceDefault /\ resolvers[3] = OperatorOverlay
        BY LayerShapes DEF AuthorityInv
      <3> QED BY <3>1
    <2>2. d.map[n] \in Manifests \cup {Nothing}
      BY LayerValues, AuthorityAssumption
    <2> QED BY <2>1, <2>2, LayerValues, AuthorityAssumption
  <1>2. tools[n] \in Manifests \cup {Nothing} /\ Default \in Manifests \cup {Nothing}
    BY RegistryAssumption DEF AuthorityInv
  <1> QED BY <1>1, <1>2, LayerFound DEF Resolve

-----------------------------------------------------------------------------
(* The invariant. *)

LEMMA AuthorityInitially == Init => AuthorityInv
  <1> SUFFICES ASSUME Init PROVE AuthorityInv
    OBVIOUS
  <1>1. Discovered(<<>>) \in ServerLayers
    <2>1. <<>> \in [{} -> Hints]
      OBVIOUS
    <2>2. {} \in SUBSET Listed
      OBVIOUS
    <2> QED BY <2>1, <2>2 DEF ServerLayers
  <1>2. LayersInv
    BY <1>1 DEF Init, RegistryInit, LayersInv
  <1>3. tools \in [Names -> Manifests \cup {Nothing}]
    BY RegistryAssumption DEF Init, RegistryInit
  <1>4. DelegationType
    BY DelegationAssumption DEF Init, DelegationInit, DelegationType, AgentType
  <1> QED BY <1>2, <1>3, <1>4 DEF AuthorityInv

\* Rebuilding the registry puts other manifests into the layer of the server.
LEMMA SwappedLayers ==
  ASSUME NEW hints \in UNION {[shown -> Hints] : shown \in SUBSET Listed},
         NEW d \in ServerLayers, SwapRegistry(hints)
  PROVE  /\ Discovered(hints) \in ServerLayers
         /\ resolvers = <<d, NamespaceDefault>>
              => resolvers' = <<Discovered(hints), NamespaceDefault>>
         /\ resolvers = <<OperatorOverlay, d, NamespaceDefault>>
              => resolvers' = <<OperatorOverlay, Discovered(hints), NamespaceDefault>>
         /\ resolvers = <<d, NamespaceDefault, OperatorOverlay>>
              => resolvers' = <<Discovered(hints), NamespaceDefault, OperatorOverlay>>
  <1>1. Discovered(hints) \in ServerLayers
    BY DEF ServerLayers
  <1>2. /\ d.by = "server" /\ NamespaceDefault.by = "fallback"
        /\ OperatorOverlay.by = "operator"
    BY LayerValues
  <1>3. resolvers' = [i \in DOMAIN resolvers |->
                        IF resolvers[i].by = "server" THEN Discovered(hints) ELSE resolvers[i]]
    BY DEF SwapRegistry
  <1> QED BY <1>1, <1>2, <1>3

LEMMA InFront == ASSUME NEW x, NEW y, NEW z PROVE <<x>> \o <<y, z>> = <<x, y, z>>
  <1> DEFINE S == {x, y, z}
             a == <<x>>
             b == <<y, z>>
             c == <<x, y, z>>
  <1>1. /\ a \in Seq(S) /\ b \in Seq(S) /\ c \in Seq(S)
        /\ Len(a) = 1 /\ Len(b) = 2 /\ Len(c) = 3
        /\ a[1] = x /\ b[1] = y /\ b[2] = z /\ c[1] = x /\ c[2] = y /\ c[3] = z
    OBVIOUS
  <1> HIDE DEF a, b, c
  <1>0. /\ a \o b \in Seq(S) /\ Len(a \o b) = Len(a) + Len(b)
        /\ \A i \in 1..Len(a) + Len(b) :
              (a \o b)[i] = IF i <= Len(a) THEN a[i] ELSE b[i - Len(a)]
    BY <1>1, ConcatProperties
  <1>2. /\ a \o b \in Seq(S) /\ Len(a \o b) = 3
        /\ (a \o b)[1] = x /\ (a \o b)[2] = y /\ (a \o b)[3] = z
    <2>1. /\ 1 \in 1..Len(a) + Len(b) /\ 2 \in 1..Len(a) + Len(b)
          /\ 3 \in 1..Len(a) + Len(b)
      BY <1>1
    <2>2. (a \o b)[1] = a[1] /\ (a \o b)[2] = b[2 - 1] /\ (a \o b)[3] = b[3 - 1]
      BY <1>0, <1>1, <2>1
    <2> QED BY <1>0, <1>1, <2>2
  <1>3. ASSUME NEW i \in 1..3 PROVE (a \o b)[i] = c[i]
    <2>1. i = 1 \/ i = 2 \/ i = 3
      OBVIOUS
    <2> QED BY <1>1, <1>2, <2>1
  <1>4. a \o b = c
    BY <1>1, <1>2, <1>3, SeqEqual
  <1> QED BY <1>4 DEF a, b, c

LEMMA InBack == ASSUME NEW x, NEW y, NEW z PROVE Append(<<x, y>>, z) = <<x, y, z>>
  <1> DEFINE S == {x, y, z}
             a == <<x, y>>
             c == <<x, y, z>>
  <1>1. /\ a \in Seq(S) /\ c \in Seq(S) /\ z \in S /\ Len(a) = 2 /\ Len(c) = 3
        /\ a[1] = x /\ a[2] = y /\ c[1] = x /\ c[2] = y /\ c[3] = z
    OBVIOUS
  <1>5. a \in Seq(S) /\ z \in S
    BY <1>1
  <1> HIDE DEF a, c, S
  <1>0. /\ Append(a, z) \in Seq(S) /\ Len(Append(a, z)) = Len(a) + 1
        /\ \A i \in 1..Len(a) : Append(a, z)[i] = a[i]
        /\ Append(a, z)[Len(a) + 1] = z
    BY <1>5, AppendProperties
  <1>2. /\ Append(a, z) \in Seq(S) /\ Len(Append(a, z)) = 3
        /\ Append(a, z)[1] = x /\ Append(a, z)[2] = y /\ Append(a, z)[3] = z
    <2>1. 1 \in 1..Len(a) /\ 2 \in 1..Len(a) /\ Len(a) + 1 = 3
      BY <1>1
    <2>2. Append(a, z)[1] = a[1] /\ Append(a, z)[2] = a[2] /\ Append(a, z)[3] = z
      BY <1>0, <2>1
    <2> QED BY <1>0, <1>1, <2>1, <2>2
  <1>3. ASSUME NEW i \in 1..3 PROVE Append(a, z)[i] = c[i]
    <2>1. i = 1 \/ i = 2 \/ i = 3
      OBVIOUS
    <2> QED BY <1>1, <1>2, <2>1
  <1>4. Append(a, z) = c
    BY <1>1, <1>2, <1>3, SeqEqual
  <1> QED BY <1>4 DEF a, c

LEMMA AuthorityInductive == AuthorityInv /\ [Next]_vars => AuthorityInv'
  <1> SUFFICES ASSUME AuthorityInv, [Next]_vars PROVE AuthorityInv'
    OBVIOUS
  <1>0. PICK d \in ServerLayers :
           resolvers \in { <<d, NamespaceDefault>>, <<OperatorOverlay, d, NamespaceDefault>>,
                           <<d, NamespaceDefault, OperatorOverlay>> }
    BY DEF AuthorityInv, LayersInv
  <1>1. ASSUME NEW n \in Names, NEW m \in Explicit[n], NEW replace \in BOOLEAN,
               Register(n, m, replace), UNCHANGED agent
        PROVE  AuthorityInv'
    BY <1>1, RegistryAssumption
       DEF AuthorityInv, LayersInv, Register, DelegationType
  <1>2. ASSUME NEW n \in Names, Unregister(n), UNCHANGED agent PROVE AuthorityInv'
    BY <1>2 DEF AuthorityInv, LayersInv, Unregister, DelegationType
  <1>3. ASSUME NEW first \in BOOLEAN, AddResolver(OperatorOverlay, first), UNCHANGED agent
        PROVE  AuthorityInv'
    <2>1. resolvers = <<d, NamespaceDefault>>
      BY <1>0, <1>3 DEF AddResolver
    <2>2. resolvers' = IF first THEN <<OperatorOverlay>> \o <<d, NamespaceDefault>>
                       ELSE Append(<<d, NamespaceDefault>>, OperatorOverlay)
      BY <1>3, <2>1 DEF AddResolver
    <2>3. /\ Append(<<d, NamespaceDefault>>, OperatorOverlay)
               = <<d, NamespaceDefault, OperatorOverlay>>
      BY InBack
    <2>5. <<OperatorOverlay>> \o <<d, NamespaceDefault>>
               = <<OperatorOverlay, d, NamespaceDefault>>
      BY InFront
    <2>4. resolvers' \in { <<OperatorOverlay, d, NamespaceDefault>>,
                           <<d, NamespaceDefault, OperatorOverlay>> }
      BY <2>2, <2>3, <2>5
    <2> QED BY <1>3, <2>4 DEF AuthorityInv, LayersInv, AddResolver, DelegationType
  <1>4. ASSUME ServerAnnounces PROVE AuthorityInv'
    <2>1. PICK shown \in SUBSET Listed : \E h \in [shown -> Hints] : SwapRegistry(h)
      BY <1>4 DEF ServerAnnounces
    <2>2. PICK h \in [shown -> Hints] : SwapRegistry(h)
      BY <2>1
    <2>3. LayersInv'
      BY <1>0, <2>2, SwappedLayers DEF LayersInv
    <2> QED BY <1>4, <2>2, <2>3 DEF AuthorityInv, ServerAnnounces, SwapRegistry, DelegationType
  <1>5. ASSUME HostPolicy PROVE AuthorityInv'
    BY <1>5 DEF HostPolicy, registryVars, AuthorityInv, LayersInv, DelegationType
  <1>6. ASSUME HostSpawns PROVE AuthorityInv'
    <2>1. PICK requested \in Requests : SpawnAgent(requested) \/ ConstructAgent(requested)
      BY <1>6 DEF HostSpawns
    <2>2. PICK own \in SUBSET AgentScopes : agent' = Append(agent, own)
      <3>1. requested \subseteq AgentScopes
        BY DelegationAssumption
      <3> QED BY <2>1, <3>1 DEF SpawnAgent, ConstructAgent, Spawn
    <2>3. agent \in Seq(SUBSET AgentScopes)
      BY DEF AuthorityInv, DelegationType, AgentType
    <2>4. DelegationType'
      BY <2>2, <2>3, AppendProperties DEF DelegationType, AgentType
    <2> QED BY <1>6, <2>4 DEF HostSpawns, registryVars, AuthorityInv, LayersInv
  <1>7. ASSUME UNCHANGED vars PROVE AuthorityInv'
    BY <1>7 DEF vars, AuthorityInv, LayersInv, DelegationType
  <1>8. ASSUME HostRegistry PROVE AuthorityInv'
    BY <1>1, <1>2, <1>3, <1>8 DEF HostRegistry
  <1> QED BY <1>4, <1>5, <1>6, <1>7, <1>8 DEF Next

-----------------------------------------------------------------------------
(* The properties. *)

LEMMA DelegationAttenuates == AuthorityInv => DelegationNeverLoosens
  <1> SUFFICES ASSUME AuthorityInv,
                      NEW a \in Ancestors(agent), NEW call \in PolicyCalls, Known(call),
                      NEW s \in Sessions(call), Admits(Resolved, s, agent, call)
               PROVE  Admits(Resolved, s, a, call)
    BY DEF DelegationNeverLoosens
  <1>1. agent \in AgentType /\ Len(agent) \in Nat
    BY LenProperties DEF AuthorityInv, DelegationType, AgentType
  <1>2. PICK i \in 1..(Len(agent) - 1) : a = SubSeq(agent, 1, i)
    BY DEF Ancestors
  <1>3. i \in 1..Len(agent) /\ Len(a) = i
    BY <1>1, <1>2, SubSeqProperties DEF AgentType
  <1>4. EffectiveScopes(agent) \subseteq EffectiveScopes(a)
    BY <1>1, <1>2, <1>3, ScopesAttenuate
  <1>5. Depth(agent) \in Nat /\ Depth(a) \in Nat /\ Depth(a) <= Depth(agent)
    BY <1>1, <1>2, <1>3 DEF Depth
  <1>6. call[1] \in Names
    BY AuthorityAssumption
  <1>7. Resolved[call[1]] \in With(Unannounced)!ManifestType
    BY <1>6, ResolveType, AuthorityAssumption DEF Resolved, Known
  <1>8. NoStricter(Resolved[call[1]], Resolved[call[1]])
    BY DEF NoStricter
  <1> QED BY <1>4, <1>5, <1>7, <1>8, AdmissionMonotone

LEMMA AnnouncingIsNoGain == AuthorityInv => AnnouncingGainsNothing
  <1> SUFFICES ASSUME AuthorityInv, ~Trusted, NEW call \in PolicyCalls,
                      call[1] \in ServerTools, ~Pinned(call[1]),
                      NEW s \in Sessions(call), Admits(Resolved, s, agent, call)
               PROVE  Admits(Unannounced, s, agent, call)
    BY DEF AnnouncingGainsNothing
  <1> DEFINE n == call[1]
             m == Resolve(n)
  <1>1. n \in Names
    BY AuthorityAssumption
  <1>2. m = McpDefault \/ \E h \in Hints : m = ManifestFromMcp(h)
    <2>1. PICK d \in ServerLayers :
             resolvers \in { <<d, NamespaceDefault>>, <<OperatorOverlay, d, NamespaceDefault>>,
                             <<d, NamespaceDefault, OperatorOverlay>> }
      BY DEF AuthorityInv, LayersInv
    <2>2. NamespaceDefault.map[n] # Nothing /\ NamespaceDefault.map[n] = McpDefault
      BY <1>1, LayerValues, AuthorityAssumption, RegistryAssumption
    <2>6. PICK k \in 1..Len(resolvers) : resolvers[k] = NamespaceDefault
      <3>1. \/ 2 \in 1..Len(resolvers) /\ resolvers[2] = NamespaceDefault
            \/ 3 \in 1..Len(resolvers) /\ resolvers[3] = NamespaceDefault
        BY <2>1
      <3> QED BY <3>1
    <2>3. /\ Layer(n) \in 1..Len(resolvers) /\ resolvers[Layer(n)].map[n] # Nothing
      BY <2>2, <2>6, LayerFound
    <2>4. resolvers[Layer(n)] \in {d, NamespaceDefault, OperatorOverlay}
      BY <2>1, <2>3
    <2>5. m = resolvers[Layer(n)].map[n] /\ resolvers[Layer(n)].by # "operator"
      BY <2>3 DEF Pinned, Resolve
    <2> QED BY <1>1, <2>2, <2>3, <2>4, <2>5, LayerValues
  <1>3. m \in With(Unannounced)!ManifestType /\ McpDefault \in With(Unannounced)!ManifestType
    BY <1>2, AuthorityAssumption
  <1>4. NoStricter(McpDefault, m)
    <2>1. NoStricter(McpDefault, McpDefault)
      BY DEF NoStricter
    <2>2. ASSUME NEW h \in Hints PROVE NoStricter(McpDefault, ManifestFromMcp(h))
      <3> DEFINE e == SideEffectOf(h)
      <3>1. e \in {"read", "write", "irreversible"}
        BY DEF SideEffectOf
      <3>2. AtLeast(TierFor[e], High) = 3
        BY <3>1 DEF TierFor, AtLeast, High
      <3>3. ManifestFromMcp(h) = FromServer(IF e = "read" THEN "write" ELSE e, 3, TRUE)
        BY <3>2 DEF ManifestFromMcp
      <3> HIDE DEF e
      <3> QED BY <3>1, <3>3 DEF NoStricter, McpDefault, FromServer, High
    <2> QED BY <1>2, <2>1, <2>2
  <1>5. Depth(agent) \in Nat
    <2>1. agent \in Seq(SUBSET AgentScopes) /\ agent # <<>>
      BY DEF AuthorityInv, DelegationType, AgentType
    <2> QED BY <2>1, EmptySeq, LenProperties DEF Depth
  <1>6. Resolved[n] = m /\ Unannounced[n] = McpDefault
    BY <1>1 DEF Resolved, Unannounced
  <1>7. /\ Resolved[call[1]] \in With(Unannounced)!ManifestType
        /\ Unannounced[call[1]] \in With(Unannounced)!ManifestType
        /\ NoStricter(Unannounced[call[1]], Resolved[call[1]])
    BY <1>3, <1>4, <1>6
  <1>8. Depth(agent) <= Depth(agent)
    BY <1>5
  <1> HIDE DEF m, n
  <1> QED BY <1>5, <1>7, <1>8, AdmissionMonotone

\* A layer of the operator that is reached for n is first, or n is none of the
\* server's names; so the server's layer has no say in it.
LEMMA PinnedStays ==
  ASSUME AuthorityInv, ServerAnnounces, NEW n \in Names, Pinned(n)
  PROVE  Pinned(n)' /\ Resolve(n)' = Resolve(n)
  <1>1. tools' = tools
    BY DEF ServerAnnounces, SwapRegistry
  <1>2. CASE tools[n] # Nothing
    BY <1>1, <1>2 DEF Pinned, Resolve
  <1>3. CASE tools[n] = Nothing
    <2> DEFINE k == FirstWord(resolvers, n)
               l == FirstWord(resolvers', n)
               F == NamespaceDefault
               O == OperatorOverlay
    <2>1. /\ Layer(n) = k /\ Layer(n)' = l
      BY DEF Layer
    <2>2. k # 0 /\ resolvers[k].by = "operator"
      BY <1>3, <2>1 DEF Pinned
    <2>3. PICK d \in ServerLayers :
             resolvers \in { <<d, F>>, <<O, d, F>>, <<d, F, O>> }
      BY DEF AuthorityInv, LayersInv
    <2>4. PICK shown \in SUBSET Listed : \E h \in [shown -> Hints] : SwapRegistry(h)
      BY DEF ServerAnnounces
    <2>5. PICK h \in [shown -> Hints] : SwapRegistry(h)
      BY <2>4
    <2> DEFINE e == Discovered(h)
    <2>6. /\ e \in ServerLayers
          /\ resolvers = <<d, F>> => resolvers' = <<e, F>>
          /\ resolvers = <<O, d, F>> => resolvers' = <<O, e, F>>
          /\ resolvers = <<d, F, O>> => resolvers' = <<e, F, O>>
      BY <2>5, SwappedLayers
    <2>7. /\ d.by = "server" /\ e.by = "server" /\ F.by = "fallback" /\ O.by = "operator"
          /\ F.map[n] = IF n \in ServerTools THEN McpDefault ELSE Nothing
          /\ d.map[n] = Nothing \/ n \in ServerTools
          /\ e.map[n] = Nothing \/ n \in ServerTools
      BY <2>6, LayerValues
    <2>8. McpDefault # Nothing
      BY RegistryAssumption, AuthorityAssumption
    <2> HIDE DEF k, l, e, F, O
    <2>9. /\ k \in 1..Len(resolvers) /\ resolvers[k].map[n] # Nothing
          /\ \A i \in 1..Len(resolvers) : resolvers[i].map[n] # Nothing => k <= i
      BY <2>2, FirstWordFound DEF k
    <2>10. \/ l = 0 /\ \A i \in 1..Len(resolvers') : resolvers'[i].map[n] = Nothing
           \/ /\ l \in 1..Len(resolvers') /\ resolvers'[l].map[n] # Nothing
              /\ \A i \in 1..Len(resolvers') : resolvers'[i].map[n] # Nothing => l <= i
      BY FirstWordFound DEF l
    <2>11. CASE resolvers = <<d, F>>
      BY <2>2, <2>7, <2>9, <2>11
    <2>12. CASE resolvers = <<O, d, F>>
      <3>1. k = 1 /\ O.map[n] # Nothing
        BY <2>2, <2>7, <2>9, <2>12
      <3>2. /\ resolvers' = <<O, e, F>> /\ Len(resolvers') = 3 /\ resolvers'[1] = O
            /\ resolvers[1] = O
        BY <2>6, <2>12
      <3>3. l = 1
        BY <2>10, <3>1, <3>2
      <3> QED BY <1>1, <1>3, <2>1, <2>7, <3>1, <3>2, <3>3 DEF Pinned, Resolve
    <2>13. CASE resolvers = <<d, F, O>>
      <3>1. k = 3 /\ O.map[n] # Nothing
        BY <2>2, <2>7, <2>9, <2>13
      <3>2. F.map[n] = Nothing
        BY <2>9, <2>13, <3>1
      <3>3. n \notin ServerTools
        BY <2>7, <2>8, <3>2
      <3>4. /\ Len(resolvers') = 3 /\ resolvers'[1] = e /\ resolvers'[2] = F
            /\ resolvers'[3] = O /\ resolvers[3] = O
        BY <2>6, <2>13
      <3>5. l = 3
        BY <2>7, <2>10, <3>1, <3>2, <3>3, <3>4
      <3> QED BY <1>1, <1>3, <2>1, <2>7, <3>1, <3>4, <3>5 DEF Pinned, Resolve
    <2> QED BY <2>3, <2>11, <2>12, <2>13
  <1> QED BY <1>2, <1>3

-----------------------------------------------------------------------------
(* The list of rules. *)

\* order is a strict total order of 1..n, given as a set of pairs.
Orders(order, n) ==
    /\ \A i \in 1..n : <<i, i>> \notin order
    /\ \A i, j \in 1..n : i # j => <<i, j>> \in order \/ <<j, i>> \in order
    /\ \A i, j, k \in 1..n : <<i, j>> \in order /\ <<j, k>> \in order => <<i, k>> \in order

\* r is s rearranged: element j is at rank[j], in the given order.
RanksBy(rank, order, s, r, n) ==
    /\ DOMAIN r = 1..n
    /\ \A k \in 1..n : \E j \in 1..n : rank[j] = k
    /\ \A i, j \in 1..n : rank[i] < rank[j] <=> <<i, j>> \in order
    /\ \A j \in 1..n : r[rank[j]] = s[j]

\* Ranking s puts each element behind as many as come before it in the order.
LEMMA RankedByOrder ==
  ASSUME NEW n \in Nat, NEW s, DOMAIN s = 1..n, NEW order, Orders(order, n)
  PROVE  \E rank \in [1..n -> 1..n] : RanksBy(rank, order, s, Ranked(s, order), n)
  <1> DEFINE Before(j) == {i \in 1..n : <<i, j>> \in order}
             rank == [j \in 1..n |-> Cardinality(Before(j)) + 1]
  <1>1. IsFiniteSet(1..n) /\ Cardinality(1..n) = n
    BY FS_Interval
  <1>2. ASSUME NEW j \in 1..n
        PROVE  /\ IsFiniteSet(Before(j)) /\ Cardinality(Before(j)) \in Nat
               /\ Cardinality(Before(j)) <= n - 1
    <2>1. Before(j) \in SUBSET ((1..n) \ {j})
      BY DEF Orders
    <2>2. IsFiniteSet((1..n) \ {j}) /\ Cardinality((1..n) \ {j}) = n - 1
      BY <1>1, FS_RemoveElement
    <2>3. IsFiniteSet(Before(j)) /\ Cardinality(Before(j)) <= n - 1
      BY <2>1, <2>2, FS_Subset
    <2> QED BY <2>3, FS_CardinalityType
  <1>3. rank \in [1..n -> 1..n]
    <2>1. ASSUME NEW j \in 1..n PROVE Cardinality(Before(j)) + 1 \in 1..n
      <3>1. PICK c \in Nat : c = Cardinality(Before(j)) /\ c <= n - 1
        BY <1>2
      <3> QED BY <3>1
    <2> QED BY <2>1
  <1>4. ASSUME NEW i \in 1..n, NEW j \in 1..n, <<i, j>> \in order PROVE rank[i] < rank[j]
    <2>1. Before(i) \in SUBSET Before(j)
      BY <1>4 DEF Orders
    <2>2. i \in Before(j) /\ i \notin Before(i)
      BY <1>4 DEF Orders
    <2>3. Cardinality(Before(i)) <= Cardinality(Before(j))
      BY <1>2, <2>1, FS_Subset
    <2>4. Cardinality(Before(i)) # Cardinality(Before(j))
      BY <1>2, <2>1, <2>2, FS_Subset
    <2>5. PICK b \in Nat, c \in Nat : b = Cardinality(Before(i)) /\ c = Cardinality(Before(j))
      BY <1>2
    <2>6. rank[i] = b + 1 /\ rank[j] = c + 1
      BY <2>5
    <2> QED BY <2>3, <2>4, <2>5, <2>6
  <1>5. \A i \in 1..n : Cardinality(Before(i)) = rank[i] - 1
    <2> SUFFICES ASSUME NEW i \in 1..n PROVE Cardinality(Before(i)) = rank[i] - 1
      OBVIOUS
    <2>1. PICK b \in Nat : b = Cardinality(Before(i))
      BY <1>2
    <2>2. rank[i] = b + 1
      BY <2>1
    <2> QED BY <2>1, <2>2
  <1>6. Ranked(s, order) =
           [k \in 1..n |-> s[CHOOSE j \in 1..n : Cardinality(Before(j)) = k - 1]]
    BY DEF Ranked
  <1> HIDE DEF rank, Before
  <1>7. ASSUME NEW i \in 1..n, NEW j \in 1..n
        PROVE  /\ rank[i] < rank[j] <=> <<i, j>> \in order
               /\ rank[i] = rank[j] => i = j
    <2>1. i # j => <<i, j>> \in order \/ <<j, i>> \in order
      BY DEF Orders
    <2>2. rank[i] \in 1..n /\ rank[j] \in 1..n
      BY <1>3
    <2> QED BY <1>4, <2>1, <2>2 DEF Orders
  <1>8. \A k \in 1..n : \E j \in 1..n : rank[j] = k
    <2>1. rank \in Injection(1..n, 1..n)
      BY <1>3, <1>7 DEF Injection, IsInjective
    <2>2. rank \in Surjection(1..n, 1..n)
      BY <1>1, <2>1, FS_Injection
    <2> QED BY <2>2 DEF Surjection
  <1>9. ASSUME NEW j \in 1..n PROVE Ranked(s, order)[rank[j]] = s[j]
    <2>1. rank[j] \in 1..n
      BY <1>3
    <2>2. PICK i \in 1..n : i = CHOOSE k \in 1..n : Cardinality(Before(k)) = rank[j] - 1
      BY <1>5
    <2>3. Cardinality(Before(i)) = rank[j] - 1
      BY <1>5, <2>2
    <2>4. rank[i] = rank[j]
      <3>1. rank[i] \in 1..n /\ rank[i] - 1 = rank[j] - 1
        BY <1>3, <1>5, <2>3
      <3> QED BY <2>1, <3>1
    <2>5. i = j
      BY <1>7, <2>4
    <2> QED BY <1>6, <2>1, <2>2, <2>5
  <1>10. DOMAIN Ranked(s, order) = 1..n
    BY <1>6
  <1> QED BY <1>3, <1>7, <1>8, <1>9, <1>10 DEF RanksBy

\* Rule i of s comes before rule j when s is sorted.
Precedes(s, i, j) == \/ s[i].priority > s[j].priority
                     \/ s[i].priority = s[j].priority /\ i < j

\* The same of the order in which rules decide.
Ranks(rank, s, r, n) ==
    /\ DOMAIN r = 1..n
    /\ \A k \in 1..n : \E j \in 1..n : rank[j] = k
    /\ \A i, j \in 1..n : rank[i] < rank[j] <=> Precedes(s, i, j)
    /\ \A j \in 1..n : r[rank[j]] = s[j]

\* Every rule of a list has a priority.
Prioritised(s, n) == DOMAIN s = 1..n /\ \A i \in 1..n : s[i].priority \in Int

LEMMA RankedByPriority ==
  ASSUME NEW n \in Nat, NEW s, Prioritised(s, n)
  PROVE  \E rank \in [1..n -> 1..n] : Ranks(rank, s, Sorted(s), n)
  <1>0. DOMAIN s = 1..n /\ \A i \in 1..n : s[i].priority \in Int
    BY DEF Prioritised
  <1> DEFINE order == {p \in (DOMAIN s) \X (DOMAIN s) :
                          \/ s[p[1]].priority > s[p[2]].priority
                          \/ s[p[1]].priority = s[p[2]].priority /\ p[1] < p[2]}
  <1>1. \A i, j \in 1..n : <<i, j>> \in order <=> Precedes(s, i, j)
    BY <1>0 DEF Precedes
  <1>2. Sorted(s) = Ranked(s, order)
    BY DEF Sorted
  <1> HIDE DEF order
  <1>3. Orders(order, n)
    <2>1. \A i \in 1..n : ~Precedes(s, i, i)
      BY <1>0 DEF Precedes
    <2>2. \A i, j \in 1..n : i # j => Precedes(s, i, j) \/ Precedes(s, j, i)
      BY <1>0 DEF Precedes
    <2>3. \A i, j, k \in 1..n : Precedes(s, i, j) /\ Precedes(s, j, k) => Precedes(s, i, k)
      BY <1>0 DEF Precedes
    <2> QED BY <1>1, <2>1, <2>2, <2>3, Zenon DEF Orders
  <1>4. PICK rank \in [1..n -> 1..n] : RanksBy(rank, order, s, Ranked(s, order), n)
    BY <1>0, <1>3, RankedByOrder
  <1>5. Ranks(rank, s, Sorted(s), n)
    BY <1>1, <1>2, <1>4, Zenon DEF Ranks, RanksBy
  <1> QED BY <1>5

LEMMA SortedTyped ==
  ASSUME NEW s \in Seq(RuleType)
  PROVE  Sorted(s) \in Seq(RuleType) /\ Len(Sorted(s)) = Len(s)
  <1>1. PICK n \in Nat : n = Len(s) /\ DOMAIN s = 1..n
    BY LenProperties
  <1>2. \A i \in 1..n : s[i] \in RuleType
    BY <1>1, ElementOfSeq
  <1>3. Prioritised(s, n)
    BY <1>1, <1>2 DEF RuleType, Prioritised
  <1>4. PICK rank \in [1..n -> 1..n] : Ranks(rank, s, Sorted(s), n)
    BY <1>3, RankedByPriority
  <1>5. ASSUME NEW k \in 1..n PROVE Sorted(s)[k] \in RuleType
    <2>1. PICK j \in 1..n : rank[j] = k
      BY <1>4 DEF Ranks
    <2>2. Sorted(s)[rank[j]] = s[j]
      BY <1>4 DEF Ranks
    <2> QED BY <1>2, <2>1, <2>2
  <1>6. Sorted(s) = [k \in 1..n |-> Sorted(s)[k]]
    BY <1>4 DEF Sorted, Ranked, Ranks
  <1> QED BY <1>1, <1>5, <1>6, IsASeq, LenProperties

\* The list r holds the rules of h, each once, rule i at p[i].
Arranged(p, r, h, n) ==
    /\ \A k \in 1..n : \E i \in 1..n : p[i] = k
    /\ \A i \in 1..n : r[p[i]] = h[i]

\* The list is as it was constructed, or sorted.
InOrder(p, h, n) ==
    \/ h \in Constructed /\ \A i \in 1..n : p[i] = i
    \/ \A i, j \in 1..n : p[i] < p[j] <=> Precedes(h, i, j)

\* List r holds the rules of history h, in the order in which they decide.
Keeping(r, h, n) == \E p \in [1..n -> 1..n] : Arranged(p, r, h, n) /\ InOrder(p, h, n)

\* The rules anyone gave.
Given == Rules \cup UNION {{s[k] : k \in DOMAIN s} : s \in Constructed}

PolicyInv ==
    /\ PolicyType /\ Len(rules) = Len(history)
    /\ Keeping(rules, history, Len(history))
    /\ \A i \in DOMAIN history : history[i] \in Given

LEMMA PolicyInitially == PolicyInit => PolicyInv
  <1> SUFFICES ASSUME PolicyInit PROVE PolicyInv
    OBVIOUS
  <1>1. rules = history /\ history \in Constructed /\ history \in Seq(RuleType)
    BY PolicyAssumption DEF PolicyInit
  <1>2. PICK n \in Nat : n = Len(history) /\ DOMAIN history = 1..n
    BY <1>1, LenProperties
  <1>3. Keeping(rules, history, n)
    <2>1. PICK p \in [1..n -> 1..n] : \A i \in 1..n : p[i] = i
      <3>1. [i \in 1..n |-> i] \in [1..n -> 1..n]
        OBVIOUS
      <3> QED BY <3>1
    <2>2. Arranged(p, rules, history, n) /\ InOrder(p, history, n)
      BY <1>1, <2>1 DEF Arranged, InOrder
    <2> QED BY <2>2 DEF Keeping
  <1>4. \A i \in DOMAIN history : history[i] \in Given
    BY <1>1 DEF Given
  <1> QED BY <1>1, <1>2, <1>3, <1>4 DEF PolicyInv, PolicyType

\* List t begins with list s, of n rules.
Continues(t, s, n) == \A i \in 1..n : t[i] = s[i]

Succeeds(m, n) == m = n + 1

\* However list s came about, what is added to it is sorted in behind its equals: t and
\* g are s and the history h with one more rule, at m.
LEMMA SortedIn ==
  ASSUME NEW n \in Nat, NEW m \in Nat, Succeeds(m, n), NEW s, NEW h, NEW t, NEW g,
         Prioritised(t, m), Prioritised(g, m),
         t[m] = g[m], Continues(t, s, n), Continues(g, h, n), Keeping(s, h, n)
  PROVE  Keeping(Sorted(t), g, m)
  <1>0. PICK p \in [1..n -> 1..n] : Arranged(p, s, h, n) /\ InOrder(p, h, n)
    BY DEF Keeping
  <1> DEFINE put == [i \in 1..m |-> IF i = m THEN m ELSE p[i]]
  <1>1. /\ m \in 1..m /\ \A i \in 1..m : i \in 1..n \/ i = m
        /\ \A i \in 1..n : i \in 1..m /\ i < m /\ i # m
    BY DEF Succeeds
  <1>2. PICK rank \in [1..m -> 1..m] : Ranks(rank, t, Sorted(t), m)
    BY RankedByPriority
  <1>3. put[m] = m /\ \A i \in 1..n : put[i] = p[i] /\ put[i] \in 1..n
    BY <1>1
  <1>4. put \in [1..m -> 1..m]
    BY <1>1
  <1> HIDE DEF put
  <1>5. ASSUME NEW i \in 1..m PROVE t[put[i]] = g[i]
    <2>1. CASE i = m
      BY <1>3, <2>1
    <2>2. CASE i \in 1..n
      <3>1. put[i] = p[i] /\ p[i] \in 1..n
        BY <1>3, <2>2
      <3>2. s[p[i]] = h[i]
        BY <1>0, <2>2 DEF Arranged
      <3>3. t[p[i]] = s[p[i]] /\ h[i] = g[i]
        BY <2>2, <3>1 DEF Continues
      <3> QED BY <3>1, <3>2, <3>3
    <2> QED BY <1>1, <2>1, <2>2
  <1>6. ASSUME NEW i \in 1..m, NEW j \in 1..m, g[i].priority = g[j].priority
        PROVE  put[i] < put[j] <=> i < j
    <2>1. CASE i \in 1..n /\ j \in 1..n
      <3>1. p[i] < p[j] <=> i < j
        <4>1. CASE \A k \in 1..n : p[k] = k
          BY <2>1, <4>1
        <4>2. CASE \A k, l \in 1..n : p[k] < p[l] <=> Precedes(h, k, l)
          <5>1. h[i].priority = h[j].priority /\ h[i].priority \in Int
            BY <1>6, <2>1 DEF Prioritised, Continues
          <5>2. p[i] < p[j] <=> Precedes(h, i, j)
            BY <2>1, <4>2
          <5>3. Precedes(h, i, j) <=> i < j
            BY <5>1 DEF Precedes
          <5> QED BY <5>2, <5>3
        <4> QED BY <1>0, <4>1, <4>2 DEF InOrder
      <3> QED BY <1>3, <2>1, <3>1
    <2>2. CASE i = m
      <3>1. put[j] \in 1..m /\ put[i] = m
        BY <1>3, <1>4, <2>2
      <3>2. ~(put[i] < put[j]) /\ ~(i < j)
        BY <2>2, <3>1
      <3> QED BY <3>2
    <2>3. CASE i \in 1..n /\ j = m
      <3>1. put[i] \in 1..n /\ put[j] = m
        BY <1>3, <2>3
      <3>2. put[i] < put[j] /\ i < j
        BY <1>1, <2>3, <3>1
      <3> QED BY <3>2
    <2> QED BY <1>1, <2>1, <2>2, <2>3
  <1> DEFINE q == [i \in 1..m |-> rank[put[i]]]
  <1>7. q \in [1..m -> 1..m] /\ \A i \in 1..m : q[i] = rank[put[i]]
    BY <1>2, <1>4
  <1> HIDE DEF q
  <1>8. ASSUME NEW k \in 1..m PROVE \E i \in 1..m : q[i] = k
    <2>1. PICK j \in 1..m : rank[j] = k
      BY <1>2 DEF Ranks
    <2>2. PICK i \in 1..m : put[i] = j
      <3>1. CASE j = m
        BY <1>1, <1>3, <3>1
      <3>2. CASE j \in 1..n
        <4>1. PICK i \in 1..n : p[i] = j
          BY <1>0, <3>2 DEF Arranged
        <4>2. i \in 1..m /\ put[i] = j
          BY <1>1, <1>3, <4>1
        <4> QED BY <4>2
      <3> QED BY <1>1, <3>1, <3>2
    <2> QED BY <1>7, <2>1, <2>2
  <1>9. ASSUME NEW i \in 1..m PROVE Sorted(t)[q[i]] = g[i]
    <2>1. put[i] \in 1..m /\ q[i] = rank[put[i]]
      BY <1>4, <1>7
    <2>2. Sorted(t)[rank[put[i]]] = t[put[i]]
      BY <1>2, <2>1 DEF Ranks
    <2> QED BY <1>5, <2>1, <2>2
  <1>10. ASSUME NEW i \in 1..m, NEW j \in 1..m PROVE q[i] < q[j] <=> Precedes(g, i, j)
    <2>1. put[i] \in 1..m /\ put[j] \in 1..m /\ q[i] = rank[put[i]] /\ q[j] = rank[put[j]]
      BY <1>4, <1>7
    <2>2. rank[put[i]] < rank[put[j]] <=> Precedes(t, put[i], put[j])
      BY <1>2, <2>1 DEF Ranks
    <2>3. t[put[i]].priority = g[i].priority /\ t[put[j]].priority = g[j].priority
      BY <1>5
    <2>4. Precedes(t, put[i], put[j]) <=> Precedes(g, i, j)
      BY <1>6, <2>3 DEF Precedes
    <2> QED BY <2>1, <2>2, <2>4
  <1>11. Arranged(q, Sorted(t), g, m)
    BY <1>8, <1>9 DEF Arranged
  <1>12. InOrder(q, g, m)
    BY <1>10 DEF InOrder
  <1> QED BY <1>7, <1>11, <1>12 DEF Keeping

LEMMA AddedInOrder ==
  ASSUME NEW n \in Nat, NEW h \in Seq(RuleType), NEW s \in Seq(RuleType), NEW r \in RuleType,
         Len(h) = n, Len(s) = n, Keeping(s, h, n)
  PROVE  Keeping(Sorted(Append(s, r)), Append(h, r), n + 1)
  <1>1. PICK t, g : t = Append(s, r) /\ g = Append(h, r)
    OBVIOUS
  <1>2. /\ t \in Seq(RuleType) /\ Len(t) = n + 1 /\ t[n + 1] = r /\ \A i \in 1..n : t[i] = s[i]
        /\ g \in Seq(RuleType) /\ Len(g) = n + 1 /\ g[n + 1] = r /\ \A i \in 1..n : g[i] = h[i]
    BY <1>1, AppendProperties
  <1>3. PICK m \in Nat : m = n + 1
    OBVIOUS
  <1>4. /\ DOMAIN t = 1..m /\ DOMAIN g = 1..m
        /\ t[m] = g[m] /\ \A i \in 1..n : t[i] = s[i] /\ g[i] = h[i]
    BY <1>2, <1>3, LenProperties
  <1>5. ASSUME NEW i \in 1..m PROVE t[i].priority \in Int /\ g[i].priority \in Int
    <2>1. t[i] \in RuleType /\ g[i] \in RuleType
      BY <1>2, <1>3, ElementOfSeq
    <2> QED BY <2>1 DEF RuleType
  <1>6. Keeping(Sorted(t), g, m)
    <2>1. Prioritised(t, m) /\ Prioritised(g, m)
      BY <1>4, <1>5 DEF Prioritised
    <2>2. t[m] = g[m] /\ Continues(t, s, n) /\ Continues(g, h, n)
      BY <1>4 DEF Continues
    <2>3. Succeeds(m, n)
      BY <1>3 DEF Succeeds
    <2> QED BY <2>1, <2>2, <2>3, SortedIn
  <1> QED BY <1>1, <1>3, <1>6, Zenon

LEMMA PolicyInductive == PolicyInv /\ [Next]_vars => PolicyInv'
  <1> SUFFICES ASSUME PolicyInv, [Next]_vars PROVE PolicyInv'
    OBVIOUS
  <1>1. ASSUME NEW r \in Rules, AddRule(r) PROVE PolicyInv'
    <2>1. PICK n \in Nat : n = Len(history) /\ DOMAIN history = 1..n
      BY LenProperties DEF PolicyInv, PolicyType
    <2>2. rules \in Seq(RuleType) /\ history \in Seq(RuleType) /\ Len(rules) = n
          /\ r \in RuleType
      BY <2>1, PolicyAssumption DEF PolicyInv, PolicyType
    <2>3. Keeping(rules, history, n)
      BY <2>1 DEF PolicyInv
    <2>4. rules' = Sorted(Append(rules, r)) /\ history' = Append(history, r)
      BY <1>1 DEF AddRule
    <2>5. Keeping(rules', history', n + 1)
      BY <2>1, <2>2, <2>3, <2>4, AddedInOrder, Zenon
    <2>8. rules' \in Seq(RuleType) /\ Len(rules') = n + 1
      <3>1. Append(rules, r) \in Seq(RuleType) /\ Len(Append(rules, r)) = n + 1
        BY <2>2, AppendProperties
      <3> QED BY <2>4, <3>1, SortedTyped
    <2>6. /\ history' \in Seq(RuleType) /\ Len(history') = n + 1 /\ DOMAIN history' = 1..n + 1
          /\ history'[n + 1] = r /\ \A i \in 1..n : history'[i] = history[i]
      BY <2>1, <2>2, <2>4, AppendProperties, LenProperties
    <2>7. \A i \in 1..n + 1 : history'[i] \in Given
      BY <2>1, <2>6 DEF PolicyInv, Given
    <2> QED BY <2>5, <2>6, <2>7, <2>8 DEF PolicyInv, PolicyType
  <1>2. CASE UNCHANGED policyVars
    BY <1>2 DEF policyVars, PolicyInv, PolicyType
  <1>3. CASE HostPolicy
    BY <1>1, <1>3 DEF HostPolicy
  <1>4. CASE HostRegistry \/ ServerAnnounces \/ HostSpawns
    BY <1>2, <1>4 DEF HostRegistry, ServerAnnounces, HostSpawns
  <1>5. CASE UNCHANGED vars
    BY <1>2, <1>5 DEF vars, policyVars
  <1> QED BY <1>3, <1>4, <1>5 DEF Next

\* The rule that decides is the first in the list of those that match.
LEMMA FirstMatch ==
  ASSUME NEW s \in Seq(RuleType), NEW call, NEW k \in 1..Len(s), Decides(s[k], call),
         \A i \in 1..Len(s) : Decides(s[i], call) => k <= i
  PROVE  Evaluate(s, call) = s[k].effect
  <1> DEFINE I == {i \in 1..Len(s) : Decides(s[i], call)}
  <1>1. Len(s) \in Nat /\ k \in I /\ I \in SUBSET Nat
    BY LenProperties
  <1>2. Min(I) \in I /\ Min(I) <= k
    BY <1>1, LeastElement
  <1>3. Min(I) = k
    BY <1>1, <1>2
  <1>4. SelectInSeq(s, LAMBDA r : Decides(r, call)) = k
    BY <1>1, <1>3 DEF SelectInSeq
  <1> QED BY <1>1, <1>4 DEF Evaluate

LEMMA PrioritiesDecide == PolicyInv => PriorityDecides
  <1> SUFFICES ASSUME PolicyInv, history \notin Constructed \/ Ordered(history),
                      NEW call \in PolicyCalls, NEW i \in DOMAIN history,
                      Decides(history[i], call),
                      \A j \in DOMAIN history \ {i} : Decides(history[j], call) => Outranks(i, j)
               PROVE  Evaluate(rules, call) = history[i].effect
    BY DEF PriorityDecides, HighestPriorityFirst
  <1>1. PICK n \in Nat : n = Len(history) /\ DOMAIN history = 1..n /\ n = Len(rules)
    BY LenProperties DEF PolicyInv, PolicyType
  <1>2. PICK p \in [1..n -> 1..n] : Arranged(p, rules, history, n) /\ InOrder(p, history, n)
    BY <1>1 DEF PolicyInv, Keeping
  <1>3. \A j \in 1..n : history[j].priority \in Int
    <2>1. \A j \in 1..n : history[j] \in RuleType
      BY <1>1, ElementOfSeq DEF PolicyInv, PolicyType
    <2> QED BY <2>1 DEF RuleType
  <1>4. ASSUME NEW j \in 1..n, j # i, Precedes(history, i, j) PROVE p[i] < p[j]
    <2>1. CASE history \in Constructed /\ \A k \in 1..n : p[k] = k
      <3>1. ~(j < i)
        BY <1>1, <1>3, <1>4, <2>1 DEF Ordered, Precedes
      <3> QED BY <1>1, <1>4, <2>1, <3>1
    <2>2. CASE \A k, l \in 1..n : p[k] < p[l] <=> Precedes(history, k, l)
      BY <1>1, <1>4, <2>2
    <2> QED BY <1>2, <2>1, <2>2 DEF InOrder
  <1>5. ASSUME NEW k \in 1..n, Decides(rules[k], call) PROVE p[i] <= k
    <2>0. PICK j \in 1..n : p[j] = k
      <3>1. \A m \in 1..n : \E j \in 1..n : p[j] = m
        BY <1>2 DEF Arranged
      <3> QED BY <3>1
    <2>1. p[j] = k /\ rules[k] = history[j]
      <3>1. rules[p[j]] = history[j]
        BY <1>2 DEF Arranged
      <3> QED BY <2>0, <3>1
    <2>2. j # i => Precedes(history, i, j)
      BY <1>1, <1>5, <2>1 DEF Outranks, Precedes
    <2>3. PICK first, own \in 1..n : first = p[i] /\ own = p[j]
      BY <1>1, <1>2 DEF Arranged
    <2>4. j # i => p[i] < p[j]
      BY <1>4, <2>2
    <2>5. first = own \/ first < own
      BY <2>3, <2>4
    <2>6. first \in Nat /\ own \in Nat
      BY <2>3
    <2>7. first <= own
      BY <2>5, <2>6
    <2> QED BY <2>1, <2>3, <2>7
  <1>6. p[i] \in 1..n /\ rules[p[i]] = history[i]
    BY <1>1, <1>2 DEF Arranged
  <1>7. rules \in Seq(RuleType)
    BY DEF PolicyInv, PolicyType
  <1>8. PICK k \in 1..Len(rules) : k = p[i]
    BY <1>1, <1>6
  <1>9. Decides(rules[k], call) /\ rules[k] = history[i]
    BY <1>6, <1>8
  <1>10. \A j \in 1..Len(rules) : Decides(rules[j], call) => k <= j
    BY <1>1, <1>5, <1>8
  <1>11. Evaluate(rules, call) = rules[k].effect
    BY <1>7, <1>9, <1>10, FirstMatch
  <1> QED BY <1>9, <1>11

-----------------------------------------------------------------------------
(* The example. *)

\* Of the rules that match, one before which rule k does not come decides.
LEMMA SomeoneDecides ==
  ASSUME PolicyInv, NEW n \in Nat, n = Len(history), NEW k \in 1..n, NEW call,
         Decides(history[k], call)
  PROVE  \E w \in 1..n :
            /\ Decides(history[w], call) /\ Evaluate(rules, call) = history[w].effect
            /\ history[w] = history[k] \/ Precedes(history, w, k)
                 \/ (history \in Constructed /\ w < k)
  <1>1. rules \in Seq(RuleType) /\ Len(rules) = n
    BY DEF PolicyInv, PolicyType
  <1>2. PICK p \in [1..n -> 1..n] : Arranged(p, rules, history, n) /\ InOrder(p, history, n)
    BY DEF PolicyInv, Keeping
  <1> DEFINE I == {i \in 1..n : Decides(rules[i], call)}
             first == Min(I)
  <1>3. p[k] \in I
    <2>1. p[k] \in 1..n /\ rules[p[k]] = history[k]
      BY <1>2 DEF Arranged
    <2> QED BY <2>1
  <1>4. first \in 1..n /\ Decides(rules[first], call) /\ \A i \in I : first <= i
    <2>1. I \in SUBSET Nat
      OBVIOUS
    <2> QED BY <1>3, <2>1, LeastElement
  <1>5. Evaluate(rules, call) = rules[first].effect
    BY <1>1, <1>4, FirstMatch
  <1>6. PICK w \in 1..n : p[w] = first /\ rules[first] = history[w]
    <2>1. PICK w \in 1..n : p[w] = first
      BY <1>2, <1>4 DEF Arranged
    <2>2. rules[p[w]] = history[w]
      BY <1>2 DEF Arranged
    <2> QED BY <2>1, <2>2
  <1>7. p[w] <= p[k]
    BY <1>3, <1>4, <1>6
  <1> HIDE DEF I, first
  <1>8. CASE p[w] = p[k]
    <2>1. history[w] = history[k]
      <3>1. rules[p[k]] = history[k] /\ rules[p[w]] = history[w]
        BY <1>2 DEF Arranged
      <3> QED BY <1>8, <3>1
    <2> QED BY <1>4, <1>5, <1>6, <2>1
  <1>9. CASE p[w] < p[k]
    <2>1. Precedes(history, w, k) \/ (history \in Constructed /\ w < k)
      <3>1. CASE history \in Constructed /\ \A i \in 1..n : p[i] = i
        BY <1>9, <3>1
      <3>2. CASE \A i, j \in 1..n : p[i] < p[j] <=> Precedes(history, i, j)
        BY <1>9, <3>2
      <3> QED BY <1>2, <3>1, <3>2 DEF InOrder
    <2> QED BY <1>4, <1>5, <1>6, <2>1
  <1>10. p[w] \in 1..n /\ p[k] \in 1..n
    OBVIOUS
  <1> QED BY <1>7, <1>8, <1>9, <1>10

\* The rules of the example in the order in which it gives them.
Stated == <<
    Rule(On("Read", Paths), "allow", 0),
    Rule(On("Write", InsideWorkspace), "allow", 0),
    Rule(On("Write", Paths \ InsideWorkspace), "deny", 10),
    Rule(On("Bash", IsDangerous), "deny", 10),
    Rule(On("Bash", IsReadonly), "allow", 0),
    Rule(On("Bash", Commands), "require_approval", 0),
    Rule(On("WebFetch", {"any"}), "allow", 0),
    Rule(AllCalls, "require_approval", 0) >>

LEMMA StatedRules ==
  /\ Stated[1] = Rule(On("Read", Paths), "allow", 0)
  /\ Stated[2] = Rule(On("Write", InsideWorkspace), "allow", 0)
  /\ Stated[3] = Rule(On("Write", Paths \ InsideWorkspace), "deny", 10)
  /\ Stated[4] = Rule(On("Bash", IsDangerous), "deny", 10)
  /\ Stated[5] = Rule(On("Bash", IsReadonly), "allow", 0)
  /\ Stated[6] = Rule(On("Bash", Commands), "require_approval", 0)
  /\ Stated[7] = Rule(On("WebFetch", {"any"}), "allow", 0)
  /\ Stated[8] = Rule(AllCalls, "require_approval", 0)
  /\ DOMAIN Stated = 1..8 /\ Len(Stated) = 8
  /\ \A S : (\A i \in 1..8 : Stated[i] \in S) => Stated \in Seq(S)
  BY DEF Stated

\* What the policy of the example says: the denials come first, and only what they do
\* not concern is allowed.
LEMMA ExamplePolicy ==
  ASSUME PolicyCalls = AllCalls
  PROVE  /\ Len(CodingPolicy) = 8
         /\ \A k \in 1..8 : \E j \in 1..8 : CodingPolicy[k] = Stated[j]
         /\ \A j \in 1..8 : \E k \in 1..8 : CodingPolicy[k] = Stated[j]
         /\ \A i, j \in 1..8 : i < j => CodingPolicy[i].priority >= CodingPolicy[j].priority
  <1>1. \A i \in 1..8 : i = 1 \/ i = 2 \/ i = 3 \/ i = 4 \/ i = 5 \/ i = 6 \/ i = 7 \/ i = 8
    OBVIOUS
  <1>2. ASSUME NEW i \in 1..8 PROVE Stated[i] \in RuleType
    <2>1. /\ \A tool, args : On(tool, args) \subseteq PolicyCalls
          /\ AllCalls \subseteq PolicyCalls
      BY DEF On
    <2>2. {"allow", "deny", "require_approval"} \subseteq Effects /\ 0 \in Int /\ 10 \in Int
      BY DEF Effects
    <2>3. ASSUME NEW tool, NEW args, NEW effect \in {"allow", "deny", "require_approval"},
                 NEW priority \in {0, 10}, Stated[i] = Rule(On(tool, args), effect, priority)
          PROVE  Stated[i] \in RuleType
      <3>1. On(tool, args) \in SUBSET PolicyCalls /\ effect \in Effects /\ priority \in Int
        BY <2>1, <2>2
      <3> QED BY <2>3, <3>1 DEF Rule, RuleType
    <2>4. CASE i = 8
      <3>1. AllCalls \in SUBSET PolicyCalls /\ "require_approval" \in Effects /\ 0 \in Int
        BY <2>1, <2>2
      <3>2. Stated[i] = Rule(AllCalls, "require_approval", 0)
        BY <2>4, StatedRules
      <3> QED BY <3>1, <3>2 DEF Rule, RuleType
    <2>5. CASE i # 8
      BY <1>1, <2>3, <2>5, StatedRules
    <2> QED BY <2>4, <2>5
  <1>3. Stated \in Seq(RuleType) /\ Len(Stated) = 8 /\ DOMAIN Stated = 1..8
    BY <1>2, StatedRules
  <1>4. CodingPolicy = Sorted(Stated)
    BY DEF CodingPolicy, Stated
  <1>5. Len(CodingPolicy) = 8
    BY <1>3, <1>4, SortedTyped
  <1>6. \A i \in 1..8 : Stated[i].priority \in Int
    BY <1>2 DEF RuleType
  <1>7. PICK rank \in [1..8 -> 1..8] : Ranks(rank, Stated, CodingPolicy, 8)
    <2>1. Prioritised(Stated, 8) /\ 8 \in Nat
      BY <1>3, <1>6 DEF Prioritised
    <2> QED BY <1>4, <2>1, RankedByPriority
  <1>8. /\ \A k \in 1..8 : \E j \in 1..8 : rank[j] = k
        /\ \A i, j \in 1..8 : rank[i] < rank[j] <=> Precedes(Stated, i, j)
        /\ \A j \in 1..8 : CodingPolicy[rank[j]] = Stated[j]
    BY <1>7 DEF Ranks
  <1>9. \A k \in 1..8 : \E j \in 1..8 : CodingPolicy[k] = Stated[j]
    BY <1>8
  <1>10. \A j \in 1..8 : \E k \in 1..8 : CodingPolicy[k] = Stated[j]
    BY <1>8
  <1>11. ASSUME NEW i \in 1..8, NEW j \in 1..8, i < j
         PROVE  CodingPolicy[i].priority >= CodingPolicy[j].priority
    <2>1. PICK a \in 1..8 : rank[a] = i /\ CodingPolicy[i] = Stated[a]
      BY <1>8
    <2>2. PICK b \in 1..8 : rank[b] = j /\ CodingPolicy[j] = Stated[b]
      BY <1>8
    <2>3. Precedes(Stated, a, b)
      BY <1>8, <1>11, <2>1, <2>2
    <2>4. Stated[a].priority \in Int /\ Stated[b].priority \in Int
      BY <1>6
    <2>5. Stated[a].priority >= Stated[b].priority
      BY <2>3, <2>4 DEF Precedes
    <2> QED BY <2>1, <2>2, <2>5
  <1> QED BY <1>5, <1>9, <1>10, <1>11

\* What the host may add without opening the sandbox: nothing but denials outranks
\* the denials of the example, and no rule rewrites.
Sandboxed ==
    /\ PolicyCalls = AllCalls
    /\ \A r \in Given : /\ ~r.transformer
                        /\ r.priority > 10 => r.effect \in {"deny", "transform"}

\* The calls the sandbox is about, and those it leaves to a human.
Forbidden == On("Write", {"sibling", "outside"}) \cup On("Bash", {"dangerous"})
Unlisted == On("Bash", {"other"}) \cup On("mystery", {"any"})

\* The rules of the example by what they say of these calls.
LEMMA StatedSays ==
  ASSUME NEW j \in 1..8
  PROVE  /\ Stated[j].priority \in {0, 10}
         /\ Stated[j].priority = 10 => Stated[j].effect = "deny"
         /\ Stated[j].effect = "allow" => Stated[j].calls \cap Unlisted = {}
  <1>1. j = 1 \/ j = 2 \/ j = 3 \/ j = 4 \/ j = 5 \/ j = 6 \/ j = 7 \/ j = 8
    OBVIOUS
  <1>2. ASSUME NEW calls, Stated[j] = Rule(calls, "deny", 10)
        PROVE  Stated[j].priority = 10 /\ Stated[j].effect = "deny"
    BY <1>2 DEF Rule
  <1>3. ASSUME NEW calls, Stated[j] = Rule(calls, "require_approval", 0)
        PROVE  Stated[j].priority = 0 /\ Stated[j].effect = "require_approval"
    BY <1>3 DEF Rule
  <1>4. ASSUME NEW calls, Stated[j] = Rule(calls, "allow", 0)
        PROVE  Stated[j].priority = 0 /\ Stated[j].calls = calls
    BY <1>4 DEF Rule
  <1>5. CASE j = 3 \/ j = 4
    <2>1. Stated[j].priority = 10 /\ Stated[j].effect = "deny"
      BY <1>2, <1>5, StatedRules
    <2> QED BY <2>1
  <1>6. CASE j = 6 \/ j = 8
    <2>1. Stated[j].priority = 0 /\ Stated[j].effect = "require_approval"
      BY <1>3, <1>6, StatedRules
    <2> QED BY <2>1
  <1>7. CASE j = 1 \/ j = 2 \/ j = 5 \/ j = 7
    <2>1. /\ On("Read", Paths) \cap Unlisted = {}
          /\ On("Write", InsideWorkspace) \cap Unlisted = {}
          /\ On("Bash", IsReadonly) \cap Unlisted = {}
          /\ On("WebFetch", {"any"}) \cap Unlisted = {}
      BY DEF On, Unlisted, IsReadonly
    <2>2. PICK calls : Stated[j] = Rule(calls, "allow", 0) /\ calls \cap Unlisted = {}
      BY <1>7, <2>1, StatedRules, Zenon
    <2>3. Stated[j].priority = 0 /\ Stated[j].calls = calls
      BY <1>4, <2>2
    <2> QED BY <2>2, <2>3
  <1> QED BY <1>1, <1>5, <1>6, <1>7

\* What a rule of the example says holds of the rule given at the same place.
LEMMA BuiltOnExample ==
  ASSUME PolicyInv, Sandboxed, BuiltOn
  PROVE  \E n \in Nat :
            /\ n = Len(history) /\ n >= 8 /\ DOMAIN history = 1..n
            /\ Len(CodingPolicy) = 8
            /\ \A k \in 1..8 : k \in 1..n /\ history[k] = CodingPolicy[k]
            /\ \A k \in 1..n : history[k] \in RuleType /\ history[k] \in Given
  <1>1. PICK n \in Nat : n = Len(history) /\ DOMAIN history = 1..n
    BY LenProperties DEF PolicyInv, PolicyType
  <1>2. Len(CodingPolicy) = 8
    BY ExamplePolicy DEF Sandboxed
  <1>3. n >= 8 /\ SubSeq(history, 1, 8) = CodingPolicy
    BY <1>1, <1>2 DEF BuiltOn
  <1>4. history \in Seq(RuleType)
    BY DEF PolicyInv, PolicyType
  <1>5. ASSUME NEW k \in 1..8 PROVE k \in 1..n /\ history[k] = CodingPolicy[k]
    <2>1. SubSeq(history, 1, 8)[k] = history[k]
      BY <1>1, <1>3, <1>4, SubSeqProperties
    <2> QED BY <1>3, <2>1
  <1>6. \A k \in 1..n : history[k] \in RuleType /\ history[k] \in Given
    BY <1>1, <1>4, ElementOfSeq DEF PolicyInv
  <1> QED BY <1>1, <1>2, <1>3, <1>5, <1>6

LEMMA ForbiddenDenied ==
  ASSUME PolicyInv, Sandboxed, BuiltOn, NEW call \in Forbidden
  PROVE  Evaluate(rules, call) = "deny"
  <1>1. PICK n \in Nat :
            /\ n = Len(history) /\ n >= 8 /\ DOMAIN history = 1..n
            /\ Len(CodingPolicy) = 8
            /\ \A k \in 1..8 : k \in 1..n /\ history[k] = CodingPolicy[k]
            /\ \A k \in 1..n : history[k] \in RuleType /\ history[k] \in Given
    BY BuiltOnExample
  <1>2. PICK d \in 1..8 : /\ call \in Stated[d].calls /\ Stated[d].effect = "deny"
                          /\ Stated[d].priority = 10
    <2>1. CASE call \in On("Write", {"sibling", "outside"})
      <3>1. call \in On("Write", Paths \ InsideWorkspace)
        BY <2>1 DEF On, Paths, InsideWorkspace
      <3>2. call \in Stated[3].calls /\ Stated[3].effect = "deny" /\ Stated[3].priority = 10
        BY <3>1, StatedRules DEF Rule
      <3> QED BY <3>2
    <2>2. CASE call \in On("Bash", {"dangerous"})
      <3>1. call \in On("Bash", IsDangerous)
        BY <2>2 DEF IsDangerous
      <3>2. call \in Stated[4].calls /\ Stated[4].effect = "deny" /\ Stated[4].priority = 10
        BY <3>1, StatedRules DEF Rule
      <3> QED BY <3>2
    <2> QED BY <2>1, <2>2 DEF Forbidden
  <1>3. PICK k \in 1..8 : CodingPolicy[k] = Stated[d]
    BY ExamplePolicy DEF Sandboxed
  <1>4. /\ k \in 1..n /\ history[k].effect = "deny" /\ history[k].priority = 10
        /\ history[k] = CodingPolicy[k] /\ Decides(history[k], call)
    BY <1>1, <1>2, <1>3 DEF Decides
  <1>5. PICK w \in 1..n :
            /\ Decides(history[w], call) /\ Evaluate(rules, call) = history[w].effect
            /\ history[w] = history[k] \/ Precedes(history, w, k)
                 \/ (history \in Constructed /\ w < k)
    BY <1>1, <1>4, SomeoneDecides
  <1>6. history[w].priority \in Int
    BY <1>1 DEF RuleType
  <1>7. CASE history[w] = history[k]
    BY <1>4, <1>5, <1>7
  <1>8. CASE history[w].priority > 10
    <2>1. history[w].effect \in {"deny", "transform"} /\ ~history[w].transformer
      BY <1>1, <1>8 DEF Sandboxed
    <2> QED BY <1>5, <2>1 DEF Decides
  <1>9. CASE w < k /\ history[w].priority >= 10
    <2>1. w \in 1..8 /\ history[w] = CodingPolicy[w]
      BY <1>1, <1>4, <1>9
    <2>2. PICK j \in 1..8 : CodingPolicy[w] = Stated[j]
      BY <2>1, ExamplePolicy DEF Sandboxed
    <2>3. Stated[j].priority = 10
      <3>1. Stated[j].priority >= 10
        BY <1>9, <2>1, <2>2
      <3> QED BY <3>1, StatedSays
    <2> QED BY <1>5, <2>1, <2>2, <2>3, StatedSays
  <1>10. CASE Precedes(history, w, k)
    BY <1>4, <1>6, <1>8, <1>9, <1>10 DEF Precedes
  <1>11. CASE w < k
    <2>1. w \in 1..8 /\ history[w] = CodingPolicy[w]
      BY <1>1, <1>4, <1>11
    <2>2. CodingPolicy[w].priority >= CodingPolicy[k].priority
      BY <1>11, <2>1, ExamplePolicy DEF Sandboxed
    <2>3. history[w].priority >= 10
      BY <1>4, <2>1, <2>2
    <2> QED BY <1>9, <1>11, <2>3
  <1> QED BY <1>5, <1>7, <1>10, <1>11

LEMMA UnlistedAsks ==
  ASSUME PolicyInv, Sandboxed, BuiltOn, NEW call \in Unlisted,
         Evaluate(rules, call) \in {"allow", "transform"}
  PROVE  \E i \in Later : call \in history[i].calls /\ history[i].effect = "allow"
  <1>1. PICK n \in Nat :
            /\ n = Len(history) /\ n >= 8 /\ DOMAIN history = 1..n
            /\ Len(CodingPolicy) = 8
            /\ \A k \in 1..8 : k \in 1..n /\ history[k] = CodingPolicy[k]
            /\ \A k \in 1..n : history[k] \in RuleType /\ history[k] \in Given
    BY BuiltOnExample
  <1>2. PICK k \in 1..8 : CodingPolicy[k] = Stated[8]
    BY ExamplePolicy DEF Sandboxed
  <1>3. k \in 1..n /\ Decides(history[k], call)
    <2>1. call \in AllCalls
      BY DEF Unlisted, On
    <2>2. call \in Stated[8].calls /\ Stated[8].effect = "require_approval"
      BY <2>1, StatedRules DEF Rule
    <2>3. k \in 1..n /\ history[k] = Stated[8]
      BY <1>1, <1>2
    <2> QED BY <2>2, <2>3 DEF Decides
  <1>4. PICK w \in 1..n : Decides(history[w], call) /\ Evaluate(rules, call) = history[w].effect
    BY <1>1, <1>3, SomeoneDecides
  <1>5. ~history[w].transformer
    BY <1>1 DEF Sandboxed
  <1>6. call \in history[w].calls /\ history[w].effect = "allow"
    BY <1>4, <1>5 DEF Decides
  <1>7. ~(w \in 1..8)
    <2> SUFFICES ASSUME w \in 1..8 PROVE FALSE
      OBVIOUS
    <2>1. PICK j \in 1..8 : CodingPolicy[w] = Stated[j]
      BY ExamplePolicy DEF Sandboxed
    <2>2. history[w] = Stated[j]
      BY <1>1, <2>1
    <2> QED BY <1>6, <2>2, StatedSays
  <1>8. w \in Later
    BY <1>1, <1>7 DEF Later
  <1> QED BY <1>6, <1>8

\* What the stages make of the decision of the policy.
LEMMA RulingAdmits ==
  ASSUME NEW call \in PolicyCalls, NEW s, NEW a, Admits(Resolved, s, a, call)
  PROVE  \/ Evaluate(rules, call) \in {"allow", "transform"}
         \/ Evaluate(rules, call) = "require_approval" /\ s.approvals # {}
  <1> DEFINE x == Context(a, call)
  <1>1. call \in Names \X Args
    BY AuthorityAssumption
  <1>2. With(Resolved)!ApprovalKey(x) = call
    BY <1>1 DEF With!ApprovalKey, Context
  <1>3. Ruling[call] = Evaluate(rules, call)
    BY <1>1 DEF Ruling
  <1>4. With(Resolved)!PolicyVerdict(s, x) =
           IF Ruling[call] = "require_approval" /\ With(Resolved)!Approved(s, x) THEN "allow" ELSE Ruling[call]
    BY <1>2 DEF With!PolicyVerdict
  <1>5. With(Resolved)!PolicyVerdict(s, x) \in {"allow", "transform"}
    BY DEF Admits
  <1>6. With(Resolved)!Approved(s, x) => s.approvals # {}
    BY DEF With!Approved
  <1> QED BY <1>3, <1>4, <1>5, <1>6

LEMMA SandboxStands == PolicyInv /\ Sandboxed => SandboxHolds
  <1> SUFFICES ASSUME PolicyInv, Sandboxed, BuiltOn PROVE SandboxHolds
    BY DEF SandboxHolds
  <1>1. ASSUME NEW call \in Forbidden, NEW s \in Sessions(call), Admits(Resolved, s, agent, call)
        PROVE  FALSE
    <2>1. call \in PolicyCalls
      BY DEF Forbidden, On, Sandboxed
    <2> QED BY <1>1, <2>1, ForbiddenDenied, RulingAdmits
  <1>2. ASSUME NEW call \in Unlisted, NEW s \in Sessions(call), s.approvals = {},
               Admits(Resolved, s, agent, call)
        PROVE  \E i \in Later : call \in history[i].calls /\ history[i].effect = "allow"
    <2>1. call \in PolicyCalls
      BY DEF Unlisted, On, Sandboxed
    <2>2. Evaluate(rules, call) \in {"allow", "transform"}
      BY <1>2, <2>1, RulingAdmits
    <2> QED BY <2>2, UnlistedAsks
  <1> QED BY <1>1, <1>2 DEF SandboxHolds, Forbidden, Unlisted

\* A layer says of each name a manifest or nothing.
LEMMA LayersTyped ==
  ASSUME LayersInv
  PROVE  resolvers \in Seq([by : Writers, map : [Names -> Manifests \cup {Nothing}]])
  <1> DEFINE L == [by : Writers, map : [Names -> Manifests \cup {Nothing}]]
  <1>1. PICK d \in ServerLayers :
           resolvers \in { <<d, NamespaceDefault>>, <<OperatorOverlay, d, NamespaceDefault>>,
                           <<d, NamespaceDefault, OperatorOverlay>> }
    BY DEF LayersInv
  <1>2. d \in L
    <2>1. PICK m : d = [by |-> "server", map |-> m] /\ m = [n \in Names |-> d.map[n]]
      BY DEF ServerLayers, Discovered, Lookup
    <2>2. \A n \in Names : d.map[n] \in Manifests \cup {Nothing}
      BY LayerValues, AuthorityAssumption
    <2>3. m \in [Names -> Manifests \cup {Nothing}]
      BY <2>1, <2>2
    <2> QED BY <2>1, <2>3 DEF Writers
  <1>3. OperatorOverlay \in L
    <2>1. OperatorOverlay = [by |-> "operator", map |-> OperatorOverlay.map]
          /\ OperatorOverlay.map = [n \in Names |-> OperatorOverlay.map[n]]
      BY DEF OperatorOverlay, GlobOverlay
    <2>2. OperatorOverlay.map \in [Names -> Manifests \cup {Nothing}]
      BY <2>1, LayerValues
    <2> QED BY <2>1, <2>2 DEF Writers
  <1>4. NamespaceDefault \in L
    <2>1. NamespaceDefault = [by |-> "fallback", map |-> NamespaceDefault.map]
          /\ NamespaceDefault.map = [n \in Names |-> NamespaceDefault.map[n]]
      BY DEF NamespaceDefault, GlobOverlay
    <2>2. NamespaceDefault.map \in [Names -> Manifests \cup {Nothing}]
      BY <2>1, LayerValues, AuthorityAssumption
    <2> QED BY <2>1, <2>2 DEF Writers
  <1> HIDE DEF L
  <1>5. resolvers \in Seq(L)
    <2>1. CASE resolvers = <<d, NamespaceDefault>>
      BY <1>2, <1>4, <2>1
    <2>2. CASE resolvers = <<OperatorOverlay, d, NamespaceDefault>>
      BY <1>2, <1>3, <1>4, <2>2
    <2>3. CASE resolvers = <<d, NamespaceDefault, OperatorOverlay>>
      BY <1>2, <1>3, <1>4, <2>3
    <2> QED BY <1>1, <2>1, <2>2, <2>3
  <1> QED BY <1>5 DEF L

\* Type correctness of the composition: whatever is registered, announced, added or
\* spawned, a layer maps every name to a manifest or to nothing, the policy is a list
\* of rules, and an identity has a root.
THEOREM AuthorityTypeCorrect == Spec => []TypeOK
  <1>1. AuthorityInv /\ PolicyInv => TypeOK
    BY LayersTyped DEF AuthorityInv, PolicyInv, TypeOK, RegistryType
  <1>2. Init => PolicyInv
    BY PolicyInitially DEF Init
  <1> QED BY <1>1, <1>2, AuthorityInitially, AuthorityInductive, PolicyInductive, PTL DEF Spec

\* Authority only attenuates as it is delegated: no agent of a chain, spawned or
\* constructed, is admitted where an ancestor of it would not be.
THEOREM AuthorityAttenuates == Spec => []DelegationNeverLoosens
  BY AuthorityInitially, AuthorityInductive, DelegationAttenuates, PTL DEF Spec

\* Nothing an untrusted server declares of its tools makes a call easier than for
\* a tool discovery never saw.
THEOREM UntrustedGainsNothing == Spec => []AnnouncingGainsNothing
  BY AuthorityInitially, AuthorityInductive, AnnouncingIsNoGain, PTL DEF Spec

\* Whatever a server announces or withdraws, a manifest a human wrote keeps the
\* last word.
THEOREM OperatorHasTheLastWord == Spec => OperatorDecides
  <1>1. AuthorityInv /\ [Next]_vars
          => [ServerAnnounces =>
                \A n \in Names : Pinned(n) => Pinned(n)' /\ Resolve(n)' = Resolve(n)]_vars
    BY PinnedStays
  <1> QED BY <1>1, AuthorityInitially, AuthorityInductive, PTL DEF Spec, OperatorDecides

\* However many rules are added in whatever order and from whatever list (one that came
\* unsorted from its first add on): the decision is that of the matching rule of the
\* highest priority, the first given of its equals.
THEOREM HighestPriorityDecides == Spec => []PriorityDecides
  <1>1. Init => PolicyInv
    BY PolicyInitially DEF Init
  <1> QED BY <1>1, PolicyInductive, PrioritiesDecide, PTL DEF Spec

\* Whatever tools are registered or announced, whatever agents are spawned, and whatever
\* rules are added of which none rewrites and only denials outrank those of the example:
\* no write outside the workspace and no dangerous command is admitted, approved or not,
\* and what the example does not list is admitted unasked only where a later rule allows
\* it.
THEOREM ExampleIsSandboxed ==
  ASSUME Sandboxed
  PROVE  Spec => []SandboxHolds
  <1>1. Init => PolicyInv
    BY PolicyInitially DEF Init
  <1>2. PolicyInv => SandboxHolds
    BY SandboxStands
  <1> QED BY <1>1, <1>2, PolicyInductive, PTL DEF Spec
=============================================================================
