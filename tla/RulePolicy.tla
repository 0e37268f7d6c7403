----------------------------- MODULE RulePolicy -----------------------------
(***************************************************************************)
(* RulePolicy of stages/authz.py: a list of rules, kept sorted by priority *)
(* from the first add on, of which the first that matches decides.  The    *)
(* glob and the condition of a rule are the set of calls it matches.       *)
(***************************************************************************)
EXTENDS Integers, Sequences, FiniteSets, SequencesExt

CONSTANTS
    PolicyCalls,    \* <<tool, arguments>>
    Rules,          \* the rules the host may add
    Constructed,    \* lists the policy may be constructed with
    Fallback        \* RulePolicy.default

Effects == {"allow", "deny", "require_approval", "transform"}

\* transformer: whether a TRANSFORM rule has its function.
RuleType == [calls : SUBSET PolicyCalls, effect : Effects, priority : Int,
             transformer : BOOLEAN]

ASSUME PolicyAssumption ==
    /\ Rules \subseteq RuleType
    /\ \A s \in Constructed : s \in Seq(RuleType)
    /\ Fallback \in Effects

VARIABLES
    rules,      \* RulePolicy.rules
    history     \* every rule in the order it was given, for the properties

policyVars == <<rules, history>>

PolicyType == rules \in Seq(RuleType) /\ history \in Seq(RuleType)

PolicyInit == rules \in Constructed /\ history = rules

\* s in an order of its positions, given as a set of pairs.
Ranked(s, order) ==
    [k \in DOMAIN s |-> s[CHOOSE j \in DOMAIN s :
                             Cardinality({i \in DOMAIN s : <<i, j>> \in order}) = k - 1]]

\* Mutant: of equal priorities the later one comes first.
SortedLatestFirst(s) ==
    Ranked(s, {p \in (DOMAIN s) \X (DOMAIN s) :
                  \/ s[p[1]].priority > s[p[2]].priority
                  \/ s[p[1]].priority = s[p[2]].priority /\ p[1] > p[2]})

\* list.sort(key=-priority), which is stable.
Sorted(s) ==
    Ranked(s, {p \in (DOMAIN s) \X (DOMAIN s) :
                  \/ s[p[1]].priority > s[p[2]].priority
                  \/ s[p[1]].priority = s[p[2]].priority /\ p[1] < p[2]})

\* add, which allow, deny, require_approval and rewrite call.
AddRule(r) ==
    /\ rules' = Sorted(Append(rules, r))
    /\ history' = Append(history, r)

\* A rule that decides: a TRANSFORM without its function is passed over.
Decides(r, call) == call \in r.calls /\ (r.effect = "transform" => r.transformer)

\* Mutant: the list is searched from its end.
EvaluateLast(s, call) ==
    LET i == SelectLastInSeq(s, LAMBDA r : Decides(r, call))
    IN  IF i # 0 THEN s[i].effect ELSE IF Fallback = "allow" THEN "allow" ELSE "deny"

\* evaluate; any default but ALLOW denies.
Evaluate(s, call) ==
    LET i == SelectInSeq(s, LAMBDA r : Decides(r, call))
    IN  IF i # 0 THEN s[i].effect ELSE IF Fallback = "allow" THEN "allow" ELSE "deny"

-----------------------------------------------------------------------------
Outranks(i, j) == \/ history[i].priority > history[j].priority
                  \/ history[i].priority = history[j].priority /\ i < j
Ordered(s) == \A i, j \in DOMAIN s : i < j => s[i].priority >= s[j].priority

\* "First-match rule evaluation, highest priority first", as the docstring of
\* RulePolicy says of every policy: the decision is that of a matching rule no other
\* matching one outranks, and of those the one given first.
HighestPriorityFirst ==
    \A call \in PolicyCalls : \A i \in DOMAIN history :
        /\ Decides(history[i], call)
        /\ \A j \in DOMAIN history \ {i} : Decides(history[j], call) => Outranks(i, j)
        => Evaluate(rules, call) = history[i].effect

\* What the code keeps of it, whatever is added in whatever order: a list the policy
\* is constructed with is sorted by the first add only, and decides as it came till then.
PriorityDecides == history \notin Constructed \/ Ordered(history) => HighestPriorityFirst
=============================================================================
