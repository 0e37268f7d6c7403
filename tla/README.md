# A TLA+ development of agent-tool-gateway

`agent_tool_gateway` stands between an AI agent and its tools. Every tool call
goes through a pipeline of stages (schema, scopes, policy, taint, risk,
guardrails, loop detection, budget, rate limit), each of which allows, rewrites,
denies, or asks for a human approval. The tool then runs, its result passes the
stages' after hooks, and the session is charged. Several calls of one session
may be on their way at once, and they all read and write one `SessionState`.

The specifications here model that pipeline, the session it guards, the limits
that look at the clock, the registry, rules and identities a call's authority
comes from, and the adapters that call the pipeline from four agent frameworks.
They are checked with TLC on small instances and, for every property of a passing
run that is not about liveness, proved with TLAPS: for every number of calls, every
manifest, every policy, every list of stages and every choice of faults, under the
assumptions section 4 names.

Paths below are relative to `src/src/agent_tool_gateway/`.

## 1. The system

### Components, state, operations

| Component | State | Operations | Correct when |
|---|---|---|---|
| Pipeline, `pipeline.py` | none of its own but its options `dry_run`, `fail_closed`; works on the context and the session | `build_context`, `before`, `before_approved`, `reserve`, `release`, `settle`, `after`, `call`, `_fail` | a reservation is made once and ends once; a call runs only as decided; a tool that ran is charged though its result is withheld, or its money stays reserved |
| Session and context, `context.py` | `SessionState`: money used and reserved, taint, approvals, pending questions, recent calls. `ToolCallContext`: tool, arguments, agent, metadata (holds the reservation) | `record_call`, `mark_tainted`, `clear_taint`, `AgentIdentity.spawn` | its parts agree with what the calls hold and with what humans granted |
| Authorization, `stages/authz.py` | `RulePolicy.rules` | `SchemaStage`, `ScopeStage`, `PolicyStage`, `grant_approval`, `grant_approval_by_id` | an approval covers exactly its key; a question stays redeemable; the first matching rule decides |
| Guardrails and taint, `stages/guardrails.py` | none (taint is in the session) | input and output guards, `TaintStage.before`/`after` | taint is recorded before the agent sees the result; tainted sessions do not write unasked |
| Limits, `stages/limits.py` | token buckets per key, shared by sessions | `RateLimitStage`, `BudgetStage`, `LoopDetectStage`, `TokenBucketLimiter.acquire` | what is read by the check is still true when the reservation is made |
| Risk, `stages/risk.py` | none | `RiskScorer.score`, `RiskStage` | the score is the sum of its signals, thresholds in the right order |
| Registry and discovery, `registry.py`, `discovery/mcp.py` | layers of manifests | `register`, `resolve`, manifest from MCP annotations | overrides win; an untrusted annotation never weakens a manifest |
| Adapters, `adapters/*.py` | Claude and OpenAI: a bounded map of calls in flight; LangGraph, Pydantic AI: none | the framework's hooks around `before`, execution, `after` | no call is settled or released twice, and which ways out do neither is known; the arguments that run are those approved |
| Example, `examples/claude_sdk_coding_agent.py` | a registry, a policy, an identity | `main` | no write outside the workspace, no dangerous command |
| Audit, `audit.py` | the sinks' files and lists | `emit` | an event per decision and per execution |
| Decision, manifest, errors | none | data and conversions | |

### How they interact

`Gateway.call`, or an adapter's hook, builds a context and awaits
`Gateway.before`. That awaits each stage's `before` in order, then
`audit.emit`, and only then reserves money and records the call in the history.
The caller runs the tool (with its `timeout_s`), and awaits `Gateway.after`:
after hooks in reverse order, settle, `emit`. Everything happens on one event
loop, so code between two awaits that suspend is atomic; the stages read the
session in one such section and the pipeline writes it in a later one. The
human enters between calls: `grant_approval`, `grant_approval_by_id`,
`clear_taint`, or a host that approves one call, `before_approved`.

### What is hard

- **Check then act.** Budget and loop detector read in a stage what `reserve`
  writes after later stages and the audit sink were awaited.
- **Shared approvals.** `before_approved` gives an approval to *one* call by
  putting its key into the set *all* calls of the session read.
- **Partial failure.** Tool errors, timeouts, output guards, bugs in hooks,
  failing sinks and cancellation leave the pipeline at different points, and
  each has to leave reservation, spending, approvals and questions in order.
- **Stale decisions.** A concurrent fetch taints the session, or a policy
  rewrites the arguments, after another stage has judged the call.
- **Bounds.** Pending questions, recent calls and the adapters' maps evict
  their oldest entry.
- **Authority that changes under way.** The host registers and reloads tools, a
  server announces others, rules are added in any order, agents spawn agents;
  a call's verdict composes all of them.
- **Threads.** Synchronous wrappers run `before` on private loops, so that the
  statements of the token bucket and of the loop detector interleave.
- **Adapters that evaluate again.** On resume some frameworks evaluate a call
  again with the same context, others with a fresh one.

`PROJECT.json` lists these hazards line by line, each with the properties that
would catch it, or with the reason why none does.

## 2. The modules

| Module | Models | Extends |
|---|---|---|
| `GatewayState` | manifests, session, context; `reserve`, `release`, `settle`; the verdict of each built-in stage | standard modules |
| `GatewayStep` | `before`, `before_approved` and `after` of an enforcing gateway, each as one step | `GatewayState` |
| `Gateway` | the coroutines of `before`, `before_approved`, `call`, `_fail`, `after`, the event loop, faults, the host | `GatewayStep` |
| `BudgetLedger` | abstract: money is held, then charged or given back, each in one atomic step | |
| `AdapterState` | the adapters' dictionaries, what the wrappers share | `GatewayStep` |
| `ClaudeHooks` | Claude Agent SDK: Pre, Post and failure hooks, the host's prompt, aborted runs | `AdapterState` |
| `OpenAIHooks` | OpenAI Agents SDK: planning, interruption, invocation | `AdapterState` |
| `LangGraphWrapper` | LangGraph: the wrapper, interrupt, resume and replay | `AdapterState` |
| `PydanticToolset` | Pydantic AI: `call_tool`, deferred approval, re-entry | `AdapterState` |
| `Adapters` | calls of all four on one session, and their properties | the four adapters |
| `MCAdapters` | sessions of two to four calls through several frameworks, for TLC | `Adapters` |
| `MCGateway` | a session with three tools and three calls, for TLC | `Gateway` |
| `Limits` | `LoopDetectStage` over time stamps and a full history; `TokenBucketLimiter.acquire` statement by statement, on one loop or in threads | standard modules |
| `ToolRegistry` | the layers of the registry, globs, manifests from MCP annotations, reload | standard modules |
| `RulePolicy` | the rule list, its stable sort, the first match | standard modules |
| `Delegation` | `AgentIdentity`: its chain, `spawn`, the constructor | standard modules |
| `Authority` | the three together with the stages of `GatewayState` that read them | `ToolRegistry`, `RulePolicy`, `Delegation`; instances of `GatewayState` |
| `CodingAgent` | the example's tools, policy and identity beside an MCP server | `Authority` |
| `MCLimits`, `MCAuthority` | their instances, for TLC | `Limits`; `CodingAgent` |
| `GatewayState_proofs` | lemmas on sessions, contexts, stages and the pipeline in one step | `GatewayStep`, TLAPS |
| `Gateway_proofs` | the type invariant | `Gateway`, `GatewayState_proofs` |
| `GatewayBudget_proofs` | reservations, the budget, and that `Gateway` implements `BudgetLedger` | `Gateway_proofs` |
| `GatewaySession_proofs` | spending, approvals, shadow mode | `GatewayBudget_proofs` |
| `GatewayStages_proofs` | what the stages found is still true later (approvals, loop detector, taint), questions, the pipeline in one step | `GatewaySession_proofs` |
| `Adapters_proofs` | types, money and approvals under the four frameworks | `Adapters`, `GatewayState_proofs` |
| `Limits_proofs` | the token bucket's contract and its retry hint on one loop, the bounded detector | `Limits`, TLAPS |
| `Authority_proofs` | delegation, untrusted servers, pinned manifests, the sorted rule list, the example | `CodingAgent`, TLAPS |

### State and code

| Variable | In the code |
|---|---|
| `gw` | `Gateway.dry_run` and `Gateway.fail_closed`, fixed at construction |
| `loop` | which coroutine the event loop runs |
| `pc[c]` | the point of `before` / `call` / `after` the call has reached |
| `frame[c]` | locals: the stage of the for loop (`idx`), `final`, the key `before_approved` added (`oneShot`), and how often the call was evaluated |
| `ctx[c]` | the `ToolCallContext`; `reserved` is `metadata["_budget_reserved"]` |
| `session` | the `SessionState` shared by the calls, money in cents |
| `granted` | history variable: what humans granted through `authz.py` |

`pc` goes `idle` → `before` (once per stage) → `decide` (the decision event is
written) → `shadow` or `commit` → `executing` → `after` (once per hook) →
`returned`. The other ends are `asked` (approval required, may be evaluated
again), `denied` (by a decision), `aborted` (a sink raised, or the task was
cancelled, before the tool was let run), `failed` (the tool raised or timed out),
`withheld` (the tool ran, the result is kept back), `lost` (cancelled while the tool
ran) and `uncharged` (the tool ran, and `after` was left by cancellation, or by a hook
that raised something that is no `GatewayError`). The last two keep their reservation.

An action is the code from one await to the next. `Await(c, point)` says what
the await does: if `point` is in `Suspending` the loop is free and another
coroutine may run, otherwise this one goes on. The stages and sinks in the
repository contain no await that suspends, so `Suspending = {}` is the
repository's own configuration; a policy service, an approval store or a
distributed limiter, all of which the stage interface invites, puts points into
the set. An emission that ends a path is part of the step it ends, because
nothing of the gateway's state is touched after it.

Data is abstracted to what decisions depend on. Arguments are values told apart
as `hash_args` tells them apart. A JSON schema is the set of calls it rejects, a
policy is any function from calls to decisions, an input guard is a set of calls.
The clock of the loop detector is `stale`, the number of oldest entries that have
left the window. The rate limiter, shared with other sessions, may answer either
way at any time.

### The adapters

`Gateway` takes the pipeline apart; the adapters' modules put it together again
and take the frameworks apart. `BeforeOutcomes` and `BeforeApproved` of
`GatewayStep` are `before` and `before_approved` of an enforcing gateway as one
step, which they are as long as no stage and no sink suspends. `after` has two
ways out: `AfterOutcomes`, where it settles, with or without a result, and
`AfterRaised`, where the hook of some stage raises what is no `GatewayError` and the
hooks of the later stages have run. `PipelineIsOneStep` says of the coroutines of
`Gateway` that they come to just that. Every adapter has an action for the second way
out (`PostToolUseRaises`, `InvokeAfterRaises`, `FinishRaises`, `CallToolAfterRaises`):
none of them catches such an exception, and the call ends `uncharged`. A sink that
raises is left to `Gateway`.
What interleaves is what happens between the hooks: other calls of the same
session through any framework, the host's answers, a human who grants a question
or clears the taint, tools that fail, runs that are aborted.

| Variable | In the code |
|---|---|
| `inflight` | the `_inflight` dictionaries of the Claude and the OpenAI adapter, in insertion order |
| `local[c]` | the context a wrapper's coroutine holds while it awaits the tool |
| `sdk[c]` | how far the framework is: `new`, `planned`, `asked`, `resumed`, `running`, or over |
| `answer[c]` | what the host answered |
| `shown[c]`, `ran[c]` | history: the arguments the host was asked about, and those the tool was started with |

The frameworks themselves are modelled from how the adapters use them:
`CanUseTool`, `ResolveInterruption`, `ResumeGraph` and `ResolveDeferred` are the
host's answer in each, and may never come.

### Limits and clock

`Gateway` leaves time out: its limiter may answer either way and its history ages
at any moment. `Limits` has the clock, one bucket (one tool, principal and
agent), and the two statements of the loop detector that matter, the check and
the record. A caller is a coroutine, or a thread on a private loop as
`adapters/wrap.py` makes one (`private`). On one loop a caller keeps its turn from
the detector to the record, because neither stage suspends (`Turn`); in threads
each statement of `acquire` is a step of its own: `ReadClock`, `GetBucket`,
`CreateBucket`, `Load`, `Store`, `Stamp`, and `Pass` or `Refuse`. Two threads that
find no bucket make two; the later one replaces the earlier in `_buckets`, but the
earlier thread goes on with its own, which is why `bucket[t]` is what caller `t`
made and `table` who made the current one. Tokens are scaled to integers (`Rate`
of them per tick; a call costs `Cost`). `passes`, `records` and `told` are history.

### Authority

What a call may do before any session state comes in depends on three things the
host changes while the gateway runs. `tools` and `resolvers` are the registry: the
exact names, and the layers below them in order, each a function from names to
manifests as in the code. `rules` is `RulePolicy.rules`, and `history` the same
rules in the order they were given, for the property. `agent` is an identity, which
never changes and so is its chain of scope sets. `Authority` asks the verdicts of
`GatewayState` (scope, policy, taint, risk) with the manifest the registry resolves
to and the scopes and depth of the agent, so that these are the same definitions
the pipeline uses; `Admits` says that none of them blocks. `ServerAnnounces` is a
server whose list changed: the host discovers again and swaps the layer.

## 3. What is checked

| Run | Expected | Question |
|---|---|---|
| `gateway_atomic` | pass | the stages of the repository, all nine in the default order, an enforcing gateway, with every fault but the timeout |
| `gateway_modes` | pass | the same in shadow mode, with a gateway that skips stages that raise, and with both |
| `gateway_suspending` | pass | a policy and a risk service suspend before the limits are checked; tools may hang until their timeout; liveness and refinement |
| `budget_overshoot` | violation | the same budget with a rate limiter that suspends after the budget check |
| `cancelled_call` | violation | what a cancelled call leaves behind |
| `approval_leak` | violation | an audit sink that suspends while a one-shot approval is in force |
| `adapters_hooks` | pass | Claude and OpenAI calls whose dictionaries hold one context, so that contexts are evicted, never remembered or orphaned |
| `adapters_wrappers` | pass | OpenAI, LangGraph and Pydantic AI calls on one budget, through questions, replays and re-entries |
| `claude_budget` | violation | a question answered by Claude's prompt, and the budget |
| `rewrite_lost` | violation | a rewrite by the policy followed by a question of a later stage |
| `limits` | pass | token bucket, retry hint, and the bounded history against the full one, on one loop; the last also in threads |
| `authority` | pass | the example agent and an untrusted server, while tools, rules and agents are added, replaced and withdrawn in any order |

Safety (`Gateway.tla` states each in its comment):

- `BudgetNeverOvershoots`: used + reserved ≤ limit, for concurrent calls.
- `ReservedIsHeld`: the session's reserved money is exactly what the contexts
  hold, on every error path.
- `SpendIsCharged`: the money spent is the cost of the calls for which `after` came
  to its end, once each, also when the result was withheld; and what a tool that ran
  has not been charged, or not yet, is still reserved (but for shadow mode, where it
  need not have been). So a tool's money is never free again once it ran. It does not
  say that each tool that ran is charged in the end, which is false: `gateway_atomic`
  reaches states in which a call is over and `uncharged` (see the disagreements below).
- `LoopBound`: no call is let through more than `max_repeats` times within the
  window, although the detector reads what is written later.
- `AdmittedOnlyIfApproved` (action property): when a tool is let run, the state
  of that moment needs no approval, or one was given that covers this call. It
  is stated on the *last* step of `before`, so that it also catches a check that
  was right when it was made and is stale when it is used.
- `ApprovalsAreGrants`: approvals = what humans granted + the one-shot key of
  the call being evaluated, on every way out of `before`.
- `QuestionsRedeemable` (action property): a question is listed with the key of
  its call, and leaves the list only when it is answered or as the oldest of a
  full list.
- `PipelineIsOneStep` (action property): the decision, session and context a call
  leaves, judged stage by stage over many steps, are among those `GatewayStep` gives
  for the session of the deciding moment and the arguments the evaluation began with.
  Left out are exceptions of stages in `before` and of sinks, which the adapters' modules
  do not have, and sessions in which a call has left the detector's window.
- `TaintBeforeResult` (action property): the session is tainted by the time the agent
  gets the result of a tool that reaches untrusted content.
- `ShadowEnforcesNothing`: in shadow mode no decision denies a call or asks about it,
  and each runs with the arguments it came with. Sinks that raise and cancellation end
  a call in any mode, as `aborted`, so that they hide no denial.
- `TypeOK`, with the bounds of the lists.

For the adapters (`Adapters.tla`):

- `HeldIsReserved`: no adapter gives back money that a context still holds,
  whatever the dictionaries forgot. The equation is false there: eviction leaves
  reservations behind.
- `MoneyIsHeld`: with the wrappers, and while no dictionary evicts a plan, it is an
  equation, in which the calls of `LostByWrapper` count with their whole cost: those
  whose after hook raised what is no `GatewayError` (`langgraph.py:170`,
  `pydantic_ai.py:131`, `openai_agents.py:198`), and OpenAI calls whose tool raised
  (`openai_agents.py:197`).
- `SpendIsCharged`: each call for which `after` came to its end is charged once, also
  with a context built anew, and no other call is.
- `BudgetNeverOvershoots`: the ceiling, with approvals given while other calls
  use the budget up.
- `NeverRunsUnapproved` (action property): a call that is decided and started in
  one go starts without approval only if it needs none; a replay that ignores
  the host's answer would violate it.
- `ApprovedArgumentsRun`: what the host approved is what runs (violated).

For the limits (`Limits.tla`):

- `RateBound`: any stretch of time lets through at most a burst and what came in
  meanwhile. The code keeps only a capped balance; the property looks at every
  pair of calls. It is stated for callers on one loop (see below).
- `RetryAfterIsEnough` (action property): who waits as long as the refusal said,
  with no other call let pass meanwhile, is not refused. Its exceptions are in the
  formula: callers in threads (see below), a burst below the cost of a call, a rate
  of zero. What callers in threads are told is in `told` too.
- `LoopBoundOfAll`: `max_repeats` holds of *all* calls recorded within the window,
  not only of those the deque of `recent_calls` still has, as long as the window
  holds at most one call more than the deque (with two more it is false); in threads
  one more per other caller.

For authority (`Authority.tla`, `RulePolicy.tla`, `CodingAgent.tla`):

- `PriorityDecides`: the decision is that of a matching rule of highest priority, and
  of those the one given first (`HighestPriorityFirst`), in whatever order rules are
  added. A policy constructed from a list that is not sorted is excepted until its first
  `add`: of it the formula is false (see the disagreements below).
- `DelegationNeverLoosens`: no agent may do what an ancestor of it may not, in a
  clean or tainted session, with or without an approval. The property is about
  verdicts, not scopes: depth enters the risk score, scopes the scope stage.
- `AnnouncingGainsNothing`: a tool an untrusted server announces is never admitted
  where the namespace's default would not be.
- `OperatorDecides` (action property): a manifest a human pinned stays the one in
  force, whatever the server announces or withdraws.
- `SandboxHolds`: no write outside the workspace and no dangerous command of the
  example is ever admitted, whatever rules up to the denials' priority come later.

Liveness, under `FairSpec`: `CallsEnd` (a call being evaluated or run comes to
an end) and `ReservationsDrain` (reserved money is spent or given back).

Refinement: `ImplementsLedger`, that `Gateway` with `Account(c)` for the money
of each call implements `BudgetLedger`.

### Bounds, and why they suffice

Three calls of three tools: two that compete (for a budget, an approval, or a
place in the history) and one whose effect disturbs them (it taints the
session). Each call is evaluated at most `MaxAttempts = 2` times: once to be
asked, once more after a human, the host or the agent acted. `MaxPending = 2`
with two mails asked twice, and `RecentMax` of 1 or 2, make the lists overflow.
`MaxRepeats` of 1 or 2 makes the detector speak with three calls. Budgets of
2 to 4 cents against costs of 1 and 2 let some subsets of the calls fit and not
others. The thresholds are the defaults (6 and 10 points, 12 and 20 in halves),
and `pay` with depth 1 reaches the first one only in a tainted session.
`gateway_modes` has two calls, one that asks and one that is rewritten: what a
mode must not do concerns one call and the money. `gateway_suspending` leaves out the three stages that never read the session.
There is no symmetry set: the calls differ by what they call.
Deadlock is checked; `Quiet` stutters once all calls are over.

In the adapters' runs up to four calls suffice for the same reasons.
`adapters_hooks` has `MaxInflight = 1` and two calls per dictionary so that every
remembered context can be evicted by another. It sets no budget, because approved
Claude calls do not respect one (`claude_budget`), and has one OpenAI tool whose
own `needs_approval` asks although the gateway allows. The detector's window is
longer than these sessions. `adapters_wrappers` lets the host of Pydantic AI override the
arguments by others than the call's own; its calls are not rewritten when they are
asked about (`rewrite_lost` is the run in which they are), and its one OpenAI call is
never evicted, as `MoneyIsHeld` requires (`adapters_hooks` evicts).

In `limits` two callers are enough: every pair of stretches, and in threads every
interleaving of two callers' statements, is there. Neither callers nor arguments differ
but in name, hence a symmetry set; all its properties are safety. A burst of 5 against a
cost of 2 leaves half a call in the bucket, which is where rounding and the cap decide.
`MaxClock` and `MaxAdmitted` are bounds by `private`. On one loop the clock runs to 6
with five calls: the bucket fills, overflows and drains, and stamps reach the edge of the
window of 3. In threads, where every statement is a step, it ticks once, and five calls
pass all the same, because each thread may make a full bucket. In both, the four calls
in one window that `LoopBoundOfAll` admits push one out of the deque of 3, and with
`MaxRepeats = 2` the bound (2, and 3 in threads) is below four. Within these bounds the
threads really use their slack, and need it: the property without it is violated, as is
the one with it under a detector that is off by one, or a deque that forgets one call
too early; one loop violates it when the window may have two calls more than the deque.

In `authority` the registry and policy are the example's, so the bound is in what
is added: rules up to ten in all (the example has eight), delegation two deep, one
overlay, and one server that may announce any annotations of one tool. The rules
added include one that outranks the denials and one of equal priority.

### Fairness

`WF_vars(Progress(c))` for each call, where `Progress(c)` is a step of `before`,
an after hook, the return, or the timeout. asyncio runs every ready coroutine
in turn and fires timers; nothing more is assumed. A tool need not return, so a
call whose tool hangs ends only by its `timeout_s`: `CallsEnd` rests on the
timeout, and its mutant, which leaves the tools that only read without one, breaks it. Humans, the host
and the agent have no fairness at all. Weak fairness is enough because a
coroutine that is ready stays ready until it runs: `loop` returns to `NoCall`
whenever another coroutine suspends or ends.

### Disagreements between the code and what it says

- `budget_overshoot`. `pipeline.py:8-10` and `README.md:196` promise that
  concurrent calls cannot overshoot the budget. They cannot as long as nothing
  suspends between the budget stage and `reserve`. A limiter asked over the
  network (the Redis limiter of `README.md:197`) does: two calls are checked
  before either reserves.
- `cancelled_call`. `pipeline.py:9` says a failed execution releases its
  reservation. A cancelled one does not: `CancelledError` passes through `call`
  and `after`, and the reservation stays for the rest of the session.
- `approval_leak`. `pipeline.py:190-194` says the one-shot approval is for this
  call only. While the decision's event is written to a sink that suspends, an
  identical call finds the key in the shared approvals and runs.
- `claude_budget`. `README.md:196` calls the budget a per-session ceiling, and
  `pipeline.py:190-192` says adapters evaluate an approved call again for that.
  The Claude adapter reserves after the tool ran (`claude_agent_sdk.py:116`), and
  no stage after the one that asked sees the call.
- `rewrite_lost`. When the policy rewrites the arguments and a later stage asks,
  the question shows the rewritten ones, but the second evaluation starts from
  them, decides ALLOW, and the adapter runs the request as it came
  (`langgraph.py:216`; `openai_agents.py:196` likewise).

Met while modelling, and kept out of the properties or stated in them as an
assumption:

- `pipeline.py:224` says `settle` is for a tool that ran, and `docs/ARCHITECTURE.md:28`
  that `after` settles. It does when its hooks return or raise a `GatewayError`; any
  other exception of a hook (a bug in a custom stage or guard), and cancellation in one,
  leave `after` before `settle` (`pipeline.py:229-241`). The tool ran, its cost is never
  charged, and stays reserved. The adapters do not catch it either (`claude_agent_sdk.py:120`,
  `openai_agents.py:198`, `langgraph.py:170`, `pydantic_ai.py:131`). `SpendIsCharged` and
  `MoneyIsHeld` say what remains true.
- `authz.py:131` documents "highest priority first", but a list given to the
  constructor is sorted by the first `add` only (`authz.py:137`). `PriorityDecides`
  excepts it; one of the two lists `authority` starts with is such.
- `README.md:173` lists what MCP manifests are derived from; that annotations are
  believed of `trusted=True` servers only is not quite so: an untrusted
  `destructiveHint=false` still lowers IRREVERSIBLE to WRITE (`mcp.py:64-77`).
  `AnnouncingGainsNothing` compares with the namespace's default, which is WRITE.
- The overlay templates of the same section carry no `required_scopes` and replace
  the discovered manifest, scopes included.
- A token bucket shared by threads breaks its bound (`limits.py:52`): one thread
  loads the balance, another passes, the first stores what it loaded, and two
  calls pass on one token. `RateBound` is stated for one loop. The retry hint fails in
  threads as well: one that read the clock earlier sets `updated` back, or stores a
  balance of before, and who waited is refused again (`limits.py:47-57`).
  `RetryAfterIsEnough` excepts threads.
- If an await suspends during `before_approved`, and a human grants the same key
  meanwhile, the `finally` clause discards the human's approval with the one-shot
  one (`pipeline.py:194-203`). `ApprovalsAreExact` assumes that none does.
- With a policy that rewrites and a later stage that asks, the approved re-entry of
  Pydantic AI evaluates the original arguments on a new context
  (`pydantic_ai.py:111`), so the key approved is never the one asked for.

## 4. What is proved

TLAPS checks the following for all values of the constants, under
`StateAssumption` and `GatewayAssumption` (the constants have their types; the
list of stages is not empty) and, where it says so, under the assumption named.

| Theorem | Statement | Further assumption |
|---|---|---|
| `TypeCorrect` | `Spec => []TypeOK` | |
| `ReservedMoneyIsHeld` | `Spec => []ReservedIsHeld` | |
| `BudgetSafety` | `Spec => []BudgetNeverOvershoots` | `AtomicLimits` |
| `PipelineImplementsLedger` | `Spec => ImplementsLedger` | `AtomicLimits`, a limit is set, the gateway enforces |
| `MoneySpentIsCharged` | `Spec => []SpendIsCharged` | |
| `ShadowIsTransparent` | `Spec => []ShadowEnforcesNothing` | |
| `ApprovalsAreExact` | `Spec => []ApprovalsAreGrants` | `Suspending = {}` |
| `NothingRunsUnapproved` | `Spec => AdmittedOnlyIfApproved` | `Suspending = {}`, `AskingStages` |
| `LoopsAreBounded` | `Spec => []LoopBound` | `Suspending = {}`, `Follows("loop_detect")` |
| `QuestionsCanBeAnswered` | `Spec => QuestionsRedeemable` | |
| `TaintPrecedesResult` | `Spec => TaintBeforeResult` | `Suspending = {}`, `Listed("taint")` |
| `EvaluatedInOneStep` | `Spec => PipelineIsOneStep` | `Suspending = {}` |
| `AdaptersTypeCorrect` | `Spec => []TypeOK` (of `Adapters`) | |
| `AdaptersHoldReserved` | `Spec => []HeldIsReserved` | |
| `AdaptersCharge` | `Spec => []SpendIsCharged` | |
| `AdaptersHoldExactly` | `Spec => []MoneyIsHeld` | `Roomy` |
| `AdaptersWithinBudget` | `Spec => []BudgetNeverOvershoots` | `Listed("budget")`, no Claude call |
| `AdaptersAskFirst` | `Spec => NeverRunsUnapproved` | `AskingStages` |
| `LimitsTypeCorrect` | `Spec => []TypeOK` (of `Limits`) | |
| `RateIsBounded` | `Spec => []RateBound` | |
| `RetryAfterIsHonest` | `Spec => RetryAfterIsEnough` | |
| `DetectorBoundsLoops` | `Spec => []LoopBoundOfAll` | a finite number of callers, at least one |
| `AuthorityTypeCorrect` | `Spec => []TypeOK` (of `Authority`) | |
| `AuthorityAttenuates` | `Spec => []DelegationNeverLoosens` | |
| `UntrustedGainsNothing` | `Spec => []AnnouncingGainsNothing` | |
| `OperatorHasTheLastWord` | `Spec => OperatorDecides` | |
| `HighestPriorityDecides` | `Spec => []PriorityDecides` | |
| `ExampleIsSandboxed` | `Spec => []SandboxHolds` | `Sandboxed` |

`AskingStages` says that policy, taint and risk are in the list and the policy,
the one stage that rewrites, comes before the other two; `Follows("loop_detect")`
says the same of the detector. The default list satisfies both, and the
repository's stages and sinks satisfy `Suspending = {}`. `Roomy` excepts Claude, whose
dictionary forgets contexts, and says that the OpenAI adapter's `max_inflight` is at
least the number of its calls, which `adapters_wrappers` satisfies and the code's
default of 256 makes the normal case; in `adapters_hooks`, where dictionaries forget,
only the inequality `HeldIsReserved` holds. `Sandboxed` says that no rule anybody gives
has a function that rewrites, and that what outranks the example's denials denies, or
rewrites without a function, which the policy passes over (`SandboxHolds` itself is
about policies that begin with the example's rules); the instance of `authority`
satisfies it. The theorems on the adapters,
the limits and authority are about the `Spec` of those modules, under the assumptions
they name.

`TypeOK` is inductive only with `PositionOK`: `before` indexes `Stages` with a
local, so the proof needs that a call in `before` is at an existing stage, and
that a call that can be asked has counted its evaluation.

`ReservedIsHeld` is not inductive: `settle` subtracts `min(reserved, held)`
from the session, and it takes the equation itself to see that the minimum is
the context's share, and one more fact to see that `reserve` starts from an
empty share. `HoldInv` adds that only calls that run, or are `lost` or `uncharged`, hold
money, that what a context holds is the cost of its tool, and that outside shadow mode
those calls hold it in full (`FullyHeld`). The sum over the calls is
the cardinality of a set of coins `<<call, cent>>`, so that finite-set theorems
(a union changes by the part of one call) replace induction over a sum.

`BudgetNeverOvershoots` needs to carry the check of the budget stage to the
reservation. `BudgetInv` says: a call past the budget stage, not yet decided
against, still fits (used + reserved + its cost ≤ limit). That is stable only if
no other call reserves in between, so it also says that such a call holds the
event loop, which follows from `AtomicLimits`: there is a budget stage, and
neither it nor a later stage nor the sink suspends. `budget_overshoot` is the
counterexample without the assumption. Both invariants hold in the instances of
`gateway_atomic` and `gateway_suspending` as well. The number of calls need not
be finite: only finitely many cents are held at any time, and `HoldInv` says so.

`PipelineImplementsLedger` maps every step of the pipeline to a step of the
ledger or a stutter. `Admit` of a call is `Hold`: its guard, that the cost still
fits, is `BudgetInv`. `Fail` is `GiveBack`, `SettleTo` is `Charge`, and the rest
leaves the money where it is.

`SpendIsCharged` needs `HoldInv`: a call that is settled is charged what its tool
costs only if it held just that. The money spent is again a set of cents, the
union over the calls charged, and a step changes it by at most one call's part. That
a tool that ran and is not charged has its cost reserved is `FullyHeld` of `HoldInv`.

`ApprovalsAreGrants` is false in the middle of an evaluation unless one knows
whose. `SectionInv` says that without suspending awaits an evaluation, and the
after hooks of a call, are sections of the event loop: at most one call is in
one, and it is the one that holds `loop`. `ApprovalInv` adds that the one-shot
key in force, if any, is that of the call in its section and is no granted key,
so that withdrawing it takes nothing a human gave.

`AdmittedOnlyIfApproved` is a property of the last step of `before`, while the
verdicts it speaks of were given earlier. `Judged` bridges them: whatever stage let
the call pass would do so again, with the session and the arguments of now. It
survives the call's own steps because only the policy rewrites (hence `Follows`)
and everyone else's because a call in its section is alone; `approval_leak` is the
counterexample with a suspending sink. `LoopBound` uses the same fact at admission:
the detector would still allow, so recording the call makes at most `max_repeats`.
The rest is about the deque (`RecordedRepeats`): dropping the oldest entry shifts
the positions, and an injection shows that recording adds at most one repeat.

`ShadowEnforcesNothing` needs that a call in shadow mode never gets past the
decision but by `AdmitShadow`, which restores the arguments it came with, and that
a call that runs does not change them.

`QuestionsRedeemable` is an action property that follows from the type invariant and
two lemmas on the list of questions: what pushing one (`Pushed`) and taking one out
(`TakenOut`) do to those that stay. `TaintBeforeResult` is one about the last step of a
call; `TaintInv` says of a call on its way back that its taint hook, once it has seen
the result, has tainted the session. `SectionInv` keeps anyone from clearing the taint in between.

`PipelineIsOneStep` compares many steps with one. `StepInv` carries what the
for loop has come to: in `before`, the context and the decision so far are among the
`Turns` of the walk up to the current stage, taken from the arguments the evaluation
began with and the session *of now*. It is the session of now because, in its section,
the call is alone and none of its own steps before the last one touches the session;
only the clock does, hence the exception for the window. At the end of `before` the
one-shot key is the one difference between the session the stages saw and the one it
began with (`WithdrawFacts`); `ApprovalInv` says that it is in force, so that taking it
out and putting it back is no change. On the way back, `TaintInv` says that the hooks
that have run have tainted the session already if they would (`AlreadySeen`), so that
the session of a step out of `after` is what `Seen` gives for the hooks up to there,
whether it settles or is left by a raising hook. `Turns` is a recursive function;
`TurnsUnfold` proves its equation from a set of the lengths for which it holds, as the
induction theorems of the library are out of reach.

The adapters' money is not inductive as the runs state it, because it says nothing of
the dictionaries. `KeptInv` does: their keys are distinct, the context of an entry is
one of its call and holds exactly the cost of its tool unless the call is blocked, in
which case it holds nothing; a wrapper that awaits its tool holds its context. From it each step of any
framework is one of three on the sets `Carriers` (the calls whose context can still be
settled or released), `Lost` (those of `LostByWrapper`) and `Done`: it keeps them
(`Keeps`), adds one carrier and its cost (`Reserves`), or ends one (`Ends`); `Effect` says
which, and the proof of it has one case per hook and way out. What is common to the ways
out of a wrapper, settling, releasing and dropping, is `WrapperOver`, and `PostOver` to
those of the Post hook. The invariants on the cents of those sets, `MoneyInv` (what
carriers hold is reserved, what is done is spent), `ExactInv` (with `Roomy`, nothing
else is reserved) and `WithinInv` (the limit), then follow from `Effect` alone.
`AdaptersWithinBudget` uses that the budget stage is in every walk (`WalkBlocked`): a
decision that goes ahead passed it with the session in which it reserves.
`AdaptersAskFirst` uses the walk in the same way: what a call that goes ahead came
to was allowed by policy, taint and risk alike.

`RateBound` speaks of stretches of passes, the bucket only of a balance. `Balanced(tok,
now)` ties the two: from any pass on, what passed and the balance together are at most a
burst and the refill since. `BalanceInv` says which balance that is at each statement of
`acquire` (the stored one, or the local one between load and store), and
`OneAtATime` that on one loop the statements of two callers do not mix, all use the
bucket in the table, and none with an older clock than the last. Threads break
`OneAtATime`, which is why `RateBound` is stated for one loop.

`DelegationNeverLoosens` rests on a lemma that admission is monotone
(`AdmissionMonotone`): fewer scopes, more depth and a stricter manifest never
admit a call that was not admitted. `UntrustedGainsNothing` uses the same lemma with
two manifests of one tool, and `AuthorityInv`: each layer says only what its writer
may say, and the discovered layer stays above the namespace's default. From that
it follows that a tool no human pinned resolves to a clamped manifest or to the
default, and that a pinned one resolves above the layer a server writes.

`RetryAfterIsEnough` relates a refusal to a call any time later. `WaitInv` says that
until another call passes, the balance is full or at least what the refusal left plus
what came in since, at each statement of `acquire` where a balance is held. A caller
that waited as long as it was told then finds its cost in the bucket. The property
excepts a burst below the cost, which no wait helps, and a rate of zero, for which the
code answers `inf`; and threads, where `OneAtATime` fails.

`LoopBoundOfAll` is about calls the deque may have forgotten. `Newest` says that the
deque is the end of the full history and that stamps do not run backwards, so that
whatever left it is older than all it has: if the window holds no more calls than the
deque, none that left it is in the window. With one call more,
the window reaches one entry beyond the deque, which was still in it when the detector
let the last of them through: `Wider` bounds the repeats counted with that entry
(`Late`), and `BoundInv` is both. `Spaced` counts the repeats remembered
together with the callers between check and record. On one loop there is at most one of
those and it was counted; in threads each of the others may be one ahead, hence
`Ahead`.

`PriorityDecides` compares the list, sorted again at each `add` by a stable sort and
searched up to the first match, with the history of rules. `PolicyInv` says that the
list holds each rule of the history once (a bijection between positions), in the order
they were constructed or, after an `add`, in that of priority and age. `PriorityDecides`
excepts the first of these unless the constructor's list is sorted. `SandboxHolds`
follows from it: the denials of the example are in the list whatever is added, and
only a rule of theirs, or another denial, outranks them.

Only model-checked: `CallsEnd` and `ReservationsDrain`, because liveness under fairness
is out of the prover's reach; and what the runs that expect a violation show
(`budget_overshoot`, `approval_leak`, `claude_budget` violate what the theorems prove
under an assumption).

## 5. What is not modelled, and why

- What guards do to text (PII patterns, secrets, truncation), JSON Schema
  validation, `hash_args`: string and document processing whose outcome for the
  pipeline is one bit.
- What the audit sinks write, and the errors' texts for the model.
- Floating point: money is in integer cents, so rounding in sums of
  `cost_usd` is out of scope.
- Registry: `match`, `contains`, iteration and length, which the gateway does not
  call; descriptions, tags and input schemas. Globs and rule conditions are sets.
- In the example: how a path is resolved and a command split; the demonstration
  that prints.
- The function wrapper's `bind` and `current` (context variables) and its error
  text; its private loop is the `private` of `Limits`.
- The thread of a synchronous tool that runs on after its timeout
  (`pipeline.py:14-16`): it touches nothing of the gateway.
- `WindowPasses` abstracts the clock: entries leave the window oldest first, at
  any time.
- A custom list of risk signals.
- Rates that are not whole tokens per tick, and a wall clock that goes back
  (`time.monotonic` does not).
- In the adapters: sinks that raise, unregistered tools (denied without touching the
  session),
  the synchronous LangGraph wrapper's loops in threads, the notes for the model.

## 6. Plan

What could come next, the most valuable first:

1. The synchronous wrappers' threads in the pipeline, not only in the limits: what
   `reserve` and `settle` promise when their statements interleave.
2. An abstract specification of an adapter (a call is decided, run once, and ended
   once) that all four implement, on top of `Effect` in `Adapters_proofs`.
3. `approval_leak` with an assumption on the sink weaker than `Suspending = {}`: which
   awaits of `before_approved` may suspend while approvals stay exact.

## 7. Running

    tlc -config gateway_atomic.cfg MCGateway
    tlapm GatewayBudget_proofs.tla

`gateway_atomic` (1.4 million states), `gateway_suspending` (0.2 million, with
liveness) and `limits` (4.2 million small states) take about a minute on two workers
each, the adapters' runs (0.7 and 0.3 million) half of that, the others seconds.
