----------------------------- MODULE MCAdapters -----------------------------
(* Sessions whose calls come from several frameworks, for TLC. *)
EXTENDS Adapters

\* The tools of the sessions: mail always asks, pay asks once the session is
\* tainted, fetch taints it; pay and fetch of a are rewritten to b.
MCTools == {"mail", "pay", "fetch"}
MCArgs  == {"a", "b"}
MCManifest ==
    [ mail  |-> [ cost_usd |-> 2, side_effect |-> "irreversible", risk_tier |-> 1,
                  required_scopes |-> {"send"}, reaches_untrusted |-> FALSE,
                  output_classification |-> "internal", timeout_s |-> FALSE ],
      pay   |-> [ cost_usd |-> 1, side_effect |-> "write", risk_tier |-> 2,
                  required_scopes |-> {}, reaches_untrusted |-> FALSE,
                  output_classification |-> "internal", timeout_s |-> FALSE ],
      fetch |-> [ cost_usd |-> 1, side_effect |-> "read", risk_tier |-> 1,
                  required_scopes |-> {}, reaches_untrusted |-> TRUE,
                  output_classification |-> "other", timeout_s |-> FALSE ] ]
MCPolicy ==
    [k \in MCTools \X MCArgs |->
        IF k[1] = "mail" THEN "require_approval"
        ELSE IF k[2] = "a" THEN "transform" ELSE "allow"]
MCRewrite == [k \in MCTools \X MCArgs |-> "b"]
MCStages == <<"schema", "scope", "policy", "taint", "risk", "guardrails",
              "loop_detect", "budget", "rate_limit">>

MailA  == [tool |-> "mail", args |-> "a", scopes |-> {"send"}, depth |-> 0]
PayA   == [tool |-> "pay", args |-> "a", scopes |-> {}, depth |-> 1]
PayB   == [PayA EXCEPT !.args = "b"]
FetchB == [tool |-> "fetch", args |-> "b", scopes |-> {}, depth |-> 0]

\* Two hook adapters whose dictionaries overflow.
HookCall == [c1 |-> MailA, c2 |-> PayA, c3 |-> FetchB, c4 |-> PayA]
HookVia  == [c1 |-> "claude", c2 |-> "claude", c3 |-> "openai", c4 |-> "openai"]

\* The wrappers, and the OpenAI hooks, competing for one budget.
WrapCall == [c1 |-> MailA, c2 |-> MailA, c3 |-> PayB, c4 |-> FetchB]
WrapVia  == [c1 |-> "openai", c2 |-> "langgraph", c3 |-> "pydantic", c4 |-> "pydantic"]

\* One call of the Claude SDK; a payment through LangGraph next to a fetch.
AskedCall == [c1 |-> MailA]
AskedVia  == [c1 |-> "claude"]
RewriteCall == [c1 |-> PayA, c2 |-> FetchB]
RewriteVia  == [c1 |-> "langgraph", c2 |-> "langgraph"]

MCCalls == DOMAIN Call
MCApprovalIds == Calls \X {"first", "replay", "approved"}
=============================================================================
