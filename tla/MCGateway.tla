------------------------------ MODULE MCGateway -----------------------------
(* A session with three tools, for TLC. *)
EXTENDS Gateway

MCTools == {"mail", "pay", "fetch"}
MCArgs  == {"a", "b"}

\* mail sends e-mail and always needs a human; pay writes, and its risk calls
\* for a human once the session is tainted; fetch reads the web.
MCManifest ==
    [ mail  |-> [ cost_usd |-> 2, side_effect |-> "irreversible", risk_tier |-> 1,
                  required_scopes |-> {"send"}, reaches_untrusted |-> FALSE,
                  output_classification |-> "internal", timeout_s |-> TRUE ],
      pay   |-> [ cost_usd |-> 1, side_effect |-> "write", risk_tier |-> 2,
                  required_scopes |-> {}, reaches_untrusted |-> FALSE,
                  output_classification |-> "internal", timeout_s |-> TRUE ],
      fetch |-> [ cost_usd |-> 1, side_effect |-> "read", risk_tier |-> 1,
                  required_scopes |-> {}, reaches_untrusted |-> TRUE,
                  output_classification |-> "other", timeout_s |-> TRUE ] ]

\* Payments and fetches of a are rewritten to b.
MCPolicy ==
    [k \in MCTools \X MCArgs |->
        IF k[1] = "mail" THEN "require_approval"
        ELSE IF k[2] = "a" THEN "transform" ELSE "allow"]
MCRewrite == [k \in MCTools \X MCArgs |-> "b"]

MCStages == <<"schema", "scope", "policy", "taint", "risk", "guardrails",
              "loop_detect", "budget", "rate_limit">>

\* The default order without the stages that never look at the session.
SessionStages == <<"policy", "taint", "risk", "loop_detect", "budget", "rate_limit">>

MailA  == [tool |-> "mail", args |-> "a", scopes |-> {"send"}, depth |-> 0]
MailB  == [MailA EXCEPT !.args = "b"]
PayA   == [tool |-> "pay", args |-> "a", scopes |-> {}, depth |-> 1]
FetchA == [tool |-> "fetch", args |-> "a", scopes |-> {}, depth |-> 0]

MCCall == [c1 |-> MailA, c2 |-> MailB, c3 |-> FetchA]
TwinCall == [c1 |-> MailA, c2 |-> MailA, c3 |-> FetchA]
PairCall == [c1 |-> MailA, c3 |-> FetchA]
PaidCall == [c1 |-> PayA, c2 |-> PayA, c3 |-> FetchA]
\* A policy service and a risk service, asked before the limits are checked.
BeforeLimits == {"policy", "risk"}

MCCalls == DOMAIN MCCall
PairCalls == DOMAIN PairCall
MCApprovalIds == Calls \X (1..MaxAttempts)

Enforcing == {[dry_run |-> FALSE, fail_closed |-> TRUE]}
\* Shadow mode, fail-open, and both.
Lenient == ModeType \ Enforcing
=============================================================================
