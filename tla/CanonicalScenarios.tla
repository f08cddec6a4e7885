------------------------- MODULE CanonicalScenarios -------------------------
(***************************************************************************)
(* The fifteen scenarios of the controlled benchmark                        *)
(* (eval/canonical_scenarios.py), in their order.  Amounts are in rupees    *)
(* (every amount of the source is a whole number of rupees).  Titles and    *)
(* explanations are left out; of a description only the keywords remain     *)
(* that the classifier looks for.                                           *)
(***************************************************************************)
EXTENDS Integers, Sequences

Failure(code, source, step, reason, words) ==
  [code |-> code, source |-> source, step |-> step, reason |-> reason, words |-> words]

(* A scenario that proposes what the payment was for, and is set up plainly. *)
Plain(category, failure, amount, advisory, outcome) ==
  [category |-> category, failure |-> failure, amount |-> amount,
   advisory |-> advisory, proposed |-> amount, currency |-> "INR",
   priors |-> 0, paid |-> FALSE, link |-> FALSE, outcome |-> outcome]

(* What the scenarios are set up with otherwise. *)
Proposing(s, amount) == [s EXCEPT !.proposed = amount]
InCurrency(s, currency) == [s EXCEPT !.currency = currency]
AfterPriors(s, priors) == [s EXCEPT !.priors = priors]
PaidElsewhere(s) == [s EXCEPT !.paid = TRUE]
WithLink(s) == [s EXCEPT !.link = TRUE]

Checkout(code, reason, words) ==
  Failure(code, "customer", "payment_authentication", reason, words)

Now == "P_CREATE_LINK_IMMEDIATE"
Later == "P_CREATE_LINK_DELAYED"
Auth == "payment_authorization"
BadRequest == "BAD_REQUEST_ERROR"

(* One of each category, and one above the ceiling. *)
OneOfEachKind ==
  << Plain("C1", Checkout("OTP_TIMEOUT", "otp_timeout", {"otp", "expired"}),
           2499, Now, "RECOVERED"),                                      \* CS01
     Plain("C2", Failure("GATEWAY_ERROR", "gateway", Auth, "network_timeout", {"timeout"}),
           3850, Later, "RECOVERED"),                                    \* CS02
     Plain("C3", Failure("CARD_NOT_SUPPORTED", "bank", Auth, "card_limit_exceeded", {"limit"}),
           1299, Later, "RECOVERED"),                                    \* CS03
     Plain("C1", Checkout(BadRequest, "payment_cancelled", {}),
           65000, Now, "ESCALATED"),                                     \* CS04
     Plain("C4", Failure("RISK_CHECK_FAILED", "risk", "payment_risk_check",
                         "aml_velocity_flag", {"risk"}),
           4750, Now, "ESCALATED"),                                      \* CS05
     Plain("C5", Failure("INVALID_REQUEST_ERROR", "gateway", "payment_processing",
                         "internal_error", {}),
           1890, "P_NO_ACTION", "NOT_RECOVERED") >>                     \* CS06

(* What the guardrails refuse: amount, currency, cooldown, paid elsewhere.  *)
Refused ==
  << Proposing(Plain("C1", Checkout(BadRequest, "payment_failed", {}),
                     5999, Now, "NOT_RECOVERED"), 5399),                 \* CS07
     InCurrency(Plain("C1", Checkout(BadRequest, "payment_cancelled", {}),
                      4200, Now, "NOT_RECOVERED"), "USD"),               \* CS08
     AfterPriors(Plain("C1", Checkout(BadRequest, "payment_cancelled", {}),
                       2150, Now, "NOT_RECOVERED"), 3),                  \* CS09
     PaidElsewhere(Plain("C1", Checkout(BadRequest, "secondary_success", {}),
                         3490, Now, "NOT_RECOVERED")) >>                 \* CS10

(* Infrastructure that comes back or does not, and a link that exists.      *)
Retried ==
  << Plain("C2", Failure("BANK_UNAVAILABLE", "bank", Auth, "scheduled_maintenance", {"down"}),
           1750, Later, "RECOVERED"),                                    \* CS11
     Plain("C2", Failure("GATEWAY_ERROR", "gateway", Auth, "network_timeout", {}),
           2890, Later, "NOT_RECOVERED"),                                \* CS12
     WithLink(Plain("C2", Failure("GATEWAY_ERROR", "gateway", Auth, "none", {}),
                    3100, Now, "NOT_RECOVERED")),                        \* CS13
     Plain("C1", Checkout(BadRequest, "session_expired", {"timeout"}),
           14750, Now, "RECOVERED"),                                     \* CS14
     Plain("C3", Failure("CARD_NOT_SUPPORTED", "bank", Auth, "temporary_hold", {"limit"}),
           4500, Later, "RECOVERED") >>                                  \* CS15

Scenarios == OneOfEachKind \o Refused \o Retried
=============================================================================
