-------------------------- MODULE PolicyGuardrail --------------------------
(***************************************************************************)
(* The two decision engines a recovery has to pass: EligibilityEngine      *)
(* (domain/eligibility.py), which opens the door to the agent, and         *)
(* PolicyGuardrailEngine (domain/policy_engine.py), which rules on what    *)
(* the agent proposes.  Reason codes and texts are left out; decisions,    *)
(* effective policies and the order of the rules are kept.                 *)
(*                                                                         *)
(* A context is a record [amount, currency, category, link, stale]: link   *)
(* says that the case already has a recovery link, stale that it is older  *)
(* than 72 hours.                                                          *)
(***************************************************************************)
EXTENDS Integers

CONSTANTS HighValue,    \* HIGH_VALUE_THRESHOLD_PAISE
          MaxAttempts   \* MAX_CUSTOMER_RECOVERY_ATTEMPTS_PER_DAY

ASSUME LimitAssumption == HighValue \in Nat /\ MaxAttempts \in Nat \ {0}

LinkPolicies == {"P_CREATE_LINK_IMMEDIATE", "P_CREATE_LINK_DELAYED"}
Policies == LinkPolicies \cup {"P_ESCALATE_ONLY", "P_NO_ACTION"}

Categories == {"C1", "C2", "C3", "C4", "C5"}

(* Spellings of a currency that the code tells apart.  Eligibility strips  *)
(* and upper-cases, the guardrails only upper-case, and the gateway        *)
(* adapter compares with "INR" as it is.                                   *)
Currencies == {"INR", "inr", " INR", "USD"}
EligibleCurrencies  == {"INR", "inr", " INR"}
GuardrailCurrencies == {"INR", "inr"}
GatewayCurrencies   == {"INR"}

(* str(a).upper() == str(b).upper() *)
SameCurrency(a, b) == a = b \/ {a, b} \subseteq {"INR", "inr"}

CooldownPassed(hasCustomer, attempts) ==   \* wrong: one attempt too many
  hasCustomer /\ attempts > MaxAttempts

CooldownReached(hasCustomer, attempts) == hasCustomer /\ attempts >= MaxAttempts

(***************************************************************************)
(* EligibilityEngine.evaluate: the first rule that applies decides.        *)
(* attempts counts the customer's other cases with a link, and is compared *)
(* only when the customer is known (hasCustomer).                          *)
(***************************************************************************)
Evaluate(x, hasCustomer, attempts) ==
  IF \/ x.amount <= 0
     \/ x.link
     \/ x.currency \notin EligibleCurrencies
    THEN "INELIGIBLE"
  ELSE IF x.amount > HighValue
    THEN "REQUIRES_ESCALATION"
  ELSE IF \/ CooldownReached(hasCustomer, attempts)
          \/ x.category \in {"C4", "C5"}
          \/ x.stale
    THEN "INELIGIBLE"
  ELSE "ELIGIBLE"

Ruling(decision, policy) == [decision |-> decision, policy |-> policy]

(***************************************************************************)
(* PolicyGuardrailEngine.validate for a policy id, with the amount and the *)
(* currency that are proposed.  The rules for links are in order: value    *)
(* ceiling, one link, cooldown, C4, C5, staleness.                         *)
(***************************************************************************)
Validate(x, requested, amount, currency, hasCustomer, attempts) ==
  IF \/ requested \notin Policies
     \/ amount # x.amount
     \/ ~SameCurrency(currency, x.currency)
     \/ x.currency \notin GuardrailCurrencies
    THEN Ruling("REJECT", "P_NO_ACTION")
  ELSE IF requested \notin LinkPolicies
    THEN Ruling("APPROVE", requested)
  ELSE IF x.amount > HighValue
    THEN Ruling("ESCALATE", "P_ESCALATE_ONLY")
  ELSE IF x.link \/ CooldownReached(hasCustomer, attempts)
    THEN Ruling("DOWNGRADE", "P_NO_ACTION")
  ELSE IF x.category = "C4"
    THEN Ruling("DOWNGRADE", "P_ESCALATE_ONLY")
  ELSE IF x.category = "C5" \/ x.stale
    THEN Ruling("DOWNGRADE", "P_NO_ACTION")
  ELSE Ruling("APPROVE", requested)

(* What the agent is allowed to have: RazorpayAdapter.create_payment_link  *)
(* raises ValueError instead of calling the gateway for anything else.     *)
GatewayAccepts(amount, currency) == amount > 0 /\ currency \in GatewayCurrencies
=============================================================================
