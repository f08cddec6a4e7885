----------------------------- MODULE Classifier -----------------------------
(***************************************************************************)
(* FailureClassifier (domain/classifier.py): what kind of failure a payment *)
(* met, C1 (customer), C2 (infrastructure), C3 (instrument), C4 (risk) or   *)
(* C5 (technical).  A failure is a record [code, source, step, reason,      *)
(* words], normalised as the code does; words are the keywords that its     *)
(* description contains, and "none" stands for an absent field.             *)
(***************************************************************************)

C1Codes ==
  {"PAYMENT_AUTHENTICATION_ERROR", "AUTHENTICATION_FAILED", "AUTH_FAILED",
   "BAD_REQUEST_ERROR", "CARD_DECLINED", "CUSTOMER_CANCELLED",
   "CUSTOMER_ACTION_TIMEOUT", "DECLINED_BY_ISSUER", "INSUFFICIENT_BALANCE",
   "INSUFFICIENT_FUNDS", "OTP_EXPIRED", "OTP_INCORRECT", "OTP_TIMEOUT",
   "PAYMENT_CANCELLED", "PAYMENT_DECLINED", "USER_DROPPED", "USER_CANCELLED"}

C2Codes ==
  {"BAD_GATEWAY", "BANK_TIMEOUT", "BANK_UNAVAILABLE", "DOWNSTREAM_TIMEOUT",
   "GATEWAY_ERROR", "GATEWAY_TIMEOUT", "GATEWAY_UNAVAILABLE",
   "INTERNAL_SERVER_ERROR", "NETWORK_ERROR", "SERVER_ERROR",
   "SERVICE_UNAVAILABLE", "TIMEOUT"}

C3Codes ==
  {"ACCOUNT_CLOSED", "BLOCKED_CARD", "CARD_NOT_SUPPORTED", "EXPIRED_CARD",
   "INACTIVE_ACCOUNT", "INSTRUMENT_INVALID", "INVALID_ACCOUNT", "INVALID_CARD",
   "INVALID_CVV", "INVALID_EXPIRY", "INVALID_VPA", "PAYMENT_INSTRUMENT_ERROR",
   "VPA_BLOCKED", "VPA_NOT_FOUND"}

C4Codes ==
  {"BUSINESS_ERROR", "CURRENCY_NOT_SUPPORTED_FOR_ACCOUNT", "FRAUD_SUSPECTED",
   "INTERNATIONAL_NOT_ALLOWED", "LIMIT_EXCEEDED", "MAXIMUM_AMOUNT_EXCEEDED",
   "MERCHANT_RISK_REJECT", "MINIMUM_AMOUNT_NOT_MET", "RISK_CHECK_FAILED",
   "TRANSACTION_LIMIT_EXCEEDED", "VELOCITY_LIMIT_EXCEEDED"}

C5Codes ==
  {"AUTHENTICATION_ERROR", "INVALID_AMOUNT", "INVALID_ORDER_ID",
   "INVALID_REQUEST_ERROR", "MERCHANT_NOT_ACTIVE", "MISSING_REQUIRED_FIELD",
   "SIGNATURE_VERIFICATION_FAILED", "UNAUTHORIZED"}

(* The code looks for "authentication" anywhere in the step.  These are the  *)
(* steps that contain it, of all that occur in the repository's failures;    *)
(* one of them stands for any other.                                         *)
AuthenticationSteps == {"payment_authentication", "api_authentication"}

Mentions(f, keywords) == f.words \cap keywords # {}

(* What the description, the step and at last the source suggest. *)
Heuristic(f) ==
  CASE f.step \in AuthenticationSteps \/ Mentions(f, {"authentication", "otp"}) -> "C1"
    [] OTHER ->
  CASE f.source \in {"bank", "gateway"}
       /\ Mentions(f, {"timeout", "unavailable", "down"})         -> "C2"
    [] OTHER ->
  CASE Mentions(f, {"expired", "blocked", "invalid card"})        -> "C3"
    [] OTHER ->
  CASE Mentions(f, {"limit", "risk", "fraud"})                    -> "C4"
    [] OTHER ->
  CASE f.source = "customer"          -> "C1"
    [] f.source \in {"bank", "gateway"} -> "C2"
    [] f.source = "business"          -> "C4"
    [] OTHER                          -> "C5"

(* The reason overrides the code.  The reason sets, and the code sets, do   *)
(* not overlap, so that the order within each group is immaterial.          *)
ByCode(f) ==
  CASE f.code \in C3Codes -> "C3"
    [] f.code \in C4Codes -> "C4"
    [] f.code \in C5Codes -> "C5"
    [] f.code \in C2Codes -> "C2"
    [] f.code \in C1Codes -> "C1"
    [] OTHER              -> Heuristic(f)

ClassifyByText(f) ==   \* wrong: the wording decides before the code is looked up
  IF f.words # {} THEN Heuristic(f) ELSE ByCode(f)

Classify(f) ==
  CASE f.reason \in {"card_declined", "insufficient_funds", "user_cancelled", "otp_timeout"}
         -> "C1"
    [] f.reason \in {"expired_card", "invalid_card", "vpa_not_found", "account_closed"}
         -> "C3"
    [] f.reason \in {"limit_exceeded", "risk_check_failed", "fraud_suspected"}
         -> "C4"
    [] OTHER -> ByCode(f)
=============================================================================
