--------------------------- MODULE BenchmarkProofs ---------------------------
(***************************************************************************)
(* What TLAPS proves of the controlled benchmark, for any number of runs,  *)
(* live links and prior runs in the same tables.                           *)
(*                                                                         *)
(* What a run makes of a scenario depends on the scenario alone (Final):   *)
(* the links it counts against the cooldown are those of its own prior     *)
(* cases.  The invariant says that the rows of a run are final up to the   *)
(* scenario it is busy with and absent beyond; a summary is therefore      *)
(* taken of final rows only, and its sums are computed group by group.     *)
(***************************************************************************)
EXTENDS Benchmark, SumLemmas

-----------------------------------------------------------------------------
(*****************************************************************************)
(* The scenarios: their order, and what is said of each.                     *)
(*****************************************************************************)

(* A sequence is one over its elements and over every larger set.           *)
LEMMA OverMore ==
  ASSUME NEW A, NEW S, A \subseteq S, NEW s, s \in Seq(A)
  PROVE  s \in Seq(S)
OBVIOUS

(* The three lists of scenarios and their lengths.                           *)
LEMMA PartsAre ==
  /\ Len(OneOfEachKind) = 6 /\ OneOfEachKind \in Seq({OneOfEachKind[k] : k \in 1 .. 6})
  /\ Len(Refused) = 4       /\ Refused \in Seq({Refused[k] : k \in 1 .. 4})
  /\ Len(Retried) = 5       /\ Retried \in Seq({Retried[k] : k \in 1 .. 5})
<1>1. Len(OneOfEachKind) = 6
  BY DEF OneOfEachKind
<1>2. OneOfEachKind \in Seq({OneOfEachKind[k] : k \in 1 .. 6})
  BY DEF OneOfEachKind
<1>3. Len(Refused) = 4
  BY DEF Refused
<1>4. Refused \in Seq({Refused[k] : k \in 1 .. 4})
  BY DEF Refused
<1>5. Len(Retried) = 5
  BY DEF Retried
<1>6. Retried \in Seq({Retried[k] : k \in 1 .. 5})
  BY DEF Retried
<1> QED
  BY <1>1, <1>2, <1>3, <1>4, <1>5, <1>6

(* The scenarios are numbered from 1 to 15 in the order of the source.      *)
LEMMA InOrder ==
  /\ Ids = 1 .. 15
  /\ \A k \in 1 .. 6 : Scenarios[k] = OneOfEachKind[k]
  /\ \A k \in 1 .. 4 : Scenarios[6 + k] = Refused[k]
  /\ \A k \in 1 .. 5 : Scenarios[10 + k] = Retried[k]
<1>1. PICK A, B, C, S :
        /\ OneOfEachKind \in Seq(A) /\ Refused \in Seq(B) /\ Retried \in Seq(C)
        /\ S = A \cup B \cup C
  BY PartsAre
<1>2. A \subseteq S /\ B \subseteq S /\ C \subseteq S
  BY <1>1
<1>3. PICK s, t, u : s = OneOfEachKind /\ t = Refused /\ u = Retried
  OBVIOUS
<1>4. s \in Seq(S) /\ t \in Seq(S) /\ u \in Seq(S)
  BY <1>1, <1>2, <1>3, OverMore
<1>5. Len(s) = 6 /\ Len(t) = 4 /\ Len(u) = 5
  BY <1>3, PartsAre
<1>6. /\ DOMAIN (s \o t \o u) = 1 .. (Len(s) + Len(t) + Len(u))
      /\ \A k \in 1 .. Len(s) : (s \o t \o u)[k] = s[k]
      /\ \A k \in 1 .. Len(t) : (s \o t \o u)[Len(s) + k] = t[k]
      /\ \A k \in 1 .. Len(u) : (s \o t \o u)[Len(s) + Len(t) + k] = u[k]
  BY <1>4
<1>7. Scenarios = s \o t \o u
  BY <1>3, Zenon DEF Scenarios
<1>8. DOMAIN Scenarios = 1 .. 15
  BY <1>5, <1>6, <1>7
<1>9. ASSUME NEW k \in 1 .. 6 PROVE Scenarios[k] = OneOfEachKind[k]
  BY <1>3, <1>5, <1>6, <1>7
<1>10. ASSUME NEW k \in 1 .. 4 PROVE Scenarios[6 + k] = Refused[k]
  BY <1>3, <1>5, <1>6, <1>7
<1>11. ASSUME NEW k \in 1 .. 5 PROVE Scenarios[10 + k] = Retried[k]
  <2>1. Len(s) + Len(t) + k = 10 + k
    BY <1>5
  <2> QED
    BY <1>3, <1>5, <1>6, <1>7, <2>1
<1> QED
  BY <1>8, <1>9, <1>10, <1>11 DEF Ids

(* What is said of scenario k: how it fails, and what is proposed for it.   *)
Scene(k, category, amount, advisory, outcome) ==
  LET s == Scenarios[k]
  IN  /\ Classify(s.failure) = category /\ s.category = category
      /\ s.amount = amount /\ s.advisory = advisory /\ s.outcome = outcome
      /\ s.proposed = IF k = 7 THEN 5399 ELSE amount
      /\ s.currency = IF k = 8 THEN "USD" ELSE "INR"
      /\ s.priors = IF k = Frequent THEN 3 ELSE 0
      /\ s.paid \in BOOLEAN /\ (s.paid <=> k = 10)
      /\ s.link \in BOOLEAN /\ (s.link <=> k = 13)

(* What is said of CS01 to CS15, and how the classifier sorts them.          *)
LEMMA CS01 == Scene(1, "C1", 2499, Now, "RECOVERED")
<1> DEFINE failure == Checkout("OTP_TIMEOUT", "otp_timeout", {"otp", "expired"})
<1>1. Scenarios[1] = Plain("C1", failure, 2499, Now, "RECOVERED")
  <2>1. Scenarios[1] = OneOfEachKind[1]
    BY InOrder
  <2> QED
    BY <2>1 DEF OneOfEachKind
<1>2. Classify(failure) = "C1"
  BY DEF Checkout, Failure, BadRequest, Auth, Classify, ByCode, C1Codes, C2Codes, C3Codes, C4Codes, C5Codes
<1> HIDE DEF failure
<1> QED
  BY <1>1, <1>2 DEF Scene, Plain, Now, Later, Frequent

LEMMA CS02 == Scene(2, "C2", 3850, Later, "RECOVERED")
<1> DEFINE failure == Failure("GATEWAY_ERROR", "gateway", Auth, "network_timeout", {"timeout"})
<1>1. Scenarios[2] = Plain("C2", failure, 3850, Later, "RECOVERED")
  <2>1. Scenarios[2] = OneOfEachKind[2]
    BY InOrder
  <2> QED
    BY <2>1 DEF OneOfEachKind
<1>2. Classify(failure) = "C2"
  BY DEF Checkout, Failure, BadRequest, Auth, Classify, ByCode, C1Codes, C2Codes, C3Codes, C4Codes, C5Codes
<1> HIDE DEF failure
<1> QED
  BY <1>1, <1>2 DEF Scene, Plain, Now, Later, Frequent

LEMMA CS03 == Scene(3, "C3", 1299, Later, "RECOVERED")
<1> DEFINE failure == Failure("CARD_NOT_SUPPORTED", "bank", Auth, "card_limit_exceeded", {"limit"})
<1>1. Scenarios[3] = Plain("C3", failure, 1299, Later, "RECOVERED")
  <2>1. Scenarios[3] = OneOfEachKind[3]
    BY InOrder
  <2> QED
    BY <2>1 DEF OneOfEachKind
<1>2. Classify(failure) = "C3"
  BY DEF Checkout, Failure, BadRequest, Auth, Classify, ByCode, C1Codes, C2Codes, C3Codes, C4Codes, C5Codes
<1> HIDE DEF failure
<1> QED
  BY <1>1, <1>2 DEF Scene, Plain, Now, Later, Frequent

LEMMA CS04 == Scene(4, "C1", 65000, Now, "ESCALATED")
<1> DEFINE failure == Checkout(BadRequest, "payment_cancelled", {})
<1>1. Scenarios[4] = Plain("C1", failure, 65000, Now, "ESCALATED")
  <2>1. Scenarios[4] = OneOfEachKind[4]
    BY InOrder
  <2> QED
    BY <2>1 DEF OneOfEachKind
<1>2. Classify(failure) = "C1"
  BY DEF Checkout, Failure, BadRequest, Auth, Classify, ByCode, C1Codes, C2Codes, C3Codes, C4Codes, C5Codes
<1> HIDE DEF failure
<1> QED
  BY <1>1, <1>2 DEF Scene, Plain, Now, Later, Frequent

LEMMA CS05 == Scene(5, "C4", 4750, Now, "ESCALATED")
<1> DEFINE failure == Failure("RISK_CHECK_FAILED", "risk", "payment_risk_check", "aml_velocity_flag", {"risk"})
<1>1. Scenarios[5] = Plain("C4", failure, 4750, Now, "ESCALATED")
  <2>1. Scenarios[5] = OneOfEachKind[5]
    BY InOrder
  <2> QED
    BY <2>1 DEF OneOfEachKind
<1>2. Classify(failure) = "C4"
  BY DEF Checkout, Failure, BadRequest, Auth, Classify, ByCode, C1Codes, C2Codes, C3Codes, C4Codes, C5Codes
<1> HIDE DEF failure
<1> QED
  BY <1>1, <1>2 DEF Scene, Plain, Now, Later, Frequent

LEMMA CS06 == Scene(6, "C5", 1890, "P_NO_ACTION", "NOT_RECOVERED")
<1> DEFINE failure == Failure("INVALID_REQUEST_ERROR", "gateway", "payment_processing", "internal_error", {})
<1>1. Scenarios[6] = Plain("C5", failure, 1890, "P_NO_ACTION", "NOT_RECOVERED")
  <2>1. Scenarios[6] = OneOfEachKind[6]
    BY InOrder
  <2> QED
    BY <2>1 DEF OneOfEachKind
<1>2. Classify(failure) = "C5"
  BY DEF Checkout, Failure, BadRequest, Auth, Classify, ByCode, C1Codes, C2Codes, C3Codes, C4Codes, C5Codes
<1> HIDE DEF failure
<1> QED
  BY <1>1, <1>2 DEF Scene, Plain, Now, Later, Frequent

LEMMA CS07 == Scene(7, "C1", 5999, Now, "NOT_RECOVERED")
<1> DEFINE failure == Checkout(BadRequest, "payment_failed", {})
<1>1. Scenarios[7] = Proposing(Plain("C1", failure, 5999, Now, "NOT_RECOVERED"), 5399)
  <2>1. Scenarios[6 + 1] = Refused[1]
    BY InOrder
  <2> QED
    BY <2>1 DEF Refused
<1>2. Classify(failure) = "C1"
  BY DEF Checkout, Failure, BadRequest, Auth, Classify, ByCode, C1Codes, C2Codes, C3Codes, C4Codes, C5Codes
<1> HIDE DEF failure
<1> QED
  BY <1>1, <1>2 DEF Scene, Plain, Now, Later, Frequent, Proposing

LEMMA CS08 == Scene(8, "C1", 4200, Now, "NOT_RECOVERED")
<1> DEFINE failure == Checkout(BadRequest, "payment_cancelled", {})
<1>1. Scenarios[8] = InCurrency(Plain("C1", failure, 4200, Now, "NOT_RECOVERED"), "USD")
  <2>1. Scenarios[6 + 2] = Refused[2]
    BY InOrder
  <2> QED
    BY <2>1 DEF Refused
<1>2. Classify(failure) = "C1"
  BY DEF Checkout, Failure, BadRequest, Auth, Classify, ByCode, C1Codes, C2Codes, C3Codes, C4Codes, C5Codes
<1> HIDE DEF failure
<1> QED
  BY <1>1, <1>2 DEF Scene, Plain, Now, Later, Frequent, InCurrency

LEMMA CS09 == Scene(9, "C1", 2150, Now, "NOT_RECOVERED")
<1> DEFINE failure == Checkout(BadRequest, "payment_cancelled", {})
<1>1. Scenarios[9] = AfterPriors(Plain("C1", failure, 2150, Now, "NOT_RECOVERED"), 3)
  <2>1. Scenarios[6 + 3] = Refused[3]
    BY InOrder
  <2> QED
    BY <2>1 DEF Refused
<1>2. Classify(failure) = "C1"
  BY DEF Checkout, Failure, BadRequest, Auth, Classify, ByCode, C1Codes, C2Codes, C3Codes, C4Codes, C5Codes
<1> HIDE DEF failure
<1> QED
  BY <1>1, <1>2 DEF Scene, Plain, Now, Later, Frequent, AfterPriors

LEMMA CS10 == Scene(10, "C1", 3490, Now, "NOT_RECOVERED")
<1> DEFINE failure == Checkout(BadRequest, "secondary_success", {})
<1>1. Scenarios[10] = PaidElsewhere(Plain("C1", failure, 3490, Now, "NOT_RECOVERED"))
  <2>1. Scenarios[6 + 4] = Refused[4]
    BY InOrder
  <2> QED
    BY <2>1 DEF Refused
<1>2. Classify(failure) = "C1"
  BY DEF Checkout, Failure, BadRequest, Auth, Classify, ByCode, C1Codes, C2Codes, C3Codes, C4Codes, C5Codes
<1> HIDE DEF failure
<1> QED
  BY <1>1, <1>2 DEF Scene, Plain, Now, Later, Frequent, PaidElsewhere

LEMMA CS11 == Scene(11, "C2", 1750, Later, "RECOVERED")
<1> DEFINE failure == Failure("BANK_UNAVAILABLE", "bank", Auth, "scheduled_maintenance", {"down"})
<1>1. Scenarios[11] = Plain("C2", failure, 1750, Later, "RECOVERED")
  <2>1. Scenarios[10 + 1] = Retried[1]
    BY InOrder
  <2> QED
    BY <2>1 DEF Retried
<1>2. Classify(failure) = "C2"
  BY DEF Checkout, Failure, BadRequest, Auth, Classify, ByCode, C1Codes, C2Codes, C3Codes, C4Codes, C5Codes
<1> HIDE DEF failure
<1> QED
  BY <1>1, <1>2 DEF Scene, Plain, Now, Later, Frequent

LEMMA CS12 == Scene(12, "C2", 2890, Later, "NOT_RECOVERED")
<1> DEFINE failure == Failure("GATEWAY_ERROR", "gateway", Auth, "network_timeout", {})
<1>1. Scenarios[12] = Plain("C2", failure, 2890, Later, "NOT_RECOVERED")
  <2>1. Scenarios[10 + 2] = Retried[2]
    BY InOrder
  <2> QED
    BY <2>1 DEF Retried
<1>2. Classify(failure) = "C2"
  BY DEF Checkout, Failure, BadRequest, Auth, Classify, ByCode, C1Codes, C2Codes, C3Codes, C4Codes, C5Codes
<1> HIDE DEF failure
<1> QED
  BY <1>1, <1>2 DEF Scene, Plain, Now, Later, Frequent

LEMMA CS13 == Scene(13, "C2", 3100, Now, "NOT_RECOVERED")
<1> DEFINE failure == Failure("GATEWAY_ERROR", "gateway", Auth, "none", {})
<1>1. Scenarios[13] = WithLink(Plain("C2", failure, 3100, Now, "NOT_RECOVERED"))
  <2>1. Scenarios[10 + 3] = Retried[3]
    BY InOrder
  <2> QED
    BY <2>1 DEF Retried
<1>2. Classify(failure) = "C2"
  BY DEF Checkout, Failure, BadRequest, Auth, Classify, ByCode, C1Codes, C2Codes, C3Codes, C4Codes, C5Codes
<1> HIDE DEF failure
<1> QED
  BY <1>1, <1>2 DEF Scene, Plain, Now, Later, Frequent, WithLink

LEMMA CS14 == Scene(14, "C1", 14750, Now, "RECOVERED")
<1> DEFINE failure == Checkout(BadRequest, "session_expired", {"timeout"})
<1>1. Scenarios[14] = Plain("C1", failure, 14750, Now, "RECOVERED")
  <2>1. Scenarios[10 + 4] = Retried[4]
    BY InOrder
  <2> QED
    BY <2>1 DEF Retried
<1>2. Classify(failure) = "C1"
  BY DEF Checkout, Failure, BadRequest, Auth, Classify, ByCode, C1Codes, C2Codes, C3Codes, C4Codes, C5Codes
<1> HIDE DEF failure
<1> QED
  BY <1>1, <1>2 DEF Scene, Plain, Now, Later, Frequent

LEMMA CS15 == Scene(15, "C3", 4500, Later, "RECOVERED")
<1> DEFINE failure == Failure("CARD_NOT_SUPPORTED", "bank", Auth, "temporary_hold", {"limit"})
<1>1. Scenarios[15] = Plain("C3", failure, 4500, Later, "RECOVERED")
  <2>1. Scenarios[10 + 5] = Retried[5]
    BY InOrder
  <2> QED
    BY <2>1 DEF Retried
<1>2. Classify(failure) = "C3"
  BY DEF Checkout, Failure, BadRequest, Auth, Classify, ByCode, C1Codes, C2Codes, C3Codes, C4Codes, C5Codes
<1> HIDE DEF failure
<1> QED
  BY <1>1, <1>2 DEF Scene, Plain, Now, Later, Frequent

-----------------------------------------------------------------------------
(*****************************************************************************)
(* What a run makes of the row of a scenario.                                *)
(*****************************************************************************)

(* A scenario has an amount and the category that the classifier gives it.   *)
LEMMA ScenesTyped ==
  ASSUME NEW k \in Ids
  PROVE  /\ Scenarios[k].amount \in Nat /\ Scenarios[k].link \in BOOLEAN
         /\ Scenarios[k].priors = IF k = Frequent THEN 3 ELSE 0
         /\ Classify(Scenarios[k].failure) = Scenarios[k].category
         /\ Scenarios[k].category \in Categories
<1>1. k \in 1 .. 15
  BY InOrder
<1> QED
  BY <1>1, CS01, CS02, CS03, CS04, CS05, CS06, CS07, CS08, CS09, CS10, CS11, CS12, CS13, CS14, CS15
  DEF Scene, Categories

(* The prior links of the customer of scenario k, and the row of k at the    *)
(* commits: classified, judged eligible or not, and as it comes out.         *)
Prior(k) == IF k = Frequent THEN Scenarios[Frequent].priors ELSE 0
Sorted(k) == [Ingested(k) EXCEPT !.category = Classify(Scenarios[k].failure)]
Checked(k) == Judged(Sorted(k), Eligibility(k, Sorted(k), Prior(k)))
Final(k) == Settled(k, Checked(k), Guardrail(k, Checked(k), Prior(k)))

(* A judged row is a row, changed in its state and its eligibility only.     *)
LEMMA JudgedIs ==
  ASSUME NEW row \in Rows, NEW e \in {"ELIGIBLE", "INELIGIBLE", "REQUIRES_ESCALATION"},
         NEW new, new = Judged(row, e)
  PROVE  /\ new \in Rows
         /\ new.eligibility = e /\ new.category = row.category /\ new.link = row.link
         /\ new.policy = row.policy /\ new.action = row.action /\ new.recovered = row.recovered
BY DEF Judged, Rows, Preserved

(* What is left of a row when the ruling is carried out, by the ruling.      *)
LEMMA SettledIs ==
  ASSUME NEW k \in Ids, NEW row \in Rows, NEW ruling, ruling.policy \in Policies,
         NEW new, new = Settled(k, row, ruling)
  PROVE  /\ new \in Rows /\ new.state \in Preserved
         /\ new.category = row.category /\ new.policy = ruling.policy
         /\ new.eligibility = Reconciled(row.eligibility, ruling)
         /\ ruling.decision = "APPROVE" /\ ruling.policy \in LinkPolicies =>
              /\ new.link = TRUE /\ new.action = "EXECUTED"
              /\ IF Scenarios[k].outcome = "RECOVERED"
                   THEN new.state = "RECOVERED" /\ new.recovered = Scenarios[k].amount
                   ELSE new.state = "ACTION_EXECUTED" /\ new.recovered = row.recovered
         /\ ruling.policy = "P_ESCALATE_ONLY" =>
              /\ new.link = row.link /\ new.recovered = row.recovered
              /\ new.action = "EXECUTED" /\ new.state = "ESCALATED"
         /\ ruling.policy = "P_NO_ACTION" =>
              /\ new.link = row.link /\ new.recovered = row.recovered
              /\ new.action = "BLOCKED" /\ new.state = "TERMINAL_NO_ACTION"
BY DEF Settled, Acted, Rows, Preserved, Policies, LinkPolicies, Reconciled

(* A settled row is a row, and in a state that nothing moves on from.        *)
LEMMA SettledTyped ==
  ASSUME NEW k \in Ids, NEW row \in Rows, NEW ruling, ruling.policy \in Policies,
         NEW new, new = Settled(k, row, ruling)
  PROVE  /\ new \in Rows /\ new.state \in Preserved
         /\ new.category = row.category /\ new.policy = ruling.policy
BY SettledIs

(* Whatever the guardrails say, it names a policy.                           *)
LEMMA GuardrailTyped ==
  ASSUME NEW k, NEW row, NEW attempts
  PROVE  Guardrail(k, row, attempts).policy \in Policies
<1>1. PICK known : known = TRUE
  OBVIOUS
<1>2. Guardrail(k, row, attempts) = Ruling("REJECT", "P_NO_ACTION")
      \/ \E x, requested, amount, currency :
           Guardrail(k, row, attempts) = Validate(x, requested, amount, currency, known, attempts)
  BY <1>1, Zenon DEF Guardrail
<1>3. ASSUME NEW x, NEW requested, NEW amount, NEW currency
      PROVE Validate(x, requested, amount, currency, known, attempts).policy \in Policies
  BY DEF Validate, Ruling, Policies, LinkPolicies
<1> QED
  BY <1>2, <1>3 DEF Ruling, Policies

(* The row of a scenario at its commits.                                     *)
LEMMA Stages ==
  ASSUME NEW k \in Ids
  PROVE  /\ Ingested(k) \in Rows /\ Sorted(k) \in Rows /\ Checked(k) \in Rows /\ Final(k) \in Rows
         /\ Ingested(k).category = "none" /\ Ingested(k).eligibility = "none"
         /\ Sorted(k).category \in Categories /\ Sorted(k).eligibility = "none"
         /\ Checked(k).category \in Categories /\ Checked(k).eligibility # "none"
         /\ Final(k).category \in Categories /\ Final(k).policy \in Policies
         /\ Final(k).state \in Preserved
<1>1. Ingested(k) \in Rows /\ Ingested(k).category = "none" /\ Ingested(k).eligibility = "none"
  BY ScenesTyped DEF Ingested, Rows
<1>2. Sorted(k) \in Rows /\ Sorted(k).category \in Categories /\ Sorted(k).eligibility = "none"
  BY <1>1, ScenesTyped DEF Sorted, Rows
<1>3. Eligibility(k, Sorted(k), Prior(k)) \in {"ELIGIBLE", "INELIGIBLE", "REQUIRES_ESCALATION"}
  BY DEF Eligibility, Evaluate
<1>4. /\ Checked(k) \in Rows /\ Checked(k).category \in Categories
      /\ Checked(k).eligibility # "none"
  BY <1>2, <1>3, JudgedIs DEF Checked
<1>5. Guardrail(k, Checked(k), Prior(k)).policy \in Policies
  BY GuardrailTyped
<1>6. PICK row, ruling : row = Checked(k) /\ ruling = Guardrail(k, Checked(k), Prior(k))
  OBVIOUS
<1>7. Final(k) = Settled(k, row, ruling)
  BY <1>6, Zenon DEF Final
<1>8. /\ Final(k) \in Rows /\ Final(k).category \in Categories /\ Final(k).policy \in Policies
      /\ Final(k).state \in Preserved
  BY <1>4, <1>5, <1>6, <1>7, SettledTyped
<1> QED
  BY <1>1, <1>2, <1>4, <1>8

(* A row is not the absent one.                                              *)
LEMMA RowsAreOnRecord ==
  ASSUME NEW row \in Rows
  PROVE  row # NoRow
<1>1. row.state # "none"
  BY DEF Rows, Preserved
<1> QED
  BY <1>1 DEF NoRow

-----------------------------------------------------------------------------
(*****************************************************************************)
(* The invariant: a run is in line, whatever the others do.                  *)
(*****************************************************************************)

(* The variables stay within their types.                                    *)
Types ==
  /\ rows \in [Runs -> [Ids -> Rows \cup {NoRow}]]
  /\ seeded \in [Runs -> {0, Scenarios[Frequent].priors}]
  /\ at \in [Runs -> Ids \cup {0}]
  /\ started \in Seq(Runs)
  /\ summary = [r \in Runs |-> summary[r]]
  /\ live \in [Ids -> 0 .. MaxLiveLinks]

(* The rows of a scenario while a run is busy with it.                       *)
Underway(k) == {Ingested(k), Sorted(k), Checked(k)}

(* The rows of a run, broken off or not: every scenario is untouched, under  *)
(* way or come out, and before the next is begun it has come out.            *)
InLine(table) ==
  \A k \in Ids : /\ table[k] \in Underway(k) \cup {NoRow, Final(k)}
                 /\ k + 1 \in Ids /\ table[k + 1] # NoRow => table[k] = Final(k)

(* The rows of a run that is busy with scenario i.                           *)
Reached(table, i) ==
  \A k \in Ids : /\ k < i => table[k] = Final(k)
                 /\ k = i => table[k] \in Underway(k)
                 /\ k > i => table[k] = NoRow

(* The rows of a run that has gone through.                                  *)
Done(table) == \A k \in Ids : table[k] = Final(k)

(* What every step keeps of run r: nothing is there before it starts; busy,  *)
(* it has its own prior cases and no summary; a summary was taken of the     *)
(* rows as they are, and of all of them.                                     *)
Kept(r) ==
  /\ r \notin Range(started) =>
       at[r] = 0 /\ summary[r] = NoSummary /\ \A k \in Ids : rows[r][k] = NoRow
  /\ at[r] # 0 => /\ seeded[r] = Scenarios[Frequent].priors
                  /\ summary[r] = NoSummary
                  /\ Reached(rows[r], at[r])
  /\ summary[r] # NoSummary => summary[r] = Summarised(rows[r]) /\ Done(rows[r])
  /\ InLine(rows[r])

(* The inductive invariant.                                                  *)
Inv == Types /\ \A r \in Runs : Kept(r)

(* It holds at first.                                                        *)
LEMMA InitHolds == ASSUME Init PROVE Inv
<1>1. Types
  BY RunAssumption DEF Init, Types
<1>2. ASSUME NEW r \in Runs PROVE Kept(r)
  BY DEF Init, Kept, InLine
<1> QED
  BY <1>1, <1>2 DEF Inv

(* The elements of a sequence with one more.                                 *)
LEMMA OneMoreInRange ==
  ASSUME NEW S, NEW s \in Seq(S), NEW x \in S
  PROVE  Range(Append(s, x)) = Range(s) \cup {x}
<1>1. DOMAIN Append(s, x) = DOMAIN s \cup {Len(s) + 1}
  OBVIOUS
<1>2. Append(s, x)[Len(s) + 1] = x /\ \A i \in DOMAIN s : Append(s, x)[i] = s[i]
  OBVIOUS
<1> QED
  BY <1>1, <1>2 DEF Range

(* A step of one run keeps the invariant if the rows and the summary it      *)
(* leaves are as they should be: the other runs do not matter.               *)
LEMMA RunStep ==
  ASSUME Inv, NEW r \in Runs,
         NEW table \in [Ids -> Rows \cup {NoRow}], rows' = [rows EXCEPT ![r] = table],
         NEW i \in Ids \cup {0}, at' = [at EXCEPT ![r] = i],
         NEW s, summary' = [summary EXCEPT ![r] = s],
         NEW n \in {0, Scenarios[Frequent].priors}, seeded' = [seeded EXCEPT ![r] = n],
         live' = live,
         \/ started' = started /\ r \in Range(started)
         \/ started' = Append(started, r),
         i # 0 => /\ n = Scenarios[Frequent].priors
                  /\ s = NoSummary
                  /\ Reached(table, i),
         s # NoSummary => s = Summarised(table) /\ Done(table),
         InLine(table)
  PROVE  Inv'
<1>0. Types
  BY DEF Inv
<1>1. Types'
  <2>1. rows' \in [Runs -> [Ids -> Rows \cup {NoRow}]]
    BY <1>0 DEF Types
  <2>2. /\ seeded' \in [Runs -> {0, Scenarios[Frequent].priors}]
        /\ at' \in [Runs -> Ids \cup {0}]
    BY <1>0 DEF Types
  <2>3. started' \in Seq(Runs) /\ live' \in [Ids -> 0 .. MaxLiveLinks]
    <3>1. started \in Seq(Runs) /\ live \in [Ids -> 0 .. MaxLiveLinks]
      BY <1>0 DEF Types
    <3>2. Append(started, r) \in Seq(Runs)
      BY <3>1
    <3> QED
      BY <3>1, <3>2
  <2>4. summary' = [q \in Runs |-> summary'[q]]
    <3>1. DOMAIN summary = Runs
      BY <1>0 DEF Types
    <3>2. summary' = [q \in Runs |-> IF q = r THEN s ELSE summary[q]]
      BY <3>1
    <3> QED
      BY <3>2
  <2> QED
    BY <2>1, <2>2, <2>3, <2>4 DEF Types
<1>2. /\ rows'[r] = table /\ at'[r] = i /\ summary'[r] = s /\ seeded'[r] = n
  <2>1. summary'[r] = s
    BY <1>0 DEF Types
  <2>2. rows'[r] = table /\ at'[r] = i /\ seeded'[r] = n
    BY <1>0 DEF Types
  <2> QED
    BY <2>1, <2>2
<1>3. r \in Range(started') /\ \A q \in Range(started) : q \in Range(started')
  <2>1. started \in Seq(Runs)
    BY <1>0 DEF Types
  <2>2. r \in Range(Append(started, r)) /\ \A q \in Range(started) : q \in Range(Append(started, r))
    BY <2>1, OneMoreInRange
  <2> QED
    BY <2>2
<1>4. Kept(r)'
  <2>1. InLine(rows'[r]) /\ (at'[r] # 0 => Reached(rows'[r], at'[r]))
    BY <1>2
  <2>2. summary'[r] # NoSummary => summary'[r] = Summarised(rows'[r]) /\ Done(rows'[r])
    BY <1>2
  <2> QED
    BY <1>2, <1>3, <2>1, <2>2 DEF Kept
<1>5. ASSUME NEW q \in Runs, q # r PROVE Kept(q)'
  <2>1. Kept(q)
    BY DEF Inv
  <2>2. rows'[q] = rows[q] /\ at'[q] = at[q] /\ summary'[q] = summary[q] /\ seeded'[q] = seeded[q]
    BY <1>0, <1>5 DEF Types
  <2> QED
    BY <1>3, <2>1, <2>2 DEF Kept
<1> QED
  BY <1>1, <1>4, <1>5 DEF Inv

-----------------------------------------------------------------------------

(* What a run leaves alone is as it was.                                     *)
LEMMA AsItWas ==
  ASSUME Types, NEW r \in Runs
  PROVE  /\ at = [at EXCEPT ![r] = at[r]]
         /\ summary = [summary EXCEPT ![r] = summary[r]]
         /\ seeded = [seeded EXCEPT ![r] = seeded[r]]
         /\ rows = [rows EXCEPT ![r] = rows[r]]
<1>1. at = [at EXCEPT ![r] = at[r]] /\ seeded = [seeded EXCEPT ![r] = seeded[r]]
  BY DEF Types
<1>2. rows = [rows EXCEPT ![r] = rows[r]]
  BY DEF Types
<1>3. summary = [summary EXCEPT ![r] = summary[r]]
  <2>1. DOMAIN summary = Runs /\ summary = [q \in Runs |-> summary[q]]
    BY DEF Types
  <2> QED
    BY <2>1
<1> QED
  BY <1>1, <1>2, <1>3

(* Every action keeps the invariant.                                         *)
LEMMA StartKeeps == ASSUME Inv, NEW r \in Runs, Start(r) PROVE Inv'
<1>1. Types /\ Kept(r)
  BY DEF Inv
<1>2. at[r] = 0 /\ summary[r] = NoSummary /\ \A k \in Ids : rows[r][k] = NoRow
  BY <1>1 DEF Kept, Start
<1>3. PICK table : table = [rows[r] EXCEPT ![1] = Ingested(1)]
  OBVIOUS
<1>4. rows[r] \in [Ids -> Rows \cup {NoRow}] /\ 1 \in Ids /\ Ids = 1 .. 15
  BY <1>1, InOrder DEF Types
<1>5. /\ rows' = [rows EXCEPT ![r] = table]
      /\ at' = [at EXCEPT ![r] = 1]
      /\ seeded' = [seeded EXCEPT ![r] = Scenarios[Frequent].priors]
      /\ started' = Append(started, r) /\ live' = live
      /\ summary' = [summary EXCEPT ![r] = NoSummary]
  BY <1>1, <1>2, <1>3, AsItWas DEF Start
<1>6. table \in [Ids -> Rows \cup {NoRow}] /\ table[1] = Ingested(1)
      /\ \A k \in Ids \ {1} : table[k] = NoRow
  BY <1>2, <1>3, <1>4, Stages
<1>7. Reached(table, 1) /\ InLine(table)
  BY <1>4, <1>6 DEF Reached, InLine, Underway
<1> QED
  BY <1>4, <1>5, <1>6, <1>7, RunStep

LEMMA ClassifyKeeps == ASSUME Inv, NEW r \in Runs, ClassifyCase(r) PROVE Inv'
<1>1. Types /\ Kept(r)
  BY DEF Inv
<1>2. PICK k, table :
        /\ k = at[r] /\ k \in Ids
        /\ rows[r][k].category = "none"
        /\ table = [rows[r] EXCEPT ![k].category = Classify(Scenarios[k].failure)]
        /\ rows' = [rows EXCEPT ![r] = table]
  BY <1>1 DEF ClassifyCase, Busy, Types
<1>3. /\ seeded[r] = Scenarios[Frequent].priors /\ summary[r] = NoSummary
      /\ Reached(rows[r], k) /\ k # 0 /\ r \in Range(started) /\ InLine(rows[r])
  BY <1>1, <1>2, InOrder DEF Kept
<1>4. rows[r] \in [Ids -> Rows \cup {NoRow}] /\ Ids \subseteq Nat
  BY <1>1, InOrder DEF Types
<1>5. rows[r][k] = Ingested(k)
  BY <1>2, <1>3, Stages DEF Reached, Underway, Categories
<1>6. table \in [Ids -> Rows \cup {NoRow}] /\ table[k] = Sorted(k)
      /\ \A j \in Ids \ {k} : table[j] = rows[r][j]
  BY <1>2, <1>4, <1>5, Stages DEF Sorted
<1>7. Reached(table, k) /\ InLine(table)
  BY <1>3, <1>4, <1>6, <1>2 DEF Reached, InLine, Underway
<1>8. /\ at' = [at EXCEPT ![r] = k]
      /\ seeded' = [seeded EXCEPT ![r] = Scenarios[Frequent].priors]
      /\ started' = started /\ live' = live
      /\ summary' = [summary EXCEPT ![r] = NoSummary]
  BY <1>1, <1>2, <1>3, AsItWas DEF ClassifyCase
<1> QED
  BY <1>2, <1>3, <1>6, <1>7, <1>8, RunStep

LEMMA EvaluateKeeps == ASSUME Inv, NEW r \in Runs, EvaluateEligibility(r) PROVE Inv'
<1>1. Types /\ Kept(r)
  BY DEF Inv
<1>2. PICK k, table :
        /\ k = at[r] /\ k \in Ids
        /\ rows[r][k].category # "none" /\ rows[r][k].eligibility = "none"
        /\ table = [rows[r] EXCEPT ![k] = Judged(rows[r][k], Eligibility(k, rows[r][k], Attempts(r, k)))]
        /\ rows' = [rows EXCEPT ![r] = table]
  BY <1>1 DEF EvaluateEligibility, Busy, Types
<1>3. /\ seeded[r] = Scenarios[Frequent].priors /\ summary[r] = NoSummary
      /\ Reached(rows[r], k) /\ k # 0 /\ r \in Range(started) /\ InLine(rows[r])
  BY <1>1, <1>2, InOrder DEF Kept
<1>4. rows[r] \in [Ids -> Rows \cup {NoRow}] /\ Ids = 1 .. 15
  BY <1>1, InOrder DEF Types
<1>5. rows[r][k] = Sorted(k)
  BY <1>2, <1>3, Stages DEF Reached, Underway
<1>6. Attempts(r, k) = Prior(k)
  BY <1>3 DEF Attempts, Prior
<1>7. Judged(rows[r][k], Eligibility(k, rows[r][k], Attempts(r, k))) = Checked(k)
  BY <1>5, <1>6, Zenon DEF Checked
<1>8. table \in [Ids -> Rows \cup {NoRow}] /\ table[k] = Checked(k)
      /\ \A j \in Ids \ {k} : table[j] = rows[r][j]
  BY <1>2, <1>4, <1>7, Stages
<1>9. Reached(table, k) /\ InLine(table)
  BY <1>3, <1>4, <1>8, <1>2 DEF Reached, InLine, Underway
<1>10. /\ at' = [at EXCEPT ![r] = k]
       /\ seeded' = [seeded EXCEPT ![r] = Scenarios[Frequent].priors]
       /\ started' = started /\ live' = live
       /\ summary' = [summary EXCEPT ![r] = NoSummary]
  BY <1>1, <1>2, <1>3, AsItWas DEF EvaluateEligibility
<1> QED
  BY <1>2, <1>3, <1>8, <1>9, <1>10, RunStep

(* A row that was judged comes out as it must: the links that count against  *)
(* the cooldown are those of the run itself.                                 *)
LEMMA OutcomeIs ==
  ASSUME Inv, NEW r \in Runs, NEW k \in Ids, k = at[r], rows[r][k].eligibility # "none"
  PROVE  Outcome(r, k) = Final(k)
<1>1. Types /\ Kept(r)
  BY DEF Inv
<1>2. /\ seeded[r] = Scenarios[Frequent].priors /\ Reached(rows[r], k)
  BY <1>1, InOrder DEF Kept
<1>3. rows[r][k] = Checked(k)
  BY <1>2, Stages DEF Reached, Underway
<1>4. Attempts(r, k) = Prior(k)
  BY <1>2 DEF Attempts, Prior
<1> QED
  BY <1>3, <1>4, Zenon DEF Final, Outcome

LEMMA AdvanceKeeps == ASSUME Inv, NEW r \in Runs, Advance(r) PROVE Inv'
<1>1. Types /\ Kept(r)
  BY DEF Inv
<1>2. PICK k, table :
        /\ k = at[r] /\ k \in Ids /\ k + 1 \in Ids
        /\ rows[r][k].eligibility # "none"
        /\ table = [rows[r] EXCEPT ![k] = Outcome(r, k), ![k + 1] = Ingested(k + 1)]
        /\ rows' = [rows EXCEPT ![r] = table]
  BY <1>1 DEF Advance, Busy, Types
<1>3. /\ seeded[r] = Scenarios[Frequent].priors /\ summary[r] = NoSummary
      /\ Reached(rows[r], k) /\ k # 0 /\ r \in Range(started) /\ InLine(rows[r])
  BY <1>1, <1>2, InOrder DEF Kept
<1>4. rows[r] \in [Ids -> Rows \cup {NoRow}] /\ Ids = 1 .. 15
  BY <1>1, InOrder DEF Types
<1>5. Outcome(r, k) = Final(k)
  BY <1>2, OutcomeIs
<1>6. table \in [Ids -> Rows \cup {NoRow}] /\ table[k] = Final(k) /\ table[k + 1] = Ingested(k + 1)
      /\ \A j \in Ids \ {k, k + 1} : table[j] = rows[r][j]
  BY <1>2, <1>4, <1>5, Stages
<1>7. Reached(table, k + 1) /\ InLine(table)
  BY <1>3, <1>4, <1>6, <1>2 DEF Reached, InLine, Underway
<1>8. /\ at' = [at EXCEPT ![r] = k + 1]
       /\ seeded' = [seeded EXCEPT ![r] = Scenarios[Frequent].priors]
       /\ started' = started /\ live' = live
       /\ summary' = [summary EXCEPT ![r] = NoSummary]
  BY <1>1, <1>2, <1>3, AsItWas DEF Advance
<1> QED
  BY <1>2, <1>3, <1>4, <1>6, <1>7, <1>8, RunStep

LEMMA CompleteKeeps == ASSUME Inv, NEW r \in Runs, Complete(r) PROVE Inv'
<1>1. Types /\ Kept(r)
  BY DEF Inv
<1>2. PICK k, table :
        /\ k = at[r] /\ k \in Ids /\ k + 1 \notin Ids
        /\ rows[r][k].eligibility # "none"
        /\ table = [rows[r] EXCEPT ![k] = Outcome(r, k)]
        /\ rows' = [rows EXCEPT ![r] = table]
        /\ summary' = [summary EXCEPT ![r] = Summarised(table)]
        /\ at' = [at EXCEPT ![r] = 0]
        /\ seeded' = seeded /\ started' = started /\ live' = live
  BY DEF Complete, Busy
<1>3. /\ seeded[r] = Scenarios[Frequent].priors /\ summary[r] = NoSummary
      /\ Reached(rows[r], k) /\ k # 0 /\ r \in Range(started) /\ InLine(rows[r])
  BY <1>1, <1>2, InOrder DEF Kept
<1>4. rows[r] \in [Ids -> Rows \cup {NoRow}] /\ Ids = 1 .. 15
  BY <1>1, InOrder DEF Types
<1>5. Outcome(r, k) = Final(k)
  BY <1>2, OutcomeIs
<1>6. table \in [Ids -> Rows \cup {NoRow}] /\ table[k] = Final(k)
      /\ \A j \in Ids \ {k} : table[j] = rows[r][j]
  BY <1>2, <1>4, <1>5, Stages
<1>7. Done(table) /\ InLine(table)
  BY <1>3, <1>4, <1>6, <1>2 DEF Reached, InLine, Done
<1>8. seeded' = [seeded EXCEPT ![r] = Scenarios[Frequent].priors]
  BY <1>1, <1>2, <1>3, AsItWas
<1> QED
  BY <1>2, <1>3, <1>4, <1>6, <1>7, <1>8, RunStep

LEMMA BrokenOffKeeps == ASSUME Inv, NEW r \in Runs, BrokenOff(r) PROVE Inv'
<1>1. Types /\ Kept(r)
  BY DEF Inv
<1>2. /\ at' = [at EXCEPT ![r] = 0] /\ started' = started /\ live' = live
      /\ rows' = [rows EXCEPT ![r] = rows[r]]
      /\ summary' = [summary EXCEPT ![r] = summary[r]]
      /\ seeded' = [seeded EXCEPT ![r] = seeded[r]]
  BY <1>1, AsItWas DEF BrokenOff
<1>3. /\ summary[r] = NoSummary /\ r \in Range(started) /\ InLine(rows[r])
  BY <1>1 DEF Kept, BrokenOff
<1>4. rows[r] \in [Ids -> Rows \cup {NoRow}] /\ seeded[r] \in {0, Scenarios[Frequent].priors}
  BY <1>1 DEF Types
<1> QED
  BY <1>2, <1>3, <1>4, RunStep

LEMMA LiveLinkKeeps == ASSUME Inv, NEW k \in WatchedCustomers, LiveLink(k) PROVE Inv'
<1>1. Types'
  <2>1. k \in Ids
    BY InOrder DEF WatchedCustomers, Frequent
  <2>2. live' \in [Ids -> 0 .. MaxLiveLinks]
    BY <2>1, RunAssumption DEF Inv, Types, LiveLink
  <2> QED
    BY <2>2 DEF Inv, Types, LiveLink
<1>2. ASSUME NEW r \in Runs PROVE Kept(r)'
  BY DEF Inv, Kept, LiveLink
<1> QED
  BY <1>1, <1>2 DEF Inv

(* So every step does, and the invariant always holds.                       *)
LEMMA StepKeeps == Inv /\ [Next]_vars => Inv'
<1> SUFFICES ASSUME Inv, [Next]_vars PROVE Inv'
  OBVIOUS
<1>1. ASSUME UNCHANGED vars PROVE Inv'
  <2>1. Types'
    BY <1>1 DEF Inv, Types, vars
  <2>2. ASSUME NEW r \in Runs PROVE Kept(r)'
    BY <1>1 DEF Inv, Kept, vars
  <2> QED
    BY <2>1, <2>2 DEF Inv
<1> QED
  BY <1>1, StartKeeps, ClassifyKeeps, EvaluateKeeps, AdvanceKeeps, CompleteKeeps,
     BrokenOffKeeps, LiveLinkKeeps DEF Next

LEMMA InvHolds == Spec => []Inv
BY InitHolds, StepKeeps, PTL DEF Spec

-----------------------------------------------------------------------------
(*****************************************************************************)
(* What follows from the invariant for any limits.                           *)
(*****************************************************************************)

(* The variables stay within their types; a run is busy with a case that is  *)
(* on record, and no case is on record that the run has not reached          *)
(* (benchmark_runner.py takes one scenario after the other).                 *)
THEOREM BenchmarkTyped == Spec => []TypeOK
<1>1. ASSUME Inv PROVE TypeOK
  <2>1. Types /\ Ids = 1 .. 15
    BY <1>1, InOrder DEF Inv
  <2>2. Range(started) \subseteq Runs
    <3>1. started \in Seq(Runs)
      BY <2>1 DEF Types
    <3>2. \A i \in DOMAIN started : started[i] \in Runs
      BY <3>1
    <3> QED
      BY <3>2 DEF Range
  <2>3. ASSUME NEW r \in Runs, NEW k \in Ids, at[r] # 0
        PROVE  rows[r][k] # NoRow <=> k <= at[r]
    <3>1. Reached(rows[r], at[r]) /\ at[r] \in Ids
      BY <1>1, <2>1, <2>3 DEF Inv, Kept, Types
    <3>2. /\ Final(k) # NoRow
          /\ \A row \in Underway(k) : row # NoRow
      BY Stages, RowsAreOnRecord DEF Underway
    <3> QED
      BY <2>1, <3>1, <3>2 DEF Reached
  <2> QED
    BY <2>1, <2>2, <2>3 DEF TypeOK, Types
<1> QED
  BY <1>1, InvHolds, PTL

(* A case that a run has gone past is in a state at which the orchestrator   *)
(* returns at once, whatever the scenario, the limits and the other runs,    *)
(* and also when the run was broken off: the live pipeline never executes    *)
(* it (recovery_orchestrator.py:73-78).                                      *)
THEOREM ScenariosStayClosed == Spec => []ClosedToProduction
<1>1. ASSUME Inv PROVE ClosedToProduction
  <2>1. SUFFICES ASSUME NEW r \in Runs, NEW k \in Ids,
                        summary[r] # NoSummary \/ (k + 1 \in Ids /\ rows[r][k + 1] # NoRow)
                 PROVE  rows[r][k].state \in Preserved
    BY DEF ClosedToProduction
  <2>2. rows[r][k] = Final(k)
    BY <1>1, <2>1 DEF Inv, Kept, InLine, Done
  <2> QED
    BY <2>2, Stages
<1> QED
  BY <1>1, InvHolds, PTL

(* The breakdown of a run that has gone through counts every scenario once.  *)
LEMMA BreakdownAddsUp ==
  ASSUME Inv, NEW r \in Runs, Done(rows[r]), NEW field \in {"category", "policy"},
         NEW parts, parts = Breakdown(r, field)
  PROVE  /\ "none" \notin DOMAIN parts
         /\ Listed(r) = Ids
         /\ SumFunction(parts) = Cardinality(Ids)
<1>1. Listed(r) = Ids
  BY Stages, RowsAreOnRecord DEF Done, Listed
<1>2. PICK f : f = [k \in Ids |-> rows[r][k][field]]
  OBVIOUS
<1>3. parts = [v \in {f[k] : k \in Ids} |-> Cardinality({k \in Ids : f[k] = v})]
  <2>1. parts = [v \in {rows[r][k][field] : k \in Ids} |->
                   Cardinality({k \in Ids : rows[r][k][field] = v})]
    BY <1>1 DEF Breakdown
  <2>2. {f[k] : k \in Ids} = {rows[r][k][field] : k \in Ids}
    BY <1>2
  <2>3. \A v : {k \in Ids : f[k] = v} = {k \in Ids : rows[r][k][field] = v}
    BY <1>2
  <2> QED
    BY <2>1, <2>2, <2>3
<1>4. IsFiniteSet(Ids)
  <2>1. 1 \in Int /\ 15 \in Int
    OBVIOUS
  <2>2. IsFiniteSet(1 .. 15)
    BY <2>1, FS_Interval
  <2> QED
    BY <2>2, InOrder
<1>5. SumFunction(parts) = Cardinality(Ids)
  BY <1>3, <1>4, SumOfCounts
<1>6. ASSUME NEW k \in Ids PROVE f[k] # "none"
  <2>1. f[k] = Final(k)[field]
    BY <1>2 DEF Done
  <2>2. Final(k).category # "none" /\ Final(k).policy # "none"
    BY Stages DEF Categories, Policies, LinkPolicies
  <2> QED
    BY <2>1, <2>2
<1>7. DOMAIN parts = {f[k] : k \in Ids}
  BY <1>3
<1> QED
  BY <1>1, <1>5, <1>6, <1>7

(* The dashboard shows one run as a whole: the summary of the latest run is  *)
(* that of the rows it lists, all scenarios are listed, and either breakdown *)
(* counts each once, while other runs are under way or were broken off       *)
(* (api/cases.py takes the latest row of evaluation_runs).                   *)
THEOREM DashboardShowsOneRun == Spec => []ShowsOneWholeRun
<1>1. ASSUME Inv PROVE ShowsOneWholeRun
  <2>1. SUFFICES ASSUME NEW r \in Latest
                 PROVE  /\ Listed(r) = Ids
                        /\ summary[r] = Summarised(rows[r])
                        /\ \A field \in {"category", "policy"} :
                             LET parts == Breakdown(r, field)
                             IN  /\ "none" \notin DOMAIN parts
                                 /\ SumFunction(parts) = summary[r].cases
    BY Zenon DEF ShowsOneWholeRun
  <2>2. r \in Runs /\ summary[r] # NoSummary
    BY <1>1, <2>1 DEF Latest, Inv, Types
  <2>3. Done(rows[r]) /\ summary[r] = Summarised(rows[r])
    BY <1>1, <2>2 DEF Inv, Kept
  <2>4. summary[r].cases = Cardinality(Ids)
    BY <2>3 DEF Summarised
  <2>5. ASSUME NEW field \in {"category", "policy"}, NEW parts, parts = Breakdown(r, field)
        PROVE  /\ "none" \notin DOMAIN parts /\ Listed(r) = Ids
               /\ SumFunction(parts) = summary[r].cases
    BY <1>1, <2>2, <2>3, <2>4, <2>5, BreakdownAddsUp
  <2>6. Listed(r) = Ids
    BY <2>5
  <2> QED
    BY <2>3, <2>5, <2>6
<1> QED
  BY <1>1, InvHolds, PTL

-----------------------------------------------------------------------------
(*****************************************************************************)
(* The outcomes, for limits that tell the scenarios apart.                   *)
(*****************************************************************************)

(* The limits under which the scenarios are what they are named for: the     *)
(* ceiling for automatic recovery lies between the amounts of CS14 and CS04, *)
(* and CS09's three prior links reach the daily limit where none does not.   *)
(* The code has 50000 and 3 (domain/eligibility.py:17-18).                   *)
Limits == HighValue \in 14750 .. 64999 /\ MaxAttempts \in 1 .. 3

(* The row when the guardrails are asked.                                    *)
LEMMA BeforeTheRuling ==
  ASSUME NEW k \in Ids
  PROVE  /\ Sorted(k).category = Scenarios[k].category /\ Sorted(k).link = Scenarios[k].link
         /\ Checked(k).category = Scenarios[k].category /\ Checked(k).link = Scenarios[k].link
         /\ Checked(k).recovered = 0
         /\ Checked(k).eligibility = Eligibility(k, Sorted(k), Prior(k))
<1>1. /\ Sorted(k).category = Scenarios[k].category /\ Sorted(k).link = Scenarios[k].link
      /\ Sorted(k).recovered = 0
  BY ScenesTyped DEF Sorted, Ingested
<1>2. Sorted(k) \in Rows
  BY Stages
<1>3. Eligibility(k, Sorted(k), Prior(k)) \in {"ELIGIBLE", "INELIGIBLE", "REQUIRES_ESCALATION"}
  BY DEF Eligibility, Evaluate
<1> QED
  BY <1>1, <1>2, <1>3, JudgedIs DEF Checked

(* The eligibility of a scenario, from what is said of it.                   *)
LEMMA EligibilityIs ==
  ASSUME NEW k \in Ids, NEW s, s = Scenarios[k]
  PROVE  Checked(k).eligibility =
           IF s.amount <= 0 \/ s.link THEN "INELIGIBLE"
           ELSE IF s.amount > HighValue THEN "REQUIRES_ESCALATION"
           ELSE IF Prior(k) >= MaxAttempts \/ s.category \in {"C4", "C5"} THEN "INELIGIBLE"
           ELSE "ELIGIBLE"
BY BeforeTheRuling DEF Eligibility, Evaluate, Context, CooldownReached, EligibleCurrencies

(* The ruling on a scenario, from what is said of it.                        *)
LEMMA GuardrailIs ==
  ASSUME NEW k \in Ids, NEW s, s = Scenarios[k], s.currency \in {"INR", "USD"}, s.advisory \in Policies
  PROVE  Guardrail(k, Checked(k), Prior(k)) =
           IF s.paid \/ s.proposed # s.amount \/ s.currency # "INR" THEN Ruling("REJECT", "P_NO_ACTION")
           ELSE IF s.advisory \notin LinkPolicies THEN Ruling("APPROVE", s.advisory)
           ELSE IF s.amount > HighValue THEN Ruling("ESCALATE", "P_ESCALATE_ONLY")
           ELSE IF s.link \/ Prior(k) >= MaxAttempts THEN Ruling("DOWNGRADE", "P_NO_ACTION")
           ELSE IF s.category = "C4" THEN Ruling("DOWNGRADE", "P_ESCALATE_ONLY")
           ELSE IF s.category = "C5" THEN Ruling("DOWNGRADE", "P_NO_ACTION")
           ELSE Ruling("APPROVE", s.advisory)
BY BeforeTheRuling DEF Guardrail, Validate, Context, CooldownReached, GuardrailCurrencies, SameCurrency

(* How scenario k comes out.                                                 *)
Ends(k, state, eligibility, action, recovered) ==
  LET row == Final(k)
  IN  /\ row.state = state /\ row.eligibility = eligibility
      /\ row.action = action /\ row.recovered = recovered

(* A scenario comes out by the ruling on its judged row.                     *)
LEMMA FinalRow ==
  ASSUME NEW k \in Ids, NEW ruling, ruling = Guardrail(k, Checked(k), Prior(k))
  PROVE  \E row \in Rows :
           /\ Final(k) = Settled(k, row, ruling)
           /\ row.category = Scenarios[k].category /\ row.recovered = 0
           /\ row.eligibility = Checked(k).eligibility
           /\ ruling.policy \in Policies
<1>1. PICK row : row = Checked(k)
  OBVIOUS
<1>2. row \in Rows /\ ruling.policy \in Policies
  BY <1>1, Stages, GuardrailTyped
<1>3. Final(k) = Settled(k, row, ruling)
  BY <1>1, Zenon DEF Final
<1>4. row.category = Scenarios[k].category /\ row.recovered = 0
  BY <1>1, BeforeTheRuling
<1> QED
  BY <1>1, <1>2, <1>3, <1>4

(* Its category is the one it was written for.                               *)
LEMMA FinalCategory ==
  ASSUME NEW k \in Ids
  PROVE  Final(k).category = Scenarios[k].category
<1>1. PICK ruling : ruling = Guardrail(k, Checked(k), Prior(k))
  OBVIOUS
<1>2. PICK row \in Rows :
           /\ Final(k) = Settled(k, row, ruling)
           /\ row.category = Scenarios[k].category
           /\ ruling.policy \in Policies
  BY <1>1, FinalRow
<1> QED
  BY <1>2, SettledTyped

(* An approved link that the customer pays.                                  *)
LEMMA FinalOnPayment ==
  ASSUME NEW k \in Ids, NEW ruling, ruling = Guardrail(k, Checked(k), Prior(k)),
         ruling.decision = "APPROVE", ruling.policy \in LinkPolicies,
         Scenarios[k].outcome = "RECOVERED"
  PROVE  /\ Final(k).link
         /\ Ends(k, "RECOVERED", Checked(k).eligibility, "EXECUTED", Scenarios[k].amount)
<1>1. PICK row \in Rows :
           /\ Final(k) = Settled(k, row, ruling)
           /\ row.recovered = 0
           /\ row.eligibility = Checked(k).eligibility
  BY FinalRow
<1>2. ruling.policy # "P_ESCALATE_ONLY"
  BY DEF LinkPolicies
<1> QED
  BY <1>1, <1>2 DEF Settled, Acted, Reconciled, Rows, Ends

(* An approved link that is not paid.                                        *)
LEMMA FinalOnLink ==
  ASSUME NEW k \in Ids, NEW ruling, ruling = Guardrail(k, Checked(k), Prior(k)),
         ruling.decision = "APPROVE", ruling.policy \in LinkPolicies,
         Scenarios[k].outcome # "RECOVERED"
  PROVE  /\ Final(k).link
         /\ Ends(k, "ACTION_EXECUTED", Checked(k).eligibility, "EXECUTED", 0)
<1>1. PICK row \in Rows :
           /\ Final(k) = Settled(k, row, ruling)
           /\ row.recovered = 0
           /\ row.eligibility = Checked(k).eligibility
  BY FinalRow
<1>2. ruling.policy # "P_ESCALATE_ONLY"
  BY DEF LinkPolicies
<1> QED
  BY <1>1, <1>2 DEF Settled, Acted, Reconciled, Rows, Ends

(* An escalation, also of a case that was triaged as terminal.               *)
LEMMA FinalOnEscalation ==
  ASSUME NEW k \in Ids, NEW ruling, ruling = Guardrail(k, Checked(k), Prior(k)),
         ruling.decision \in {"ESCALATE", "DOWNGRADE"}, ruling.policy = "P_ESCALATE_ONLY"
  PROVE  Ends(k, "ESCALATED", "REQUIRES_ESCALATION", "EXECUTED", 0)
<1>1. PICK row \in Rows :
           /\ Final(k) = Settled(k, row, ruling)
           /\ row.recovered = 0
  BY FinalRow
<1> QED
  BY <1>1 DEF Settled, Acted, Reconciled, Rows, Ends

(* No action.                                                                *)
LEMMA FinalOnStop ==
  ASSUME NEW k \in Ids, NEW ruling, ruling = Guardrail(k, Checked(k), Prior(k)),
         ruling.policy = "P_NO_ACTION",
         ruling.decision = "REJECT" \/ Checked(k).eligibility = "INELIGIBLE"
  PROVE  Ends(k, "TERMINAL_NO_ACTION", "INELIGIBLE", "BLOCKED", 0)
<1>1. PICK row \in Rows :
           /\ Final(k) = Settled(k, row, ruling)
           /\ row.recovered = 0
           /\ row.eligibility = Checked(k).eligibility
  BY FinalRow
<1> QED
  BY <1>1 DEF Settled, Acted, Reconciled, Rows, Ends, LinkPolicies

(* The guardrails approve of a link for scenario k.                         *)
Granted(k) ==
  /\ Checked(k).eligibility = "ELIGIBLE"
  /\ LET ruling == Guardrail(k, Checked(k), Prior(k))
     IN  ruling.decision = "APPROVE" /\ ruling.policy \in LinkPolicies

(* Seven scenarios are granted a link.                                       *)
LEMMA LinkGranted ==
  ASSUME Limits, NEW k \in {1, 2, 3, 11, 12, 14, 15}
  PROVE  Granted(k)
<1>1. PICK s : s = Scenarios[k]
  OBVIOUS
<1>2. /\ s.category \in {"C1", "C2", "C3"} /\ s.amount \in 1 .. 14750
      /\ s.advisory \in LinkPolicies /\ s.proposed = s.amount /\ s.currency = "INR"
      /\ ~ s.paid /\ ~ s.link
  <2>1. k = 1 \/ k = 2 \/ k = 3 \/ k = 11 \/ k = 12 \/ k = 14 \/ k = 15
    OBVIOUS
  <2>2. Now \in LinkPolicies /\ Later \in LinkPolicies
    BY DEF Now, Later, LinkPolicies
  <2> QED
    BY <1>1, <2>1, <2>2, CS01, CS02, CS03, CS11, CS12, CS14, CS15 DEF Scene
<1>3. k \in Ids /\ Prior(k) = 0
  BY InOrder DEF Prior, Frequent
<1>4. /\ ~(s.amount <= 0) /\ ~(s.amount > HighValue) /\ ~(Prior(k) >= MaxAttempts)
      /\ s.category \notin {"C4", "C5"}
  <2>1. PICK amount \in 1 .. 14750 : amount = s.amount
    BY <1>2
  <2>2. ~(amount <= 0) /\ ~(amount > HighValue) /\ ~(0 >= MaxAttempts)
    BY DEF Limits
  <2> QED
    BY <1>2, <1>3, <2>1, <2>2
<1>5. Checked(k).eligibility = "ELIGIBLE"
  BY <1>1, <1>2, <1>3, <1>4, EligibilityIs
<1>6. PICK advisory \in LinkPolicies : Guardrail(k, Checked(k), Prior(k)) = Ruling("APPROVE", advisory)
  BY <1>1, <1>2, <1>3, <1>4, GuardrailIs DEF Policies
<1> QED
  BY <1>5, <1>6 DEF Granted, Ruling

(* Two are escalated: one above the ceiling, and one of risk.                *)
LEMMA Escalates ==
  ASSUME Limits, NEW k \in {4, 5}
  PROVE  Ends(k, "ESCALATED", "REQUIRES_ESCALATION", "EXECUTED", 0)
<1>1. k \in Ids /\ Prior(k) = 0 /\ ~(Prior(k) >= MaxAttempts) /\ ~(4750 > HighValue) /\ 65000 > HighValue
  BY InOrder DEF Prior, Limits, Frequent
<1>2. PICK ruling : /\ ruling = Guardrail(k, Checked(k), Prior(k))
                    /\ ruling.decision \in {"ESCALATE", "DOWNGRADE"}
                    /\ ruling.policy = "P_ESCALATE_ONLY"
  BY <1>1, CS04, CS05, GuardrailIs DEF Scene, Ruling, Policies, LinkPolicies, Now, Frequent
<1> QED
  BY <1>1, <1>2, FinalOnEscalation

(* Six are stopped: three are refused by the guardrails, three ineligible.   *)
LEMMA Stops ==
  ASSUME Limits, NEW k \in {6, 7, 8, 9, 10, 13}
  PROVE  Ends(k, "TERMINAL_NO_ACTION", "INELIGIBLE", "BLOCKED", 0)
<1>1. /\ k \in Ids /\ Prior(k) = (IF k = 9 THEN 3 ELSE 0)
      /\ MaxAttempts \in 1 .. 3 /\ HighValue \in Nat /\ HighValue >= 14750
  BY InOrder, CS09 DEF Prior, Limits, Frequent, Scene
<1>2. PICK ruling : /\ ruling = Guardrail(k, Checked(k), Prior(k))
                    /\ ruling.policy = "P_NO_ACTION"
                    /\ ruling.decision = "REJECT" <=> k \in {7, 8, 10}
  BY <1>1, CS06, CS07, CS08, CS09, CS10, CS13, GuardrailIs DEF Scene, Ruling, Policies, LinkPolicies, Now, Frequent
<1>3. k \in {6, 9, 13} => Checked(k).eligibility = "INELIGIBLE"
  BY <1>1, CS06, CS09, CS13, EligibilityIs DEF Scene, Frequent
<1> QED
  BY <1>1, <1>2, <1>3, FinalOnStop

(* The scenarios whose links are paid, and those that are stopped.           *)
Collected == {1, 2, 3, 11, 14, 15}
Stopped == {6, 7, 8, 9, 10, 13}

(* How every scenario comes out.                                             *)
LEMMA InTheEnd ==
  ASSUME Limits
  PROVE  /\ \A k \in Collected : /\ Ends(k, "RECOVERED", "ELIGIBLE", "EXECUTED", Scenarios[k].amount)
                                 /\ Final(k).link /\ Scenarios[k].outcome = "RECOVERED"
         /\ Ends(12, "ACTION_EXECUTED", "ELIGIBLE", "EXECUTED", 0)
         /\ Final(12).link /\ Scenarios[12].outcome = "NOT_RECOVERED"
         /\ \A k \in {4, 5} : /\ Ends(k, "ESCALATED", "REQUIRES_ESCALATION", "EXECUTED", 0)
                              /\ Scenarios[k].outcome = "ESCALATED"
         /\ \A k \in Stopped : /\ Ends(k, "TERMINAL_NO_ACTION", "INELIGIBLE", "BLOCKED", 0)
                               /\ Scenarios[k].outcome = "NOT_RECOVERED"
<1>1. ASSUME NEW k \in Collected
      PROVE  /\ Ends(k, "RECOVERED", "ELIGIBLE", "EXECUTED", Scenarios[k].amount)
             /\ Final(k).link /\ Scenarios[k].outcome = "RECOVERED"
  <2>1. k \in Ids /\ Granted(k)
    BY InOrder, LinkGranted DEF Collected
  <2>2. Scenarios[k].outcome = "RECOVERED"
    BY CS01, CS02, CS03, CS11, CS14, CS15 DEF Scene, Collected
  <2>3. PICK ruling : /\ ruling = Guardrail(k, Checked(k), Prior(k))
                      /\ ruling.decision = "APPROVE" /\ ruling.policy \in LinkPolicies
    BY <2>1 DEF Granted
  <2>4. Checked(k).eligibility = "ELIGIBLE"
    BY <2>1 DEF Granted
  <2> QED
    BY <2>1, <2>2, <2>3, <2>4, FinalOnPayment
<1>2. /\ Ends(12, "ACTION_EXECUTED", "ELIGIBLE", "EXECUTED", 0)
      /\ Final(12).link /\ Scenarios[12].outcome = "NOT_RECOVERED"
  <2>1. 12 \in Ids /\ Granted(12)
    BY InOrder, LinkGranted
  <2>2. Scenarios[12].outcome = "NOT_RECOVERED"
    BY CS12 DEF Scene
  <2>3. PICK ruling : /\ ruling = Guardrail(12, Checked(12), Prior(12))
                      /\ ruling.decision = "APPROVE" /\ ruling.policy \in LinkPolicies
    BY <2>1 DEF Granted
  <2>4. Checked(12).eligibility = "ELIGIBLE"
    BY <2>1 DEF Granted
  <2> QED
    BY <2>1, <2>2, <2>3, <2>4, FinalOnLink
<1>3. ASSUME NEW k \in {4, 5}
      PROVE  /\ Ends(k, "ESCALATED", "REQUIRES_ESCALATION", "EXECUTED", 0)
             /\ Scenarios[k].outcome = "ESCALATED"
  <2>1. Scenarios[k].outcome = "ESCALATED"
    BY CS04, CS05 DEF Scene
  <2> QED
    BY <2>1, Escalates
<1>4. ASSUME NEW k \in Stopped
      PROVE  /\ Ends(k, "TERMINAL_NO_ACTION", "INELIGIBLE", "BLOCKED", 0)
             /\ Scenarios[k].outcome = "NOT_RECOVERED"
  <2>1. Scenarios[k].outcome = "NOT_RECOVERED"
    BY CS06, CS07, CS08, CS09, CS10, CS13 DEF Scene, Stopped
  <2>2. k \in {6, 7, 8, 9, 10, 13}
    BY DEF Stopped
  <2> QED
    BY <2>1, <2>2, Stops
<1> QED
  BY <1>1, <1>2, <1>3, <1>4

(* A scenario of a completed run has the category it was written for and the *)
(* outcome it declares: money on the link of an approved policy only,        *)
(* escalation on no link.  It holds for every ceiling between 14750 and      *)
(* 64999, every daily limit from 1 to 3 and any number of runs, although the *)
(* runs and the live pipeline share their tables (benchmark_runner.py).      *)
THEOREM ScenariosEndAsDeclared ==
  ASSUME Limits
  PROVE  Spec => []OutcomesAsDeclared
<1>1. ASSUME Inv PROVE OutcomesAsDeclared
  <2>1. ASSUME NEW r \in Runs, NEW k \in Ids, summary[r] # NoSummary, NEW row, row = rows[r][k]
        PROVE  /\ row.category = Scenarios[k].category
               /\ row.state = "RECOVERED" <=> Scenarios[k].outcome = "RECOVERED"
               /\ row.state = "ESCALATED" <=> Scenarios[k].outcome = "ESCALATED"
               /\ row.recovered = IF Scenarios[k].outcome = "RECOVERED" THEN Scenarios[k].amount ELSE 0
               /\ row.state \in {"RECOVERED", "ACTION_EXECUTED"}
                    <=> row.eligibility = "ELIGIBLE" /\ row.link
    <3>1. row = Final(k)
      BY <1>1, <2>1 DEF Inv, Kept, Done
    <3>2. row.category = Scenarios[k].category
      BY <3>1, FinalCategory
    <3>3. CASE k \in Collected
      BY <3>1, <3>2, <3>3, InTheEnd DEF Ends
    <3>4. CASE k = 12
      BY <3>1, <3>2, <3>4, InTheEnd DEF Ends
    <3>5. CASE k \in {4, 5}
      BY <3>1, <3>2, <3>5, InTheEnd DEF Ends
    <3>6. CASE k \in Stopped
      BY <3>1, <3>2, <3>6, InTheEnd DEF Ends
    <3> QED
      BY <3>3, <3>4, <3>5, <3>6, InOrder DEF Collected, Stopped
  <2> QED
    BY <2>1 DEF OutcomesAsDeclared
<1> QED
  BY <1>1, InvHolds, PTL

-----------------------------------------------------------------------------
(*****************************************************************************)
(* The scores.                                                               *)
(*****************************************************************************)

(* K has n scenarios, and their amounts add up to total.                    *)
Amounting(K, n, total) ==
  IsFiniteSet(K) /\ Cardinality(K) = n /\ K \subseteq Ids /\ Amounts(K) = total

(* No scenarios.                                                             *)
LEMMA NoneAmount == Amounting({}, 0, 0)
BY FS_EmptySet, SumEmpty DEF Amounting, Amounts

(* One scenario more.                                                        *)
LEMMA OneMoreAmounts ==
  ASSUME NEW K, NEW n, n \in Nat, NEW total, total \in Nat, Amounting(K, n, total),
         NEW k, k \in Ids \ K, NEW L, L = K \cup {k},
         NEW m, m = n + 1, NEW sum, sum = total + Scenarios[k].amount
  PROVE  Amounting(L, m, sum)
<1>1. PICK f : f = [j \in Ids |-> Scenarios[j].amount]
  OBVIOUS
<1>2. f[k] = Scenarios[k].amount /\ \A j \in K \cup {k} : f[j] \in Int
  BY <1>1, ScenesTyped DEF Amounting
<1>3. /\ IsFiniteSet(K \cup {k}) /\ Cardinality(K \cup {k}) = Cardinality(K) + 1
      /\ SumFunctionOnSet(f, K \cup {k}) = SumFunctionOnSet(f, K) + f[k]
  BY <1>2, SumOneMore DEF Amounting
<1>4. \A s : Amounts(s) = SumFunctionOnSet(f, s)
  BY <1>1 DEF Amounts
<1> QED
  BY <1>2, <1>3, <1>4 DEF Amounting

(* A single scenario.                                                        *)
LEMMA OneAmounts ==
  ASSUME NEW k \in Ids
  PROVE  Amounting({k}, 1, Scenarios[k].amount)
<1>1. PICK K, n, total : K = {} /\ n = 0 /\ total = 0
  OBVIOUS
<1>2. Amounting(K, n, total)
  BY <1>1, NoneAmount
<1>3. k \in Ids \ K /\ {k} = K \cup {k} /\ 1 = n + 1
  BY <1>1
<1>4. Scenarios[k].amount = total + Scenarios[k].amount
  BY <1>1, ScenesTyped
<1> QED
  BY <1>1, <1>2, <1>3, <1>4, OneMoreAmounts

(* Scenarios that share nothing add up.                                     *)
LEMMA ApartAmounts ==
  ASSUME NEW K, NEW n, n \in Nat, NEW total, total \in Nat, Amounting(K, n, total),
         NEW L, NEW m, m \in Nat, NEW sum, sum \in Nat, Amounting(L, m, sum), K \cap L = {},
         NEW M, M = K \cup L, NEW l, l = n + m, NEW all, all = total + sum
  PROVE  Amounting(M, l, all)
<1>1. PICK f : f = [j \in Ids |-> Scenarios[j].amount]
  OBVIOUS
<1>2. \A j \in K \cup L : f[j] \in Int
  BY <1>1, ScenesTyped DEF Amounting
<1>3. SumFunctionOnSet(f, K \cup L) = SumFunctionOnSet(f, K) + SumFunctionOnSet(f, L)
  BY <1>2, SumApart DEF Amounting
<1>4. IsFiniteSet(K \cup L) /\ Cardinality(K \cup L) = Cardinality(K) + Cardinality(L)
  BY ApartAddUp, FS_Union DEF Amounting
<1>5. \A s : Amounts(s) = SumFunctionOnSet(f, s)
  BY <1>1 DEF Amounts
<1> QED
  BY <1>3, <1>4, <1>5 DEF Amounting

(* The amounts of six scenarios.                                            *)
LEMMA SixAmounts ==
  ASSUME NEW a \in Ids, NEW b \in Ids \ {a}, NEW c \in Ids \ {a, b}, NEW d \in Ids \ {a, b, c},
         NEW e \in Ids \ {a, b, c, d}, NEW g \in Ids \ {a, b, c, d, e},
         NEW total, total = Scenarios[a].amount + Scenarios[b].amount + Scenarios[c].amount
                            + Scenarios[d].amount + Scenarios[e].amount + Scenarios[g].amount
  PROVE  Amounting({a, b, c, d, e, g}, 6, total)
<1>0. /\ Scenarios[a].amount \in Nat /\ Scenarios[b].amount \in Nat /\ Scenarios[c].amount \in Nat
      /\ Scenarios[d].amount \in Nat /\ Scenarios[e].amount \in Nat /\ Scenarios[g].amount \in Nat
  BY ScenesTyped
<1>1. PICK ta, tb, tc, td, te, tg :
        /\ ta = Scenarios[a].amount /\ tb = ta + Scenarios[b].amount
        /\ tc = tb + Scenarios[c].amount /\ td = tc + Scenarios[d].amount
        /\ te = td + Scenarios[e].amount /\ tg = te + Scenarios[g].amount
  OBVIOUS
<1> {ta, tb, tc, td, te, tg} \subseteq Nat
  BY <1>0, <1>1
<1>2. Amounting({a}, 1, ta)
  BY <1>1, OneAmounts
<1>3. Amounting({a, b}, 2, tb)
  <2>1. {a, b} = {a} \cup {b} /\ b \in Ids \ {a} /\ 2 = 1 + 1
    OBVIOUS
  <2> QED
    BY <1>1, <1>2, <2>1, OneMoreAmounts
<1>4. Amounting({a, b, c}, 3, tc)
  <2>1. {a, b, c} = {a, b} \cup {c} /\ c \in Ids \ {a, b} /\ 3 = 2 + 1
    OBVIOUS
  <2> QED
    BY <1>1, <1>3, <2>1, OneMoreAmounts
<1>5. Amounting({a, b, c, d}, 4, td)
  <2>1. {a, b, c, d} = {a, b, c} \cup {d} /\ d \in Ids \ {a, b, c} /\ 4 = 3 + 1
    OBVIOUS
  <2> QED
    BY <1>1, <1>4, <2>1, OneMoreAmounts
<1>6. Amounting({a, b, c, d, e}, 5, te)
  <2>1. {a, b, c, d, e} = {a, b, c, d} \cup {e} /\ e \in Ids \ {a, b, c, d} /\ 5 = 4 + 1
    OBVIOUS
  <2> QED
    BY <1>1, <1>5, <2>1, OneMoreAmounts
<1>7. Amounting({a, b, c, d, e, g}, 6, tg)
  <2>1. {a, b, c, d, e, g} = {a, b, c, d, e} \cup {g} /\ g \in Ids \ {a, b, c, d, e} /\ 6 = 5 + 1
    OBVIOUS
  <2> QED
    BY <1>1, <1>6, <2>1, OneMoreAmounts
<1>8. tg = total
  BY <1>1
<1> QED
  BY <1>7, <1>8

(* The amounts that the document of the benchmark gives.                     *)
LEMMA CollectedAmounts == Amounting(Collected, 6, 28648)
<1>1. PICK a, b, c, d, e, g, total :
        /\ a = 1 /\ b = 2 /\ c = 3 /\ d = 11 /\ e = 14 /\ g = 15
        /\ total = 28648
  OBVIOUS
<1>2. /\ a \in Ids
      /\ b \in Ids \ {a}
      /\ c \in Ids \ {a, b}
      /\ d \in Ids \ {a, b, c}
      /\ e \in Ids \ {a, b, c, d}
      /\ g \in Ids \ {a, b, c, d, e}
  BY <1>1, InOrder
<1>3. total = Scenarios[a].amount + Scenarios[b].amount + Scenarios[c].amount
              + Scenarios[d].amount + Scenarios[e].amount + Scenarios[g].amount
  BY <1>1, CS01, CS02, CS03, CS11, CS14, CS15 DEF Scene
<1>4. Amounting({a, b, c, d, e, g}, 6, total)
  BY <1>2, <1>3, SixAmounts, Zenon
<1>5. {a, b, c, d, e, g} = Collected
  BY <1>1 DEF Collected
<1> QED
  BY <1>1, <1>4, <1>5

LEMMA StoppedAmounts == Amounting(Stopped, 6, 20829)
<1>1. PICK a, b, c, d, e, g, total :
        /\ a = 6 /\ b = 7 /\ c = 8 /\ d = 9 /\ e = 10 /\ g = 13
        /\ total = 20829
  OBVIOUS
<1>2. /\ a \in Ids
      /\ b \in Ids \ {a}
      /\ c \in Ids \ {a, b}
      /\ d \in Ids \ {a, b, c}
      /\ e \in Ids \ {a, b, c, d}
      /\ g \in Ids \ {a, b, c, d, e}
  BY <1>1, InOrder
<1>3. total = Scenarios[a].amount + Scenarios[b].amount + Scenarios[c].amount
              + Scenarios[d].amount + Scenarios[e].amount + Scenarios[g].amount
  BY <1>1, CS06, CS07, CS08, CS09, CS10, CS13 DEF Scene
<1>4. Amounting({a, b, c, d, e, g}, 6, total)
  BY <1>2, <1>3, SixAmounts, Zenon
<1>5. {a, b, c, d, e, g} = Stopped
  BY <1>1 DEF Stopped
<1> QED
  BY <1>1, <1>4, <1>5

(* The amounts of the groups that the scores are made of.                    *)
LEMMA AmountsOfSets ==
  /\ Amounting(Collected, 6, 28648)
  /\ Amounting(Collected \cup {12}, 7, 31538)
  /\ Amounting({4, 5}, 2, 69750)
  /\ Amounting(Stopped, 6, 20829)
  /\ Amounting(Collected \cup {12} \cup {4, 5}, 9, 101288)
  /\ Amounting(Ids, 15, 122117)
<1>1. PICK c, l, e, x, s, all :
        /\ c = 28648 /\ l = 31538 /\ e = 69750 /\ s = 20829 /\ x = 101288 /\ all = 122117
  OBVIOUS
<1>2. Amounting(Collected, 6, c) /\ Amounting(Stopped, 6, s)
  BY <1>1, CollectedAmounts, StoppedAmounts
<1>3. PICK K : K = {12} /\ Amounting(K, 1, 2890)
  BY InOrder, CS12, OneAmounts DEF Scene
<1>4. PICK L, E : L = Collected \cup {12} /\ E = {4, 5}
  OBVIOUS
<1>5. Amounting(L, 7, l)
  <2>1. /\ 7 = 6 + 1 /\ l = c + 2890 /\ L = Collected \cup K /\ Collected \cap K = {} /\ c \in Nat
    BY <1>1, <1>3, <1>4 DEF Collected
  <2> QED
    BY <1>2, <1>3, <2>1, ApartAmounts
<1>6. Amounting(E, 2, e)
  <2>1. PICK M, amount : M = {4} /\ amount = 65000 /\ Amounting(M, 1, amount)
    BY InOrder, CS04, OneAmounts DEF Scene
  <2>2. PICK k, n, m : k = 5 /\ n = 1 /\ m = 2
    OBVIOUS
  <2>3. /\ k \in Ids \ M /\ E = M \cup {k} /\ m = n + 1 /\ n \in Nat /\ amount \in Nat
        /\ Amounting(M, n, amount) /\ e = amount + Scenarios[k].amount
    BY <1>1, <1>4, <2>1, <2>2, InOrder, CS05 DEF Scene
  <2>4. Amounting(E, m, e)
    BY <2>3, OneMoreAmounts
  <2> QED
    BY <2>2, <2>4
<1>7. PICK X : X = Collected \cup {12} \cup {4, 5} /\ Amounting(X, 9, x)
  <2>1. /\ 9 = 7 + 2 /\ x = l + e /\ l \in Nat /\ e \in Nat
        /\ Collected \cup {12} \cup {4, 5} = L \cup E /\ L \cap E = {}
    BY <1>1, <1>4 DEF Collected
  <2> QED
    BY <1>5, <1>6, <2>1, ApartAmounts
<1>8. Amounting(Ids, 15, all)
  <2>1. /\ 15 = 9 + 6 /\ all = x + s /\ X \cap Stopped = {} /\ x \in Nat /\ s \in Nat
    BY <1>1, <1>7 DEF Collected, Stopped
  <2>2. Ids = X \cup Stopped
    BY <1>7, InOrder DEF Collected, Stopped
  <2> QED
    BY <1>2, <1>7, <2>1, <2>2, ApartAmounts
<1> QED
  BY <1>1, <1>2, <1>4, <1>5, <1>6, <1>7, <1>8

(* The groups of a run that has gone through.                                *)
LEMMA WhoEndsHow ==
  ASSUME Limits, NEW table, Done(table)
  PROVE  /\ {k \in Ids : table[k].eligibility = "ELIGIBLE"} = Collected \cup {12}
         /\ {k \in Ids : table[k].state = "RECOVERED"} = Collected
         /\ {k \in Ids : table[k].state = "ESCALATED"} = {4, 5}
         /\ {k \in Ids : table[k].state = "TERMINAL_NO_ACTION"} = Stopped
         /\ {k \in Ids : table[k].action = "EXECUTED"} = Collected \cup {12} \cup {4, 5}
         /\ {k \in Ids : table[k].action = "BLOCKED"} = Stopped
         /\ \A k \in Collected : table[k].recovered = Scenarios[k].amount
<1>1. Ids = Collected \cup {12} \cup {4, 5} \cup Stopped
  BY InOrder DEF Collected, Stopped
<1>2. ASSUME NEW k \in Collected
      PROVE  /\ table[k].eligibility = "ELIGIBLE" /\ table[k].state = "RECOVERED"
             /\ table[k].action = "EXECUTED" /\ table[k].recovered = Scenarios[k].amount
  BY <1>1, InTheEnd DEF Done, Ends
<1>3. /\ table[12].eligibility = "ELIGIBLE" /\ table[12].state = "ACTION_EXECUTED"
      /\ table[12].action = "EXECUTED"
  BY <1>1, InTheEnd DEF Done, Ends
<1>4. ASSUME NEW k \in {4, 5}
      PROVE  /\ table[k].eligibility = "REQUIRES_ESCALATION" /\ table[k].state = "ESCALATED"
             /\ table[k].action = "EXECUTED"
  BY <1>1, InTheEnd DEF Done, Ends
<1>5. ASSUME NEW k \in Stopped
      PROVE  /\ table[k].eligibility = "INELIGIBLE" /\ table[k].state = "TERMINAL_NO_ACTION"
             /\ table[k].action = "BLOCKED"
  BY <1>1, InTheEnd DEF Done, Ends
<1> QED
  BY <1>1, <1>2, <1>3, <1>4, <1>5

(* The rates, in basis points.                                               *)
LEMMA Rates ==
  /\ Rate(6, 15) = 4000 /\ Rate(6, 7) = 8571
  /\ Rate(28648, 122117) = 2346 /\ Rate(28648, 31538) = 9084
BY SMT DEF Rate

(* A run that has gone through has the scores of the document.               *)
LEMMA SameScores ==
  ASSUME Limits, NEW table, Done(table)
  PROVE  Summarised(table) = Scorecard
<1>1. PICK eligible, recovered, escalated, terminal, executed, blocked :
        /\ eligible = {k \in Ids : table[k].eligibility = "ELIGIBLE"}
        /\ recovered = {k \in Ids : table[k].state = "RECOVERED"}
        /\ escalated = {k \in Ids : table[k].state = "ESCALATED"}
        /\ terminal = {k \in Ids : table[k].state = "TERMINAL_NO_ACTION"}
        /\ executed = {k \in Ids : table[k].action = "EXECUTED"}
        /\ blocked = {k \in Ids : table[k].action = "BLOCKED"}
  OBVIOUS
<1>2. PICK revenue : revenue = SumFunctionOnSet([k \in Ids |-> table[k].recovered], recovered)
  OBVIOUS
<1>3. Summarised(table) =
        [cases |-> Cardinality(Ids), atRisk |-> Amounts(Ids),
         eligible |-> Cardinality(eligible), opportunity |-> Amounts(eligible),
         executed |-> Cardinality(executed), blocked |-> Cardinality(blocked),
         recovered |-> Cardinality(recovered), revenue |-> revenue,
         escalated |-> Cardinality(escalated), escalatedAmount |-> Amounts(escalated),
         terminal |-> Cardinality(terminal), terminalAmount |-> Amounts(terminal),
         caseRate |-> Rate(Cardinality(recovered), Cardinality(Ids)),
         eligibleCaseRate |-> Rate(Cardinality(recovered), Cardinality(eligible)),
         portfolioRate |-> Rate(revenue, Amounts(Ids)),
         opportunityRate |-> Rate(revenue, Amounts(eligible))]
  BY <1>1, <1>2, Zenon DEF Summarised
<1>4. /\ eligible = Collected \cup {12} /\ recovered = Collected /\ escalated = {4, 5}
      /\ terminal = Stopped /\ executed = Collected \cup {12} \cup {4, 5} /\ blocked = Stopped
  BY <1>1, WhoEndsHow
<1>5. /\ Cardinality(Ids) = 15 /\ Amounts(Ids) = 122117
      /\ Cardinality(eligible) = 7 /\ Amounts(eligible) = 31538
      /\ Cardinality(executed) = 9 /\ Cardinality(blocked) = 6
      /\ Cardinality(recovered) = 6 /\ Amounts(recovered) = 28648 /\ IsFiniteSet(recovered)
      /\ Cardinality(escalated) = 2 /\ Amounts(escalated) = 69750
      /\ Cardinality(terminal) = 6 /\ Amounts(terminal) = 20829
  BY <1>4, AmountsOfSets DEF Amounting
<1>6. revenue = 28648
  <2>1. PICK f, g : f = [k \in Ids |-> table[k].recovered] /\ g = [k \in Ids |-> Scenarios[k].amount]
    OBVIOUS
  <2>2. \A k \in recovered : f[k] = g[k]
    BY <1>1, <1>4, <2>1, WhoEndsHow
  <2>3. SumFunctionOnSet(f, recovered) = SumFunctionOnSet(g, recovered)
    BY <1>5, <2>2, SumSame
  <2>4. SumFunctionOnSet(g, recovered) = Amounts(recovered)
    BY <2>1 DEF Amounts
  <2> QED
    BY <1>2, <1>5, <2>1, <2>3, <2>4
<1> QED
  BY <1>3, <1>5, <1>6, Rates DEF Scorecard

(* Every run that completes scores the same, the scores of                   *)
(* docs/CONTROLLED_BENCHMARK.md, whatever other runs, live or broken off,    *)
(* and the live pipeline have put into the tables (benchmark_runner.py:      *)
(* 297-306, recovery_service.py:229).  The proof is that the links counted   *)
(* against the cooldown are those of the run's own customers.                *)
THEOREM BenchmarkIsReproducible ==
  ASSUME Limits
  PROVE  Spec => []Reproducible
<1>1. ASSUME Inv PROVE Reproducible
  <2>1. ASSUME NEW r \in Runs, summary[r] # NoSummary
        PROVE  summary[r] = Scorecard
    <3>1. summary[r] = Summarised(rows[r]) /\ Done(rows[r])
      BY <1>1, <2>1 DEF Inv, Kept
    <3> QED
      BY <3>1, SameScores
  <2> QED
    BY <2>1 DEF Reproducible
<1> QED
  BY <1>1, InvHolds, PTL
=============================================================================
