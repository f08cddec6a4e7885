----------------------------- MODULE Benchmark -----------------------------
(***************************************************************************)
(* The controlled benchmark: POST /cases/benchmark/run (api/cases.py),      *)
(* BenchmarkRunner and EvaluationRecoveryExecutor                           *)
(* (eval/benchmark_runner.py).  A run takes the scenarios one after the     *)
(* other through the production triage, classification, eligibility and    *)
(* guardrails, and stands in for the gateway and the customer itself.  It   *)
(* works on the tables of production, and every service it calls commits:   *)
(* other runs, the live pipeline and the dashboard see it half done, and a  *)
(* run that is broken off leaves its rows behind.                           *)
(*                                                                         *)
(* An action is what one commit makes visible.  Amounts are in rupees,      *)
(* rates in basis points, as the scores are printed with two decimals.      *)
(***************************************************************************)
EXTENDS Integers, Sequences, FiniteSets, Functions, PolicyGuardrail,
        CanonicalScenarios, Classifier

CONSTANTS Runs,          \* benchmark runs that may be started
          MaxLiveLinks   \* bound: links that live cases of a customer get

ASSUME RunAssumption == IsFiniteSet(Runs) /\ MaxLiveLinks \in Nat

Ids == DOMAIN Scenarios
Frequent == 9            \* CS09, whose customer has been here before

NoRow == [state |-> "none"]
NoSummary == [cases |-> -1]

VARIABLES rows,      \* rows[r][k]: the recovery case of scenario k in run r
          seeded,    \* seeded[r]: prior cases with a link that run r put on record
          at,        \* at[r]: the scenario that run r is busy with, 0 if none
          started,   \* the runs in the order of their created_at
          summary,   \* summary[r]: the row of evaluation_runs, once written
          live       \* live[k]: links of live cases of scenario k's customer

vars == <<rows, seeded, at, started, summary, live>>

Init ==
  /\ rows = [r \in Runs |-> [k \in Ids |-> NoRow]]
  /\ seeded = [r \in Runs |-> 0]
  /\ at = [r \in Runs |-> 0]
  /\ started = <<>>
  /\ summary = [r \in Runs |-> NoSummary]
  /\ live = [k \in Ids |-> 0]

-----------------------------------------------------------------------------
(* The row of scenario k as it is first committed, by enrich_context. *)
Ingested(k) ==
  [state |-> "CONTEXT_RETRIEVED", category |-> "none", eligibility |-> "none",
   policy |-> "none", action |-> "none", link |-> Scenarios[k].link, recovered |-> 0]

(* The links of the same customer that count against the cooldown.  Each    *)
(* scenario has a customer of its own; the prior cases belong to CS09's.    *)
AttemptsAcrossRuns(r, k) ==   \* wrong: every link in the table counts
  live[k]
  + (IF k = Frequent THEN SumFunction(seeded) ELSE 0)
  + Cardinality({q \in Runs \ {r} : rows[q][k] # NoRow /\ rows[q][k].link})

Attempts(r, k) == IF k = Frequent THEN seeded[r] ELSE 0

Context(k, row) ==
  [amount |-> Scenarios[k].amount, currency |-> "INR",
   category |-> row.category, link |-> row.link, stale |-> FALSE]

(* What RecoveryTriageService.evaluate_eligibility finds for the row of     *)
(* scenario k.                                                              *)
Eligibility(k, row, attempts) == Evaluate(Context(k, row), TRUE, attempts)

(* The guardrails refuse any status but failed, next after the currency. *)
Guardrail(k, row, attempts) ==
  LET s == Scenarios[k]
  IN  IF s.paid THEN Ruling("REJECT", "P_NO_ACTION")
      ELSE Validate(Context(k, row), s.advisory, s.proposed, s.currency, TRUE, attempts)

(* The guardrails have the last word on the eligibility, too. *)
Reconciled(eligibility, ruling) ==
  CASE ruling.decision = "REJECT"                   -> "INELIGIBLE"
    [] ruling.decision \in {"ESCALATE", "DOWNGRADE"}
       /\ ruling.policy = "P_ESCALATE_ONLY"         -> "REQUIRES_ESCALATION"
    [] OTHER                                        -> eligibility

ActedDelayed(row, k, ruling) ==   \* wrong: a delayed link is left to the sweep
  CASE ruling.policy = "P_CREATE_LINK_DELAYED" ->
         [row EXCEPT !.action = "SCHEDULED", !.state = "ACTION_APPROVED"]
    [] OTHER -> [row EXCEPT !.action = "BLOCKED", !.state = "TERMINAL_NO_ACTION"]

(* EvaluationRecoveryExecutor.execute: sets the state without asking the    *)
(* state machine, so that a case triaged as terminal may still be escalated.*)
Acted(row, k, ruling) ==
  CASE ruling.decision = "APPROVE" /\ ruling.policy \in LinkPolicies ->
         IF Scenarios[k].outcome = "RECOVERED"
           THEN [row EXCEPT !.action = "EXECUTED", !.link = TRUE,
                            !.state = "RECOVERED", !.recovered = Scenarios[k].amount]
           ELSE [row EXCEPT !.action = "EXECUTED", !.link = TRUE,
                            !.state = "ACTION_EXECUTED"]
    [] ruling.policy = "P_ESCALATE_ONLY" ->
         [row EXCEPT !.action = "EXECUTED", !.state = "ESCALATED"]
    [] OTHER -> [row EXCEPT !.action = "BLOCKED", !.state = "TERMINAL_NO_ACTION"]

Settled(k, row, ruling) ==
  Acted([row EXCEPT !.eligibility = Reconciled(@, ruling), !.policy = ruling.policy],
        k, ruling)

(* What a run makes of the row of its scenario k in the end. *)
Outcome(r, k) == Settled(k, rows[r][k], Guardrail(k, rows[r][k], Attempts(r, k)))

-----------------------------------------------------------------------------
(* Half up, as round() of the quotients that occur here. *)
Rate(part, whole) == IF whole > 0 THEN (20000 * part + whole) \div (2 * whole) ELSE 0

Amounts(K) == SumFunctionOnSet([k \in Ids |-> Scenarios[k].amount], K)

(* The row of evaluation_runs, from the rows of the run's own scenarios (the *)
(* prior cases do not match eval_case_%).                                    *)
Summarised(table) ==
  LET In(field, value) == {k \in Ids : table[k][field] = value}
      eligible  == In("eligibility", "ELIGIBLE")
      recovered == In("state", "RECOVERED")
      escalated == In("state", "ESCALATED")
      terminal  == In("state", "TERMINAL_NO_ACTION")
      revenue   == SumFunctionOnSet([k \in Ids |-> table[k].recovered], recovered)
  IN  [cases |-> Cardinality(Ids), atRisk |-> Amounts(Ids),
       eligible |-> Cardinality(eligible), opportunity |-> Amounts(eligible),
       executed |-> Cardinality(In("action", "EXECUTED")),
       blocked |-> Cardinality(In("action", "BLOCKED")),
       recovered |-> Cardinality(recovered), revenue |-> revenue,
       escalated |-> Cardinality(escalated), escalatedAmount |-> Amounts(escalated),
       terminal |-> Cardinality(terminal), terminalAmount |-> Amounts(terminal),
       caseRate |-> Rate(Cardinality(recovered), Cardinality(Ids)),
       eligibleCaseRate |-> Rate(Cardinality(recovered), Cardinality(eligible)),
       portfolioRate |-> Rate(revenue, Amounts(Ids)),
       opportunityRate |-> Rate(revenue, Amounts(eligible))]

-----------------------------------------------------------------------------
(* A run puts CS09's prior cases on record, then ingests and enriches the   *)
(* first scenario; enrich_context commits it all.                           *)
Start(r) ==
  /\ r \notin Range(started)
  /\ started' = Append(started, r)
  /\ seeded' = [seeded EXCEPT ![r] = Scenarios[Frequent].priors]
  /\ at' = [at EXCEPT ![r] = 1]
  /\ rows' = [rows EXCEPT ![r][1] = Ingested(1)]
  /\ UNCHANGED <<summary, live>>

Busy(r, k) == k \in Ids /\ at[r] = k

ClassifyCase(r) ==
  LET k == at[r]
  IN  /\ Busy(r, k)
      /\ rows[r][k].category = "none"
      /\ rows' = [rows EXCEPT ![r][k].category = Classify(Scenarios[k].failure)]
      /\ UNCHANGED <<seeded, at, started, summary, live>>

(* evaluate_eligibility moves the case on before the guardrails have spoken. *)
Judged(row, eligibility) ==
  [row EXCEPT
     !.eligibility = eligibility,
     !.state = CASE eligibility = "ELIGIBLE"            -> "ELIGIBILITY_CHECKED"
                 [] eligibility = "REQUIRES_ESCALATION" -> "ESCALATED"
                 [] OTHER                               -> "TERMINAL_NO_ACTION"]

EvaluateEligibility(r) ==
  LET k == at[r]
  IN  /\ Busy(r, k)
      /\ rows[r][k].category # "none"
      /\ rows[r][k].eligibility = "none"
      /\ rows' = [rows EXCEPT ![r][k] = Judged(@, Eligibility(k, @, Attempts(r, k)))]
      /\ UNCHANGED <<seeded, at, started, summary, live>>

(* Guardrails, execution and outcome of a scenario are flushed only: they   *)
(* are committed with the enrichment of the next one.                       *)
Advance(r) ==
  LET k == at[r]
  IN  /\ Busy(r, k) /\ k + 1 \in Ids
      /\ rows[r][k].eligibility # "none"
      /\ rows' = [rows EXCEPT ![r][k] = Outcome(r, k), ![r][k + 1] = Ingested(k + 1)]
      /\ at' = [at EXCEPT ![r] = k + 1]
      /\ UNCHANGED <<seeded, started, summary, live>>

(* ... and for the last one with the summary of the run. *)
Complete(r) ==
  LET k == at[r]
      table == [rows[r] EXCEPT ![k] = Outcome(r, k)]
  IN  /\ Busy(r, k) /\ k + 1 \notin Ids
      /\ rows[r][k].eligibility # "none"
      /\ rows' = [rows EXCEPT ![r] = table]
      /\ summary' = [summary EXCEPT ![r] = Summarised(table)]
      /\ at' = [at EXCEPT ![r] = 0]
      /\ UNCHANGED <<seeded, started, live>>

(* The request fails, or the process restarts, between two commits. *)
BrokenOff(r) ==
  /\ at[r] # 0
  /\ at' = [at EXCEPT ![r] = 0]
  /\ UNCHANGED <<rows, seeded, started, summary, live>>

(* The live pipeline issues a link to a customer of a scenario. *)
LiveLink(k) ==
  /\ live[k] < MaxLiveLinks
  /\ live' = [live EXCEPT ![k] = @ + 1]
  /\ UNCHANGED <<rows, seeded, at, started, summary>>

(* Links of the customers of CS01, of CS09 and of no other scenario: the    *)
(* cooldown counts each customer for itself.                                *)
WatchedCustomers == {1, Frequent}

Next ==
  \/ \E r \in Runs : \/ Start(r) \/ ClassifyCase(r) \/ EvaluateEligibility(r) \/ Advance(r)
                     \/ Complete(r) \/ BrokenOff(r)
  \/ \E k \in WatchedCustomers : LiveLink(k)

Spec == Init /\ [][Next]_vars

-----------------------------------------------------------------------------
(* What the dashboard shows: api/cases.py takes the latest row of           *)
(* evaluation_runs by created_at, which is when the run was started.        *)
LatestStarted ==   \* wrong: whatever run was started last
  {started[i] : i \in {Len(started)} \ {0}}

Latest ==
  LET written == {i \in DOMAIN started : summary[started[i]] # NoSummary}
  IN  {started[i] : i \in {j \in written : \A l \in written : l <= j}}

(* The evaluation cases of the default listing (its paging is left out). *)
Listed(r) == {k \in Ids : rows[r][k] # NoRow}

(* The category and the policy breakdown beside the summary. *)
Breakdown(r, field) ==
  [v \in {rows[r][k][field] : k \in Listed(r)} |->
     Cardinality({k \in Listed(r) : rows[r][k][field] = v})]

(* The states at which orchestrate_recovery returns at once. *)
Preserved == {"RECOVERED", "ACTION_EXECUTED", "ESCALATED", "TERMINAL_NO_ACTION"}

Rows == [state : Preserved \cup {"CONTEXT_RETRIEVED", "ELIGIBILITY_CHECKED"},
         category : Categories \cup {"none"},
         eligibility : {"none", "ELIGIBLE", "INELIGIBLE", "REQUIRES_ESCALATION"},
         policy : Policies \cup {"none"},
         action : {"none", "EXECUTED", "BLOCKED"},
         link : BOOLEAN,
         recovered : {0} \cup {Scenarios[k].amount : k \in Ids}]

(* The variables stay within their types; a run is busy with a case that is *)
(* on record, and no case is on record that the run has not reached.        *)
TypeOK ==
  /\ rows \in [Runs -> [Ids -> Rows \cup {NoRow}]]
  /\ seeded \in [Runs -> {0, Scenarios[Frequent].priors}]
  /\ at \in [Runs -> Ids \cup {0}]
  /\ Range(started) \subseteq Runs
  /\ live \in [Ids -> 0 .. MaxLiveLinks]
  /\ \A r \in Runs, k \in Ids : at[r] # 0 => (rows[r][k] # NoRow <=> k <= at[r])

(* docs/CONTROLLED_BENCHMARK.md, section 3. *)
Scorecard ==
  [cases |-> 15, atRisk |-> 122117, eligible |-> 7, opportunity |-> 31538,
   executed |-> 9, blocked |-> 6, recovered |-> 6, revenue |-> 28648,
   escalated |-> 2, escalatedAmount |-> 69750, terminal |-> 6, terminalAmount |-> 20829,
   caseRate |-> 4000, eligibleCaseRate |-> 8571, portfolioRate |-> 2346,
   opportunityRate |-> 9084]

(* Every run that completes scores the same, the scores of the document,    *)
(* whatever other runs, live or broken off, and the live pipeline have put  *)
(* into the tables (benchmark_runner.py:297-306, recovery_service.py:229).  *)
Reproducible == \A r \in Runs : summary[r] \in {NoSummary, Scorecard}

(* A scenario of a completed run has been given the category it was written *)
(* for, and has come out as it declares: recovered money only on the link   *)
(* of an approved policy, escalation on no link at all.                     *)
OutcomesAsDeclared ==
  \A r \in Runs, k \in Ids :
    summary[r] # NoSummary =>
      LET row == rows[r][k] sc == Scenarios[k]
      IN  /\ row.category = sc.category
          /\ row.state = "RECOVERED" <=> sc.outcome = "RECOVERED"
          /\ row.state = "ESCALATED" <=> sc.outcome = "ESCALATED"
          /\ row.recovered = IF sc.outcome = "RECOVERED" THEN sc.amount ELSE 0
          /\ row.state \in {"RECOVERED", "ACTION_EXECUTED"}
               <=> row.eligibility = "ELIGIBLE" /\ row.link

(* A case that a run has gone past is out of reach of the live pipeline:    *)
(* orchestrate_recovery leaves it alone (recovery_orchestrator.py:73-78)    *)
(* and the sweep for due delayed links does not pick it up, though it may   *)
(* be scheduled for later.  This holds of runs that were broken off, too.   *)
ClosedToProduction ==
  \A r \in Runs, k \in Ids :
    rows[r][k] # NoRow /\ (\/ summary[r] # NoSummary
                           \/ k + 1 \in Ids /\ rows[r][k + 1] # NoRow)
      => rows[r][k].state \in Preserved

(* The dashboard shows one run as a whole: the summary it takes from the    *)
(* latest run agrees with the cases it lists and breaks down, while other   *)
(* runs are under way or were broken off.                                   *)
ShowsOneWholeRun ==
  \A r \in Latest :
    /\ Listed(r) = Ids
    /\ summary[r] = Summarised(rows[r])
    /\ \A field \in {"category", "policy"} :
         LET parts == Breakdown(r, field)
         IN  /\ "none" \notin DOMAIN parts
             /\ SumFunction(parts) = summary[r].cases
=============================================================================
