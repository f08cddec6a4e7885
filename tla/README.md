# A formal model of PaymentFlow

PaymentFlow recovers failed payments. The payment gateway (Razorpay) announces
a failed payment by webhook, the failure is classified, an LLM agent proposes
what to do, deterministic guardrails rule on the proposal, an executor creates
a payment link at the gateway, and a later webhook says that the link was paid.
The system handles money, runs as concurrent asyncio tasks over one database,
calls a gateway that may fail without telling, and can be restarted at any
point. This directory holds TLA+ modules of that behaviour, TLC configurations
that model-check them on small instances, and TLAPS proofs of what holds for
instances of every size.

All paths below are relative to the repository; `services/`, `domain/`, `mcp/`,
`api/`, `adapters/`, `db/` and `merchant/` are under `src/paymentflow/`.

## 1. The system and its parts

| Component | State it keeps | Operations | Model |
|---|---|---|---|
| Case lifecycle (`domain/state_machine.py`, `enums.py`) | none; a graph of 14 states, 5 of them terminal | `can_transition`, `transition` | `StateMachine` |
| Eligibility engine, policy guardrails (`domain/eligibility.py`, `policy_engine.py`) | none; ordered rules | `evaluate`, `validate` | `PolicyGuardrail` |
| Triage service (`services/recovery_service.py`) | `recovery_cases` row | `enrich_context`, `classify_case`, `evaluate_eligibility` | `RecoveryPipeline` |
| Orchestrator (`services/recovery_orchestrator.py`) | the run itself, in memory | `orchestrate_recovery`, `process_due_delayed_cases` | `RecoveryPipeline` |
| Agent and MCP server (`mcp/client.py`, `mcp/server.py`) | what the agent has read | four read tools, `request_recovery_action` | `RecoveryPipeline` |
| Executor (`services/recovery_executor.py`) | row lock, link at the gateway | `execute` | `RecoveryPipeline` |
| Webhook service and API (`services/webhook_service.py`, `api/webhooks.py`) | `webhook_events`, the row, background tasks | `process_webhook`, ingestion, attribution | `WebhookService` |
| Merchant registry and API (`merchant/`, `api/merchant.py`) | merchants, checkout contexts (memory) | registration, checkout, key rotation | partly, as seen by the two state machines |
| Gateway adapter, LLM adapter (`adapters/`) | none | create link, get payment; propose a policy | their possible outcomes |
| Cases API (`api/cases.py`) | none | triage, delayed sweep; benchmark, lists, metrics | `RecoveryPipeline`; `Benchmark` |
| Interactive demo (`services/interactive_service.py`, `api/interactive.py`) | a scripted case under a fixed id | launch, verify, reset | `InteractiveService` |
| Classifier (`domain/classifier.py`) | none | failure code, reason and text to category C1..C5 | `Classifier` |
| Controlled benchmark (`eval/benchmark_runner.py`, `canonical_scenarios.py`) | cases in the production tables, `evaluation_runs` | run, show the latest run | `Benchmark`, `CanonicalScenarios` |
| Offline evaluation (`eval/baseline.py`, `agent_evaluator.py`, `llm_provider.py`, `simulator.py`, `dataset.py`) | the dataset, its books | evaluate baseline, mock agent, language model | `Evaluation` |
| Dataset generator, demo batch, live validation, configuration, health | data, settings | writing data, wiring | not modelled (section 8) |

How they interact. The components meet in the database row of a case and in
nothing else:

```
 gateway --webhook--> WebhookService --background task--> Orchestrator
    ^                      |  ^                              |  stages
    |                      v  | FOR UPDATE                   v
    |                 recovery_cases  <--- no lock --- Triage, Agent/MCP
    |                      ^
    +---create link--- Executor (FOR UPDATE) <--- delayed sweep (endpoint)
```

Two parts stand beside this picture. The interactive demo drives the same
pipeline and the same attribution on one case it deletes and inserts again. The
benchmark works on the same tables through the same triage service, but plays
gateway and customer itself. The offline evaluation shares only code.

What is hard about it:

* **Interleaving.** Every stage of the pipeline is an unlocked
  read-modify-write: it reads the row, often awaits something, and commits a
  decision later. A case can be triaged by two runs at once, since every
  `payment.failed` delivered under a new event id starts one and so does the
  triage endpoint. Only the executor and the attribution lock the row.
* **Unreliable delivery.** Webhooks are repeated, reordered, delivered twice at
  the same time, and one payment is announced by two kinds of event.
* **Partial failure.** The gateway call is not part of the database
  transaction. It may time out after having made the link.
* **Restarts.** Runs, background tasks and checkout contexts are in memory.
* **Time.** A delayed link is created by a sweep, long after it was approved.

What makes each part correct:

* Lifecycle: a case moves forward only, and a terminal state is final.
* Guardrails: no link is made for an amount out of bounds, a foreign currency,
  or a risk category, whatever the agent proposes and however runs overlap.
* Executor: the row it validated is the row it acts on; one link per case; no
  link goes unnoticed; every run releases its lock.
* Triage: what was read is still what is decided on; a run that died can be
  started again.
* Delayed links: not before their time, and not forgotten.
* Webhooks: each event has its effect once, each failed payment one case; a
  case is RECOVERED exactly when a captured payment of its amount and merchant
  is attributed to it, and one payment recovers one case.
* Interactive demo: every launch reuses one case id, so that a link or a payment
  of one launch must not end up with another. (Links do not; payments may, which
  is finding `LaunchMixed`.)
* Benchmark: a run scores the same whatever else is in the tables, its cases stay
  out of the live pipeline, and the dashboard shows one whole run.
* Evaluation: the compared policies meet the same customers, the books balance,
  and no proposal takes a link past the limits. (By naming another category it
  takes one past eligibility, which is finding `Bypass`.)

The complete list of what is hard to test, with the line where it bites and the
property that covers it, is under `hazards` in `PROJECT.json`.

## 2. Modules

```
StateMachine   PolicyGuardrail ---------------- Evaluation -- EvaluationMC
  |   |   \        /        \                     \--- EvaluationProofs --\
  |   |  RecoveryPipeline   Benchmark -- BenchmarkMC                   SumLemmas
  |   |    |   \   \          |    \----------------- BenchmarkProofs --/
  |   |    |    \   \        Classifier, CanonicalScenarios
  |   |    |     \   RecoveryPipelineMC
  |   |    |      RecoveryPipelineProofs -- ApartRunsProofs
  |   |    | implements
  |   |  RecoveryCase ---- RecoveryCaseProofs
  |   |    | implements
  |  WebhookService ---- WebhookServiceMC
  |          \---------- WebhookServiceProofs
InteractiveService ----- InteractiveServiceMC
          \------------- InteractiveServiceProofs
```

Definitions marked `\* wrong:` are deliberately faulty variants of the
definition that follows them. No specification uses them. Substituting one for
the definition it shadows must break the property that `mutants` in
`PROJECT.json` names, which shows that the property can see that fault.

### StateMachine

`Transitions` is the table `_TRANSITIONS`; `TransitionAllowed` says when
`transition()` returns instead of raising. `Stage` is not in the code: it orders
the states so that "never backwards" can be stated. `PhaseOf` says which phase of
`RecoveryCase` a state belongs to.

### RecoveryCase

The abstract specification: what the system promises of one case, without a word
of how. A case is `absent`, `undecided`, `approved`, `linked`, `recovered` or
`closed`; it gets a link only when approved, counts as linked only with a link
that exists, and is recovered by one payment. Both large modules implement it, by
the refinement mappings called `Promise`: `WebhookService` with any number of
concurrent requests (checked and proved), `RecoveryPipeline` as long as its runs
do not overlap (checked and proved; with overlap it does not, which is what
`TerminalLeft` shows). Each of them sees the other's part as the promise states it.

### PolicyGuardrail

`Evaluate` and `Validate` are the two engines, rule by rule in their order.
Reason codes and texts are left out. The three layers disagree on how to compare
currencies (eligibility strips and upper-cases, the guardrails upper-case, the
adapter compares exactly), so `Currencies` holds one spelling for each class the
code tells apart. `HighValue` is `HIGH_VALUE_THRESHOLD_PAISE` and `MaxAttempts`
is `MAX_CUSTOMER_RECOVERY_ATTEMPTS_PER_DAY`.

### RecoveryPipeline

A *worker* is one run of `orchestrate_recovery` or one of
`process_due_delayed_cases`. The actions follow the code in order:

| Code | Actions |
|---|---|
| webhook background task, `POST /cases/{id}/triage` | `WebhookTriggers`, `OperatorTriggers` |
| `enrich_context` | `SkipEnrichment`, `Enrich`, `EnrichCommit` |
| `classify_case` | `Classify`, `ClassifyCommit` |
| `evaluate_eligibility` | `Assess` (read), `Judge` or `JudgeRaises` (count, decide), `AssessCommit` |
| `run_recovery_triage` (agent) | `AgentReads`, `AgentGivesUp` |
| `request_recovery_action` (MCP tool) | `Propose`, `ProposeCommit` |
| `process_due_delayed_cases` | `StartSweep`, `NextDue` |
| `RecoveryExecutor.execute` | `ExecuteNothing`, `ExecuteRefused`, `ExecuteBegins`, `AdapterRaises`, `LinkCreated`, `LinkCallFails`, `LinkRecorded` |
| process stop, lost connection, unexpected exception | `Fail` |

How the database is modelled:

* `row` holds the committed rows. `seen` is the row as a transaction loaded it
  and `draft` what it will write. `Flush` writes the columns in which the two
  differ, as SQLAlchemy does, so a stale commit overwrites only what it changed.
* Read and commit are separate steps. An UPDATE waits for the row lock. The
  executor's lock, checks and commit are one step only where nothing outside
  the database is called in between.
* Each stage reads the row again, because the identity map of the session is
  weak and no stage leaves a strong reference to the row.

Deliberate abstractions:

* The states `AI_TRIAGED` and `POLICY_VALIDATED` are in the graph, but no code
  sets them. `mcp/server.py:218` assigns `ACTION_APPROVED` directly from
  `ELIGIBILITY_CHECKED` without asking the state machine, which has no such
  edge. The model does the same.
* The columns `action_status`, `eligibility_status`, reason codes and audit
  texts are dropped: no decision depends on them. `audited` counts the link
  calls whose failure or unknown outcome was audited, since `LinksAccounted`
  is about them.
* `cause` stands for the `failure_*` columns by the category the classifier
  derives from them. (`recovery_service.py:139` assigns the updated
  `failure_context` to itself, so SQLAlchemy sees no change and the gateway's
  fields in it are not written. Code and description are columns of their own.)
* The status of the failed payment is "failed" throughout, and its customer is
  fixed at ingestion: that the enrichment may write the customer the gateway names
  (`recovery_service.py:114`) is left out, so the daily count is of a customer who
  stays the same.
* The agent may propose any of the four policies, which covers every answer
  and every fallback of the LLM adapter. The read tools are one read.
* A timeout, a rate limit, a 5xx and a malformed answer of the link call all
  end in `LinkCallFails`, with or without a link made. An answer that is not
  JSON raises past the handler: that is `Fail`.
* Whether the gateway refuses a second link with the same `reference_id` is the
  constant `GatewayDedups`. The runs take it not to; the proofs cover both.

### WebhookService

A *handler* is one webhook request. `events` is `webhook_events` with its
primary key, and both unique constraints act where the database applies them,
at the commit.

| Code | Actions |
|---|---|
| `process_webhook`, event not on record | `Receive`, `Ignore` (other event types) |
| `_handle_payment_failed` | `Ingest`, `IngestConflict`, `IngestCommit` |
| `_handle_payment_outcome`: find and lock the case | `CorrelateTwo` (two matches raise, rollback), `CorrelateNone`, `Correlate` |
| its gateway call and checks | `Verify`, `VerifyFails` |
| its look for other cases with the payment | `Attribute` |
| the commit, or `IntegrityError` | `OutcomeCommit`, `OutcomeConflict` |
| checkout contexts of the registry | `StoreContext` |
| `_trigger_recovery_orchestration`, triage endpoint | `BackgroundTask`, `OperatorTriage` |
| executor, under its row lock | `MakeLink`, `RecordLink` |
| customers | `Pay` |
| process stop | `Crash` |

`amount` stands for amount and currency together: the code compares both and
only equality matters. The pipeline is reduced to its decision (`Decide`) and
the locked link creation. `Decide` is a check and a set in one step, so a stale
commit of the pipeline over a state that a webhook has written cannot occur here;
that commit is in `RecoveryPipeline` (finding `TerminalLeft`). Composing this module
with the full pipeline is left to the plan; until then `RecoveryCase` is the
interface at which the two meet, and what this module says is said of the steps of
webhooks.

Left out: signature verification, malformed payloads (answered 400, rolled
back), refunds, payloads without a payment id, checkout contexts overwritten by
the demo, and merchants that disappear from the registry (`Registered` is a
constant). A `payment.failed` for an attempt to pay a recovery link is a failed
payment like any other, hence a new case.

### InteractiveService

One case under a fixed id. `run` in its row is the number of the launch that
inserted it: the code has no such column, it is what tells the launches apart in
the properties.

| Code | Actions |
|---|---|
| `launch_scenario`: delete and insert, one commit | `Launch` |
| `POST /cases/{case_id}/triage` with the fixed id | `OperatorTriage` |
| the pipeline either starts | `Triage`, `TriageEnds` (nothing to decide, or it raises), `Decide` |
| the executor | `Execute`, `ExecuteRefused`, `LinkCreated`, `LinkFails`, `LinkRecorded` |
| `process_due_delayed_cases` | `Sweep` |
| `verify_payment`: read, ask for the link, process an event | `Verify`, `NotVerified`, `VerifyProcesses` |
| `process_webhook`, for that event or the gateway's own | `Deliver`, `Duplicate`, `Correlate`, `Check`, `CheckFails`, `Commit` |
| `reset` | `Reset` |

`Launch` and `Reset` delete the row, so they wait for its lock. The pipeline is
reduced to one unlocked read and commit before the executor: a commit of a run
started by an earlier launch hits the new row unnoticed (`Decide`), as an
`UPDATE ... WHERE case_id` does. What such a run may decide on, and to which states
(`Undecided`, `Outcomes`), follows the triage service: a case that is approved
already is assessed again, and only some verdicts raise. Launches and triage requests
are not kept apart, since nothing in the code does. That a launch may ask not to reset, and then
fails on the primary key, changes nothing and is left out, as is the status
endpoint.

### Classifier and CanonicalScenarios

`Classify` is the precedence of reason, code sets, keywords and source. A
description is the set of those keywords it contains. Of the steps a failure may
name, those that contain "authentication" are represented by two
(`AuthenticationSteps`). `Scenarios` are the fifteen
scenarios of the benchmark in their order, in three parts.

### Benchmark

An action is what one commit of a run makes visible: the triage services commit,
while guardrails, execution and outcome of a scenario are flushed and committed
with the next one (`Advance`) or with the summary (`Complete`). `BrokenOff` ends a
run between two commits, and `LiveLink` is the live pipeline writing to the same
table. `Latest`, `Listed` and `Breakdown` are what the dashboard reads. The scores
are computed from the rows as the code does (`Summarised`) and compared with those
of `docs/CONTROLLED_BENCHMARK.md` (`Scorecard`). Two clocks could start two runs in
the same microsecond; the model orders them.

### Evaluation

An evaluation is a sequential program; what makes it worth a model is that three
of them are compared. `luck` is the hash of case and seed, a table fixed in the
initial state. `BaselineCase`, `MockCase`, `ModelProposes` and `ModelFallsBack` are
one turn of the loop each, `ModelFails` is an answer that raises past `decide()`,
and `Age` is the clock passing 72 hours: the dates in the dataset are fixed and the
engines read the clock. Probabilities are ranks of draws. The telemetry of the model
(its counts of calls, errors and fallbacks) is left out: nothing is decided by it.

## 3. Runs

`pass` runs hold in every reachable state of the instance. `violation` runs show
that the code does not do what the repository says of it; see section 6.

| Run | Instance | Shows |
|---|---|---|
| `Overlap` | 2 runs on 1 case, 1 may die, polled endpoint, a payment in "inr" among others | Whatever the interleaving: the executor owns the row it acts on (`LockedRowIsStable`), a link on record stays (`LinkIsForever`), a link is made only for an approved case without one (`LinkNeedsApproval`), each link at the gateway is recorded, audited or lost with a dead run (`LinksAccounted`), the money asked for is within the guardrails (`LinksWithinGuardrails`), every run ends (`RunsEnd`), and a due delayed link *that the adapter would send* does not stay due while the endpoint is polled (`DelayedLinksRun`; what becomes of the others is in section 6). |
| `Sequential` | 1 run at a time, 2 cases of a customer, every kind of payment, 2 may die | Without overlap a case never goes backwards (`ForwardOnly`), the link asks for what is on record (`LinkMatchesCase`), risk categories get none (`NoLinkForRisk`), second links come only from dead runs (`OneLinkPerRunLost`), delays are kept (`DelayIsHonoured`), immediate links respect the daily limit (`ImmediateLinkWithinLimit`), and the pipeline implements `RecoveryCase` (`KeepsPromise`). |
| `Deliveries` | 2 requests, 1 case, 2 payments, 4 events, 1 restart | Each event has its effect once (`EffectOncePerEvent`), a case is ingested once (`IngestedOnce`), an attribution is final (`AttributionIsFinal`), a captured payment whose event is still repeated settles its case (`PaidIsSettled`), and the service implements `RecoveryCase` (`KeepsPromise`). |
| `Attribution` | 1 request at a time, 2 cases, 6 events with wrong case, amount or merchant, 1 restart, 1 failed verification | Each attribution is backed by an event that names payment, case and no foreign merchant (`AttributionHasEvent`) and by a captured payment of the right amount for a recorded link (`RecoveredIsPaid`), a payment recovers one case (`PaymentRecoversOneCase`), and the handling of a late payment leaves finished cases alone (`LatePaymentChangesNothing`). |
| `Interactive` | any 2 requests at once, 2 launches, 1 triage request, 1 reset, 1 failed call | Whatever comes between the steps of a verification, a case is credited with a payment of its amount (`RecoveredByAPayment`; of which launch it does not say) and only once (`RecoveredOnce`); the link on record was made for the launch (`LinkOfThisLaunch`) and none is forgotten (`NoLinkForgotten`); a paid link ends in RECOVERED or ESCALATED while the operator keeps verifying (`PaidIsVerified`). `RecoveredOnce` and `NoLinkForgotten` except the stale commit of a pipeline (`StaleCommit`), `PaidIsVerified` except what such a commit leaves behind (`Overwritten`) and a case whose one event was spent on a failed check (`CheckWasted`, the finding `Unverified`). |
| `Benchmark` | 2 runs over all 15 scenarios, live links to 2 customers | Every completed run has the scores of the document (`Reproducible`) and the outcomes its scenarios declare (`OutcomesAsDeclared`); cases a run has gone past are out of reach of the live pipeline (`ClosedToProduction`, which does not speak of the one a broken-off run was at); the dashboard shows one whole run (`ShowsOneWholeRun`). |
| `Evaluation` | mock agent, baseline and model, 4 cases, 2 draws | The books balance (`BooksBalance`), the better of two policies recovers every draw the other recovers (`SameCustomers`), and no proposal moves the limits on amount, currency, age, failures and number of links (`LimitsBindProposals`). |
| `TerminalLeft` | 2 runs on 1 case | violates `TerminalIsFinal` |
| `PaidTwice` | 2 requests, 1 payment, 2 cases | violates `PaymentRecoversOneCase` |
| `Unverified` | 1 request, 1 failed verification | violates `VerificationIsRetried` |
| `LaunchMixed` | 2 launches, no triage request, reset or failure | violates `PaymentOfThisLaunch` |
| `Bypass` | that of `Evaluation` | violates `LinksAreEligible` |

Sizes, in distinct states: `Overlap` 0.14 million, `Sequential` 1.1 million,
`Deliveries` 0.24 million, `Attribution` 0.58 million, `Interactive` 0.77 million,
`Benchmark` 0.13 million, `Evaluation` 86 thousand. The longest, those with liveness,
take about a minute and a half.

Bounds, and why they are enough:

* `Workers`, `Handlers`: 2 where overlap matters. Every hazard found is a stale
  read of one run against a commit of another, and a worker starts again after
  each run, so two of them already give a stale run against any chain of
  complete ones. For the properties that are proved the number does not matter.
* `Cases`: 2 where cases interact, which they do through the customer's count
  and through a payment claimed for both; `MaxAttempts = 1` makes the second
  case the one at the limit.
* `HighValue = 2` with amounts 0 to 3: not positive, below, at and above the
  ceiling. `Varied` has a fact for each branch of the engines and the adapter.
* `MaxTime` up to 3 with `Delay = Day = 1`, `Staleness = 2`: before, at and
  after each limit. A tick is an arbitrary time: only order matters.
* `MaxFailures` (dead runs), `MaxCrashes` (restarts), `MaxOutages` (failed
  verification calls): 1 or 2. `Fail` and `Crash` may come between any two steps.
* `MaxLinks = 5` caps the links of a case; no run reaches more than 4, so the
  cap excludes nothing.
* `Interactive`: a second request is enough for a stale one against a chain of
  complete ones; two launches make one of them the earlier, and either request may
  launch, triage or verify. `Amounts` gives each launch its own choice: the first
  asks for 1 and the second for 1 to 3, the same, another or one above the ceiling of
  2 (0 is refused). `MaxTriages = 1` starts a run on the row of a launch in any state.
* `Benchmark`: the scenarios are the real ones; two runs are each other's past and
  company. `MaxLiveLinks = 3` brings a customer to the daily limit. Only the two
  customers whose count could matter get live links (`WatchedCustomers`).
* `Evaluation`: four cases of four categories, a customer who failed before and a
  case tried before, so that each rule of the engines that reads the dataset
  decides somewhere; two draws and two tables of draws. The answers of the model
  are a link for its own idea of the category, for less, in another currency, and
  with fields left out.
* Symmetry (of workers, handlers or benchmark runs) is used in runs without
  liveness only.
* Deadlock is not looked for: settled cases under a bounded clock, or events
  all on record, really leave nothing to do. That no run waits for ever for a
  lock is `RunsEnd`.

## 4. Fairness

* `RecoveryPipeline!PolledSpec`: strong fairness of the steps of each run. The
  event loop resumes every task whose await has completed, the gateway client has
  a timeout, and a lock is held by a running or rolled-back transaction only. A
  step that waits for a row lock is enabled only now and then; the database
  (PostgreSQL, `config.py:36`) queues those that wait, so that each gets its turn:
  hence strong. That time passes is weak fairness. And somebody keeps calling
  `POST /cases/delayed/process` (strong, since due cases may come and go). Nothing in
  the code polls: this is an assumption on its operator, and `DelayedLinksRun` is
  only as good as it.
* `WebhookService!FairSpec`: handlers, started background tasks and the
  executor's second half keep running (weak), and the gateway repeats an event
  until it is acknowledged (strong, per event, as a handler may be busy in
  between). No fairness of payments, restarts or operators.
* `InteractiveService!OperatorSpec`: weak fairness of the steps of a request that
  has begun, and an operator who keeps verifying (strong, since another request may
  be in the way at any one moment). `PaidIsVerified` is only as good as this
  operator; no delivery, reset or launch is fair.

## 5. Proofs

### The pipeline, with any overlap

`RecoveryPipelineProofs` proves for any set of cases and workers, any facts,
proposals, limits and bounds that satisfy `PipelineAssumption` and
`LimitAssumption`:

| Theorem | States |
|---|---|
| `TypesHold` | `Spec => []TypeOK` |
| `ExecutorOwnsRow` | `Spec => []LockedRowIsStable` |
| `GuardrailsBindGateway` | `Spec => []LinksWithinGuardrails` |
| `LinksAreApproved` | `Spec => LinkNeedsApproval` |
| `LinksAreKept` | `Spec => LinkIsForever` |
| `LinksAreAccounted` | `Spec => []LinksAccounted` |

These assumptions give the constants their types, say that `None` is no worker,
case or customer, and that `Delay` and `MaxAttempts` are positive.

The argument. None of these properties is inductive. `Inv` is, and is the
conjunction of

* `TypeInv`: types by case (`CaseType`) and by run (`RunType`), and that a run
  in the middle of its work is on a case (`OnCase`);
* `LockedRowIsStable`: a run in the executor holds the lock, and the committed
  row is the one it read;
* `ApprovedIsValid`: a run calling the gateway has a row that passes the
  pre-write validation. Without it nothing would bound the amount when the link
  is made, since the validation was a step earlier;
* `DraftsKeepLink`: a draft of an unlocked stage has the link its transaction
  loaded, so its commit leaves the link alone however stale it is. This is what
  makes the column-wise flush safe, and what `LinkIsForever` rests on;
* `LinksWithinGuardrails` itself.

The main lemma is that a step is *local*: a run changes no other run's program
counter, case or draft, an unlocked commit touches only unlocked rows
(`CommitIsLocal`, `TriageIsLocal`, `AgentIsLocal`, `ExecuteIsLocal`), and only
`ExecuteBegins` enters the locked section (`OnlyExecuteEnters`). Hence a run
inside the executor survives every step of the others (`LockedStep`).

`LinksAccounted` compares the number of links with a number of runs. `AccountInv`
makes it inductive: the runs that hold a link not yet recorded are counted as one
or none (`Unrecorded`), which is enough since by the lock there is never a second
one, and the draft of such a run carries a link number that is not 0
(`NumbersLink`), so that recording moves the link from one side to the other.

### Runs that keep apart

`ApartRunsProofs` is about the properties of run `Sequential`. With overlap most of
them are false; the module says how much separation is enough. Two notions, both
state predicates and conditions of the theorems:

* `Apart`: no two runs work on the same case. Any number of runs may work on other
  cases at the same time. `OneRunIsApart`: one run at a time is always apart.
* `Alone`: no two runs are at work at all.

| Theorem | States |
|---|---|
| `ApartRunsMatchCase` | `Spec /\ []Apart => []LinkMatchesCase` |
| `ApartRunsAvoidRisk` | `Spec /\ []Apart => []NoLinkForRisk` |
| `ApartRunsLinkOnce` | `Spec /\ []Apart => []OneLinkPerRunLost` |
| `ApartRunsGoForward` | `Spec /\ []Apart => ForwardOnly` |
| `ApartRunsHonourDelay` | `Spec /\ []Apart => DelayIsHonoured` |
| `ApartRunsKeepPromise` | `Spec /\ []Apart => KeepsPromise` |
| `LoneRunsKeepLimit` | `Spec /\ []Alone => ImmediateLinkWithinLimit`, for finitely many cases |

Nothing in the code enforces `Apart`: two events for a payment, or an event and the
triage endpoint, start two runs on one case. The condition is therefore not an
assumption about the system but the content of the theorems: whatever goes wrong
when runs overlap goes wrong on a *shared case*, so that a lock per case around
runs and sweeps would be enough for all six, the refinement included. For
the daily limit it would not be: the attempts are counted over the other cases of
the customer, and only `Alone` keeps the count true until the link is made.

The invariant `ApartInv` has a part for each case and one for each run. `CaseOK`
relates a row to its links and the number of lost runs: which states have a policy,
a category, a link, that the link on record is for the amount on record, and that
there are no more links than lost runs explain. `StageInv`
says what a run may rely on at each stage: it has read the row as it still is.
`DraftInv` says what it is going to write (`EnrichmentOf`, `VerdictOn`,
`ProposalFor`, `RecordOf`), and `SweepInv` that the cases left to a sweep are still
due. Every step of a run is then one of a few kinds of progress of a row
(`Progress`), from which the action properties and the refinement follow. The
refinement needs the phase of a row to follow the links of the case, which is what
`CaseOK` says.

### Webhooks

`WebhookServiceProofs` proves for any cases, payments, events, payloads and
number of concurrent requests that satisfy `WebhookAssumption`:

| Theorem | States |
|---|---|
| `WebhookTypesHold` | `Spec => []TypeOK` |
| `RecoveredCasesArePaid` | `Spec => []RecoveredIsPaid` |
| `AttributionsAreAnnounced` | `Spec => []AttributionHasEvent` |
| `AttributionsAreFinal` | `Spec => AttributionIsFinal` |
| `LatePaymentsChangeNothing` | `Spec => LatePaymentChangesNothing` |
| `CasesAreIngestedOnce` | `Spec => IngestedOnce` |
| `EventsActOnce` | `Spec => EffectOncePerEvent` |
| `ServiceKeepsPromise` | `Spec => KeepsPromise` |
| `PaymentsRecoverOnce` | `Spec /\ []DecidedApart => []PaymentRecoversOneCase` |

`WebhookAssumption` types the constants, says that every payload is one of the
three kinds of event, and keeps `None` and `Executor` apart from the values they
are not.

`RecoveredIsPaid` is not inductive: when an attribution is committed, that the
payment is captured and of the right amount was found two steps earlier, and
that the case could become RECOVERED three steps earlier. The inductive
invariant (`Inv` there) therefore says what a request has established:
a request that is about to change a case (`Working`) holds its row lock, the
case is still in a state that may become RECOVERED, and once it goes on to
attribute, the payment is captured, of the amount of the case and of its
merchant (`Owns`). It survives the steps of others because a working request
keeps them from the row by its lock, because a captured payment stays captured,
and because the merchant of a case is written at ingestion only
(`RequestFrame`). Of a case it says, besides what is to be proved, that one that
may become RECOVERED has a link, that one whose link the executor is making is
approved, and that one not yet ingested is untouched (`CaseInv`). The action
properties follow from `RowStep`: a step leaves the row of an existing case
alone, or moves it on from a state that is not terminal.

These theorems speak of webhooks, with the pipeline reduced as described in section 2.
`LatePaymentChangesNothing` in particular is about the steps of handlers only, and
the finding `TerminalLeft` about what they start: there it is the pipeline that takes
a case out of a terminal state.

`RecoveryCaseProofs` proves of the abstract specification that what it promises is
backed (`PromisedCasesAreBacked`): a linked or recovered case has a link, and it is
recovered exactly if a payment stands behind it. `ServiceKeepsPromise` is the
refinement, `Spec => KeepsPromise` for `WebhookService`: initial
states map to initial states, and every step to a step of `RecoveryCase` or to a
stutter. It needs `Inv` above, since whether an attribution is a step from `linked`
to `recovered` depends on what the request established before, and one fact more:
the executor holds a row only once the link of its case exists
(`LockedByExecutor`), so that `RecordLink` maps to a step of the promise. The two
theorems together give `Backed` for the service.

That one payment recovers one case is false in general: finding `PaidTwice`. The
service looks for other cases of the payment (`webhook_service.py:642`) in one step
and commits in a later one, and it holds the lock of its own case only.
`DecidedApart` says that no two requests are between these two steps with the same
payment, and `PaymentsRecoverOnce` that this window is all there is to the finding:
redeliveries, restarts, failed verifications and any number of requests elsewhere do
no harm. A unique column for the payment would close it. Run `Attribution` has one
request at a time, where the condition always holds.

### The interactive demo

`InteractiveServiceProofs` proves, for any number of requests, launches, triage
requests, resets and failed calls and any amounts (`InteractiveAssumption` only types the constants and
keeps `None` apart from the requests):

| Theorem | States |
|---|---|
| `CasesAreRecoveredByAPayment` | `Spec => []RecoveredByAPayment` |
| `LinksAreOfTheirLaunch` | `Spec => []LinkOfThisLaunch` |
| `CasesAreRecoveredOnce` | `Spec => RecoveredOnce` |
| `NoLinkIsForgotten` | `Spec => NoLinkForgotten` |

Its inductive invariant (`Inv` there) says again what a request has established
while it holds the row: the executor, that the case is the approved one it read and
that the last link is made for it; an attribution, that the case may still become
RECOVERED and the amounts agree.

The last two theorems hold however many launches and triage requests there are at a
time. Their formulas except one kind of step, `StaleCommit`: of two runs at a time,
the one that decides last overwrites the state the case has reached since (`Decide`),
as finding `TerminalLeft` shows of the pipeline in full. What the theorems add is that
this is all: no failed call, reset, further launch, repeated verification or delivery
undoes a recovery or leaves a link without a trace. They rest on `Numbered` (runs are
numbered upwards, so a new launch has no link yet) and go by kinds of steps: one that
leaves case and links alone (`Kept`), one that only changes a state nobody holds
(`StateStep`), and the executor's, whose link is traced by the lock until it is on
record. Of every other step the proof shows `RowStep` and `LinkStep`.

### The benchmark and the evaluation

`BenchmarkProofs` proves for any number of benchmark runs, each possibly broken off,
and any number of live links beside them:

| Theorem | States |
|---|---|
| `BenchmarkTyped` | `Spec => []TypeOK` |
| `ScenariosStayClosed` | `Spec => []ClosedToProduction` |
| `DashboardShowsOneRun` | `Spec => []ShowsOneWholeRun` |
| `ScenariosEndAsDeclared` | `Spec => []OutcomesAsDeclared`, given `Limits` |
| `BenchmarkIsReproducible` | `Spec => []Reproducible`, given `Limits` |

The argument: what a run makes of scenario `k` is a function of `k` alone
(`Final`), since the links it counts against the cooldown are those of its own
prior cases. The invariant says that the rows of a run are final before the
scenario it is busy with, under way at it and absent after it (`Reached`); that
also when it was broken off no scenario was begun before the one in front of it was
final (`InLine`); and that a summary is that of final rows (`Kept`). A step of one
run leaves the other runs alone, so that one lemma (`RunStep`) serves all actions.
The first three theorems follow for any limits. For the last two the fifteen
scenarios are evaluated (`CS01` to `CS15`, through the classifier and both engines)
and the sums of the scores are computed group by group.

`Limits` is the range of the two limits in which the scenarios are what they are
named for: the ceiling lies between the amount of CS14, which is to be collected,
and that of CS04, which is to be escalated (14,750 to 64,999 rupees), and the daily
limit is reached by three prior links and not by none (1 to 3). The code has 50,000
and 3 (`domain/eligibility.py:17-18`), and so has run `Benchmark`. Outside of the
range the scores of `docs/CONTROLLED_BENCHMARK.md` are not those of the code: the
theorems say how far the limits may move before the document and the scenarios have
to be revised.

`EvaluationProofs` proves for any dataset that satisfies `EvaluationAssumption` (as
`validate_dataset` demands), any number and table of draws, any evaluations, and
whatever a model proposes:

| Theorem | States |
|---|---|
| `EvaluationTyped` | `Spec => []TypeOK` |
| `BooksAlwaysBalance` | `Spec => []BooksBalance` |
| `CustomersAreTheSame` | `Spec => []SameCustomers` |
| `LimitsAlwaysBind` | `Spec => []LimitsBindProposals` |

Its invariant holds after every case of an evaluation: the books of the categories
add up to those of the whole and bound each other (`Balanced`), each record has
recovered the draws of its policy (`Drawn`), an approved link is one that eligibility
would grant at that moment for the category the proposal names (`Granted`), and
baseline and mock name the category of the case (`Owned`). From the last two follows
`LimitsBindProposals`: the limits that do not depend on the category hold of every
link, and eligibility in full where the category is the right one. Where it is not,
eligibility is what finding `Bypass` refutes.
`BooksBalance` also bounds what rounding down loses: five floors of quotients by the
same divisor lose less than five paise against the floor of their sum
(`FloorsLose`).

Both rest on `SumLemmas`: what `SumFunctionOnSet` of the community modules is on any
finite set. It is defined by a recursive function on sets. The induction theorems of
the library take a predicate as a parameter, which the provers cannot instantiate;
the proofs take a least counterexample instead, which exists because strict inclusion
is well-founded on the subsets of a finite set (`LeastSubset`).

### Only model-checked

* Liveness: `RunsEnd`, `DelayedLinksRun`, `PaidIsSettled` and `PaidIsVerified`. It
  is out of the prover's reach, as is ENABLED.
* The five findings, which are counterexamples.
* That the classifier and the engines are what they are meant to be on inputs other
  than those of the scenarios: nothing in the repository states it but the code.

Every other property of a passing run is a theorem, for any values of the constants;
those of `ApartRunsProofs` and `PaymentsRecoverOnce` hold under the separation they
name, and the run that checks them has that separation.

## 6. Where the code and its documentation disagree

Each was found while modelling, and each has a run whose counterexample is a
behaviour of the code.

| Run | The repository says | The code does |
|---|---|---|
| `TerminalLeft` | "Terminal states: no further transitions allowed" (`domain/state_machine.py:69`) | A commit of a stale read (`mcp/server.py:256` and the earlier stages) takes a case out of a terminal state. |
| `PaidTwice` | "One payment cannot recover two cases" (`webhook_service.py:642`) | The other case is looked for without a lock, and the column is not unique. |
| `Unverified` | `"requires_retry": True` (`webhook_service.py:474`) | The event is recorded as processed, so its redelivery is a duplicate and nothing retries. |
| `LaunchMixed` | "One payment cannot recover two cases" (`webhook_service.py:642`) | A payment is matched by the case id in the notes of its link (`webhook_service.py:324`), which in the demo is the same for every launch: a payment of one launch recovers the case of the next, if the amounts agree. |
| `Bypass` | "Agent proposals cannot bypass eligibility" (`docs/MOCK_AGENT_EVALUATION_REPORT.md:43`, written by `agent_evaluator.py:527`) | The guardrails are told the category the proposal names (`agent_evaluator.py:188`): a C4 case proposed as C1 is granted a link. |

Seen while modelling, and without a run of their own:

* A run that dies between `recovery_executor.py:316` and its commit leaves a link
  nobody knows of, and a later sweep makes another, if the gateway accepts a
  repeated `reference_id` (`README.md:333`: "Exactly one unpaid recovery link").
  `OneLinkPerRunLost` says that this is the only way to a second link.
* The daily limit of links (`README.md:332`) is counted at eligibility only:
  delayed links approved before the first one exists are all made.
  `ImmediateLinkWithinLimit` is what does hold.
* A case left in `ELIGIBILITY_CHECKED` by a run that died cannot be triaged again:
  the transition to the same state raises (`api/webhooks.py:22`: "durable,
  idempotent recovery orchestration").
* A background task lost by a restart is not started again
  (`api/webhooks.py:109`).
* An event that arrives before its case can be matched, or before the link is
  recorded, is recorded and never looked at again (`webhook_service.py:344`).
  `PaidIsSettled` therefore speaks only of events still repeated when the case has
  its link.
* `docs/CONTROLLED_BENCHMARK.md:54` and `:58` give `REJECT` as the decision for CS09
  and CS13; the guardrails answer `DOWNGRADE` there. Outcome and scores are the
  same, and a `DOWNGRADE` to no action leaves the eligibility as triage set it.
* The baseline is called reproducible (`docs/EVALUATION_METHODOLOGY.md:85`,
  `tests/test_baseline_evaluator.py:62`), but `evaluate_baseline_eligibility` passes
  no time: 72 hours after the dates of the dataset every case is stale, and two
  evaluations on either side of that moment differ (`Age`).
* "Any schema breach or network timeout triggers fail-closed fallback"
  (`docs/ARCHITECTURE.md:89`); an empty list of candidates, or JSON that is no
  object, raises past `decide()` instead (`ModelFails`), before the call is counted,
  and ends the evaluation without results.
* A case in "inr", which eligibility and the guardrails normalize and approve, is
  refused by the adapter (`razorpay_adapter.py:161`, `AdapterRaises`). The executor
  does not catch it; the sweep does (`recovery_orchestrator.py:225`), leaves the case
  in `ACTION_APPROVED` and takes it up again every time it is polled, for ever
  ("Execute all due delayed recovery cases restart-safely", `api/cases.py:626`).
  `DelayedLinksRun` excepts such a case.
* A launch or a triage request of the demo that overlaps another commits over what the
  case has become since (`StaleCommit`), and a failed check of a paid link spends the
  event that every later verification repeats (`CheckWasted`): the case then stays in
  VERIFICATION, the demo's instance of `Unverified`.
* The case that a broken-off benchmark run was at stays half done in the production
  table (`benchmark_runner.py:289`): a triage of it goes through the live pipeline.
  `ClosedToProduction` covers the cases the run has gone past.
* `docs/LIMITATIONS.md:58` promises retries of a gateway that answers 429; the
  executor ends the case in `ERROR_TERMINAL`.
* `docs/RECOVERY_ENGINE.md:42` lists `INSUFFICIENT_FUNDS` and `LIMIT_EXCEEDED` under
  C3; the classifier has them under C1 and C4.

## 7. Plan

Done so far: the pipeline, the webhooks, the abstract specification and its
refinements, the interactive demo, the classifier, the benchmark and the
evaluation. What is left, in this order:

1. `PaymentFlow`: the pipeline and the webhooks composed over one row and one
   lock, in place of the interface between them. Questions: a commit of a stale
   draft that takes a case out of RECOVERED, payments announced before the link is
   on record. Instance: 1 case, 1 run, 1 handler, 1 payment, 2 events.
2. `MerchantRegistry`: registration, checkout contexts and key rotation;
   isolation of merchants in the API and after a restart.
3. Proofs: of the composed model, that attributions and links survive a stale
   commit of the pipeline; lemmas on the engines (what eligibility accepts the
   guardrails approve, where they see the same context).

## 8. Not modelled

* `eval/generate_dataset.py` and `eval/canonical_batch.py` are data written out as
  code: one assembles 75 cases, the other inserts a fixed batch of finished cases
  (the deprecated `POST /cases/demo/seed`). They decide nothing; what the
  evaluation needs of the dataset is what `validate_dataset` demands of it, and a
  small dataset with its features stands for it.
* `eval/live_validator.py` and `mcp/eval_server.py`: a sequential script that asks a
  real model and prints a report, and the read-only tools it uses. Its guardrails
  are those of `Evaluation`.
* The writing of reports and result files, in `eval/baseline.py` and
  `eval/agent_evaluator.py`.
* `api/merchant.py`, `merchant/auth.py`: authentication and read-only views. The
  registry matters to the models by its checkout contexts and by who is known.
* `adapters/llm_adapter.py`: prompts, retries and parsing; whatever comes of them is
  one of the four policies, and the pipeline is modelled with all four.
* `api/cases.py`: details of a case, and the summary over live cases (read-only).
* `config.py`, `main.py`, `api/health.py`: settings, wiring and probes.

## 9. Running

In this directory, with TLC and TLAPS on the path:

```
tlc -workers 2 -config Overlap.cfg RecoveryPipelineMC
tlc -workers 2 -config Deliveries.cfg WebhookServiceMC
tlc -workers 2 -config Interactive.cfg InteractiveServiceMC
tlapm RecoveryPipelineProofs.tla
tlapm ApartRunsProofs.tla
tlapm WebhookServiceProofs.tla
tlapm InteractiveServiceProofs.tla
tlapm BenchmarkProofs.tla
tlapm EvaluationProofs.tla
```

`PROJECT.json` says which module goes with which configuration.
