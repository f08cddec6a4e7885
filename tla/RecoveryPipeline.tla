-------------------------- MODULE RecoveryPipeline --------------------------
(***************************************************************************)
(* The recovery pipeline: what happens to a recovery case between the      *)
(* ingestion of its failed payment and the creation of its payment link.   *)
(*                                                                         *)
(* A worker is one run of RecoveryOrchestrator.orchestrate_recovery (the   *)
(* background task of a payment.failed webhook, or POST /cases/{id}/triage)*)
(* or of process_due_delayed_cases (POST /cases/delayed/process).  Workers *)
(* run concurrently and meet only in the database.  Every stage opens a    *)
(* transaction, reads the case's row WITHOUT locking it, decides, and      *)
(* commits later: its reads and its commit are separate steps here.  Only  *)
(* RecoveryExecutor takes the row lock (SELECT ... FOR UPDATE) and keeps   *)
(* it while it calls the gateway.                                          *)
(***************************************************************************)
EXTENDS Integers, Sequences, FiniteSets, StateMachine, PolicyGuardrail

CONSTANTS
  Cases,           \* recovery cases (case_id)
  Workers,         \* concurrent runs of the orchestrator
  None,            \* no worker, no case
  Customers,       \* known customer ids
  CustomerOf,      \* customer_id of a case, None when the payment has none
  MerchantOf,      \* "none" (LIVE_CHECKOUT), "active" or "inactive" credentials
  CreatedAt,       \* created_at of a case, in ticks
  IngestedFacts,   \* what the webhook may say of a payment
  GatewayFacts,    \* what GET /payments/{id} may say of it
  Proposals,       \* policies the agent may propose
  Delay,           \* the 15 minutes of a delayed link, in ticks
  Day,             \* 24 hours, in ticks
  Staleness,       \* MAX_STALENESS_SECONDS, in ticks
  GatewayDedups,   \* the gateway refuses a second link with a reference_id
  MaxTime, MaxLinks, MaxFailures   \* bounds: clock, links of a case, failures

Facts == [amount : Int, currency : Currencies, cause : Categories]

ASSUME PipelineAssumption ==
  /\ None \notin Workers \cup Cases \cup Customers
  /\ CustomerOf \in [Cases -> Customers \cup {None}]
  /\ MerchantOf \in [Cases -> {"none", "active", "inactive"}]
  /\ CreatedAt \in [Cases -> Nat]
  /\ IngestedFacts \subseteq Facts /\ GatewayFacts \subseteq Facts
  /\ Proposals \subseteq Policies
  /\ Delay \in Nat \ {0} /\ Day \in Nat /\ Staleness \in Nat
  /\ GatewayDedups \in BOOLEAN
  /\ MaxTime \in Nat /\ MaxLinks \in Nat /\ MaxFailures \in Nat

VARIABLES
  row,       \* recovery_cases: the committed row of each case
  lock,      \* the worker that holds the row lock of a case
  gateway,   \* links that exist at the gateway for a case, in order of creation
  audited,   \* link calls of a case audited as failed or of unknown outcome
  now,       \* the clock, in ticks
  failures,  \* runs that died so far
  pc,        \* what a worker does next
  cur,       \* the case a worker is on
  fetch,     \* fetch_from_gateway
  sweep,     \* due cases a delayed run has left
  delayed,   \* is_delayed
  seen,      \* the row as the worker's transaction read it
  draft,     \* the row as its transaction is about to write it
  quote      \* amount and currency the agent read and will propose

caseVars == <<row, lock, gateway, audited>>
runVars == <<pc, cur, fetch, sweep, delayed, seen, draft, quote>>
vars == <<caseVars, now, failures, runVars>>

(***************************************************************************)
(* The columns of RecoveryCaseModel the pipeline's control depends on.     *)
(* link is payment_link_id: n is the n-th link of the gateway, 0 is NULL.  *)
(* cause stands for the failure_* columns by the category the classifier   *)
(* derives from them.  scheduled is scheduled_at, 0 is NULL.               *)
(***************************************************************************)
Row == [state : CaseState, policy : Policies \cup {"NULL"},
        category : Categories \cup {"NULL"}, cause : Categories,
        amount : Int, currency : Currencies, link : Nat, scheduled : Nat]

Money == [amount : Int, currency : Currencies]

NewRow(f) ==
  [state |-> "FAILED_INGESTED", policy |-> "NULL", category |-> "NULL",
   cause |-> f.cause, amount |-> f.amount, currency |-> f.currency,
   link |-> 0, scheduled |-> 0]

Blank == NewRow([amount |-> 0, currency |-> "INR", cause |-> "C5"])
NoQuote == [amount |-> 0, currency |-> "INR"]

PC == {"idle", "enrich", "enriched", "classify", "classified", "assess", "count",
       "assessed", "agent", "propose", "proposed", "execute", "calling",
       "created", "sweeping"}

Init ==
  /\ row \in [Cases -> {NewRow(f) : f \in IngestedFacts}]
  /\ lock = [c \in Cases |-> None]
  /\ gateway = [c \in Cases |-> <<>>]
  /\ audited = [c \in Cases |-> 0]
  /\ now = 0
  /\ failures = 0
  /\ pc = [w \in Workers |-> "idle"]
  /\ cur = [w \in Workers |-> None]
  /\ fetch = [w \in Workers |-> FALSE]
  /\ sweep = [w \in Workers |-> {}]
  /\ delayed = [w \in Workers |-> FALSE]
  /\ seen = [w \in Workers |-> Blank]
  /\ draft = [w \in Workers |-> Blank]
  /\ quote = [w \in Workers |-> NoQuote]

-----------------------------------------------------------------------------
(***************************************************************************)
(* Transactions.  The session writes only the columns whose value differs  *)
(* from the value it loaded, so a commit overwrites exactly those and      *)
(* leaves what others wrote to the rest.  An UPDATE waits for the row lock.*)
(***************************************************************************)
ColumnOverwritten(old, new, stored) == new   \* wrong: an UPDATE of every column

Column(old, new, stored) == IF new = old THEN stored ELSE new

Flush(old, new, stored) ==
  [state     |-> Column(old.state, new.state, stored.state),
   policy    |-> Column(old.policy, new.policy, stored.policy),
   category  |-> Column(old.category, new.category, stored.category),
   cause     |-> Column(old.cause, new.cause, stored.cause),
   amount    |-> Column(old.amount, new.amount, stored.amount),
   currency  |-> Column(old.currency, new.currency, stored.currency),
   link      |-> Column(old.link, new.link, stored.link),
   scheduled |-> Column(old.scheduled, new.scheduled, stored.scheduled)]

Goto(w, next) == pc' = [pc EXCEPT ![w] = next]
Read(w) == seen' = [seen EXCEPT ![w] = row[cur[w]]]
Modify(w, r) == draft' = [draft EXCEPT ![w] = r]

(* The run is over, and with it everything it held in memory. *)
Finish(w) ==
  /\ Goto(w, "idle")
  /\ cur' = [cur EXCEPT ![w] = None]
  /\ fetch' = [fetch EXCEPT ![w] = FALSE]
  /\ sweep' = [sweep EXCEPT ![w] = {}]
  /\ delayed' = [delayed EXCEPT ![w] = FALSE]
  /\ seen' = [seen EXCEPT ![w] = Blank]
  /\ draft' = [draft EXCEPT ![w] = Blank]
  /\ quote' = [quote EXCEPT ![w] = NoQuote]

(* COMMIT of an unlocked read-modify-write. *)
Commit(w) ==
  /\ lock[cur[w]] = None
  /\ row' = [row EXCEPT ![cur[w]] = Flush(seen[w], draft[w], @)]
  /\ UNCHANGED <<lock, gateway, audited, now, failures>>

(* The run goes on to its next stage holding no row: the identity map of   *)
(* its session is weak, so the next SELECT reads the row afresh.           *)
Proceed(w, next) ==
  /\ Goto(w, next)
  /\ seen' = [seen EXCEPT ![w] = Blank]
  /\ draft' = [draft EXCEPT ![w] = Blank]
  /\ UNCHANGED <<cur, fetch, sweep, delayed, quote>>

-----------------------------------------------------------------------------
(***************************************************************************)
(* Starting a run: the payment.failed webhook (again for every delivery    *)
(* under a new event id) or the triage endpoint.  STEP 0 of the            *)
(* orchestrator looks at the row once and leaves finished cases alone.     *)
(***************************************************************************)
Settled == {"RECOVERED", "ACTION_EXECUTED", "ESCALATED", "TERMINAL_NO_ACTION"}

Start(w, c, fromGateway) ==
  /\ pc[w] = "idle"
  /\ CreatedAt[c] <= now
  /\ row[c].state \notin Settled
  /\ Goto(w, "enrich")
  /\ cur' = [cur EXCEPT ![w] = c]
  /\ fetch' = [fetch EXCEPT ![w] = fromGateway]
  /\ UNCHANGED <<caseVars, now, failures, sweep, delayed, seen, draft, quote>>

WebhookTriggers(w, c) == MerchantOf[c] # "none" /\ Start(w, c, FALSE)

OperatorTriggers(w, c) == Start(w, c, TRUE)

(***************************************************************************)
(* RecoveryTriageService.enrich_context: skipped unless the case is in     *)
(* FAILED_INGESTED.  With fetch_from_gateway the payment is read at the    *)
(* gateway, and a failure of that call moves the case to ERROR_TERMINAL.   *)
(***************************************************************************)
SkipEnrichment(w) ==
  /\ pc[w] = "enrich"
  /\ row[cur[w]].state # "FAILED_INGESTED"
  /\ Proceed(w, "classify")
  /\ UNCHANGED <<caseVars, now, failures>>

Enriched(r, f) ==
  [r EXCEPT !.state = "CONTEXT_RETRIEVED", !.cause = f.cause,
            !.amount = f.amount, !.currency = f.currency]

Enrich(w) ==
  /\ pc[w] = "enrich"
  /\ row[cur[w]].state = "FAILED_INGESTED"
  /\ Read(w)
  /\ IF fetch[w]
       THEN \/ \E f \in GatewayFacts : Modify(w, Enriched(row[cur[w]], f))
            \/ Modify(w, [row[cur[w]] EXCEPT !.state = "ERROR_TERMINAL"])
       ELSE Modify(w, [row[cur[w]] EXCEPT !.state = "CONTEXT_RETRIEVED"])
  /\ Goto(w, "enriched")
  /\ UNCHANGED <<caseVars, now, failures, cur, fetch, sweep, delayed, quote>>

(* A failed enrichment commits, then raises DomainError out of the run. *)
EnrichCommit(w) ==
  /\ pc[w] = "enriched"
  /\ Commit(w)
  /\ IF draft[w].state = "ERROR_TERMINAL" THEN Finish(w) ELSE Proceed(w, "classify")

(* classify_case: writes failure_category whatever the state of the case. *)
Classify(w) ==
  /\ pc[w] = "classify"
  /\ Read(w)
  /\ Modify(w, [row[cur[w]] EXCEPT !.category = row[cur[w]].cause])
  /\ Goto(w, "classified")
  /\ UNCHANGED <<caseVars, now, failures, cur, fetch, sweep, delayed, quote>>

ClassifyCommit(w) ==
  /\ pc[w] = "classified"
  /\ Commit(w)
  /\ Proceed(w, "assess")

(***************************************************************************)
(* evaluate_eligibility: reads the row, then counts the customer's other   *)
(* cases of the last 24 hours that have a link, then commits the verdict.  *)
(* RecoveryStateMachine.transition raises when the state that was read     *)
(* cannot move to the verdict's state, and the run ends without a commit.  *)
(***************************************************************************)
Assess(w) ==
  /\ pc[w] = "assess"
  /\ Read(w)
  /\ Goto(w, "count")
  /\ UNCHANGED <<caseVars, now, failures, cur, fetch, sweep, delayed, draft, quote>>

HasCustomer(c) == CustomerOf[c] # None

Attempts(c) ==
  Cardinality({d \in Cases \ {c} : /\ CustomerOf[d] = CustomerOf[c]
                                   /\ CreatedAt[d] >= now - Day
                                   /\ row[d].link # 0})

ContextWithoutCategory(r, c) ==   \* wrong: the category is not passed on
  [amount |-> r.amount, currency |-> r.currency, category |-> "NULL",
   link |-> r.link # 0, stale |-> now - CreatedAt[c] > Staleness]

Context(r, c) ==
  [amount |-> r.amount, currency |-> r.currency, category |-> r.category,
   link |-> r.link # 0, stale |-> now - CreatedAt[c] > Staleness]

Verdict(w) ==
  LET status == Evaluate(Context(seen[w], cur[w]), HasCustomer(cur[w]), Attempts(cur[w]))
  IN  CASE status = "ELIGIBLE"            -> "ELIGIBILITY_CHECKED"
        [] status = "REQUIRES_ESCALATION" -> "ESCALATED"
        [] OTHER                          -> "TERMINAL_NO_ACTION"

Judge(w) ==
  /\ pc[w] = "count"
  /\ TransitionAllowed(seen[w].state, Verdict(w))
  /\ Modify(w, [seen[w] EXCEPT !.state = Verdict(w)])
  /\ Goto(w, "assessed")
  /\ UNCHANGED <<caseVars, now, failures, cur, fetch, sweep, delayed, seen, quote>>

JudgeRaises(w) ==
  /\ pc[w] = "count"
  /\ ~TransitionAllowed(seen[w].state, Verdict(w))
  /\ Finish(w)
  /\ UNCHANGED <<caseVars, now, failures>>

AssessCommit(w) ==
  /\ pc[w] = "assessed"
  /\ Commit(w)
  /\ IF draft[w].state = "ELIGIBILITY_CHECKED" THEN Proceed(w, "agent") ELSE Finish(w)

(***************************************************************************)
(* run_recovery_triage: the agent reads status and payment over MCP, gives *)
(* up on a terminal case, and asks the model for a proposal.  It remembers *)
(* the amount and the currency it read, to propose them.                   *)
(***************************************************************************)
AgentReads(w) ==
  /\ pc[w] = "agent"
  /\ ~IsTerminal(row[cur[w]].state)
  /\ quote' = [quote EXCEPT ![w] = [amount |-> row[cur[w]].amount,
                                    currency |-> row[cur[w]].currency]]
  /\ Goto(w, "propose")
  /\ UNCHANGED <<caseVars, now, failures, cur, fetch, sweep, delayed, seen, draft>>

AgentGivesUp(w) ==
  /\ pc[w] \in {"agent", "propose"}
  /\ IsTerminal(row[cur[w]].state)
  /\ Finish(w)
  /\ UNCHANGED <<caseVars, now, failures>>

(***************************************************************************)
(* request_recovery_action, the MCP tool.  It validates without a count of *)
(* the customer's attempts (the default, 0, is used), and assigns the      *)
(* state directly, not through RecoveryStateMachine.                       *)
(***************************************************************************)
Authorization(w, p) ==
  Validate(Context(row[cur[w]], cur[w]), p, quote[w].amount, quote[w].currency,
           HasCustomer(cur[w]), 0)

AuthorizedAsDecided(r, v) ==   \* wrong: stores the decision for the policy
  [r EXCEPT !.state = "ACTION_APPROVED", !.policy = v.decision]

Authorized(r, v) ==
  LET nextState ==
        CASE v.policy = "P_NO_ACTION"     -> "TERMINAL_NO_ACTION"
          [] v.policy = "P_ESCALATE_ONLY" -> "ESCALATED"
          [] OTHER -> IF r.state \in {"ELIGIBILITY_CHECKED", "CONTEXT_RETRIEVED"}
                        THEN "ACTION_APPROVED" ELSE r.state
  IN  [r EXCEPT !.state = nextState, !.policy = v.policy,
                !.scheduled = IF v.policy = "P_CREATE_LINK_DELAYED" THEN now + Delay
                              ELSE r.scheduled]

Propose(w, p) ==
  /\ pc[w] = "propose"
  /\ ~IsTerminal(row[cur[w]].state)
  /\ Read(w)
  /\ Modify(w, Authorized(row[cur[w]], Authorization(w, p)))
  /\ Goto(w, "proposed")
  /\ UNCHANGED <<caseVars, now, failures, cur, fetch, sweep, delayed, quote>>

(* Only an authorized immediate link is executed by the same run. *)
ProposeCommit(w) ==
  /\ pc[w] = "proposed"
  /\ Commit(w)
  /\ IF draft[w].policy = "P_CREATE_LINK_IMMEDIATE" THEN Proceed(w, "execute") ELSE Finish(w)

-----------------------------------------------------------------------------
(***************************************************************************)
(* process_due_delayed_cases: one query for the due cases, then the        *)
(* executor on each of them in turn.                                       *)
(***************************************************************************)
IsScheduled(r) == r.scheduled # 0   \* wrong: due or not

IsDue(r) == r.scheduled # 0 /\ r.scheduled <= now

DueCases ==
  {c \in Cases : /\ row[c].state = "ACTION_APPROVED"
                 /\ row[c].policy = "P_CREATE_LINK_DELAYED"
                 /\ row[c].link = 0
                 /\ IsDue(row[c])}

StartSweep(w) ==
  /\ pc[w] = "idle"
  /\ DueCases # {}
  /\ sweep' = [sweep EXCEPT ![w] = DueCases]
  /\ delayed' = [delayed EXCEPT ![w] = TRUE]
  /\ Goto(w, "sweeping")
  /\ UNCHANGED <<caseVars, now, failures, cur, fetch, seen, draft, quote>>

NextDue(w) ==
  /\ pc[w] = "sweeping"
  /\ \E c \in sweep[w] :
        /\ cur' = [cur EXCEPT ![w] = c]
        /\ sweep' = [sweep EXCEPT ![w] = @ \ {c}]
  /\ Goto(w, "execute")
  /\ UNCHANGED <<caseVars, now, failures, fetch, delayed, seen, draft, quote>>

(* execute() has returned or raised: a sweep goes on with its next case. *)
Leave(w) ==
  IF sweep[w] = {} THEN Finish(w) ELSE Proceed(w, "sweeping")

-----------------------------------------------------------------------------
(***************************************************************************)
(* RecoveryExecutor.execute.  The row is locked from the first SELECT to   *)
(* the end of the transaction; where nothing outside the database is       *)
(* called in between, lock, checks and commit are one step.                *)
(***************************************************************************)
ExecutableInAnyState(w, r) ==   \* wrong: no INVALID_STATE
  /\ r.link = 0
  /\ \/ r.policy = "P_CREATE_LINK_IMMEDIATE"
     \/ delayed[w] /\ r.policy = "P_CREATE_LINK_DELAYED"

ExecutableAtOnce(w, r) ==   \* wrong: a delayed policy is never executable
  /\ r.link = 0
  /\ r.state = "ACTION_APPROVED"
  /\ r.policy = "P_CREATE_LINK_IMMEDIATE"

Executable(w, r) ==
  /\ r.link = 0
  /\ r.state = "ACTION_APPROVED"
  /\ \/ r.policy = "P_CREATE_LINK_IMMEDIATE"
     \/ delayed[w] /\ r.policy = "P_CREATE_LINK_DELAYED"

(* The pre-write validation knows neither category, nor age, link or attempts. *)
PreWriteTrusts(r) == Ruling("APPROVE", r.policy)   \* wrong: no validation

PreWrite(r) ==
  Validate([amount |-> r.amount, currency |-> r.currency, category |-> "NULL",
            link |-> FALSE, stale |-> FALSE], r.policy, r.amount, r.currency, FALSE, 0)

MayRead(w) == pc[w] = "execute"   \* wrong: a plain SELECT, not FOR UPDATE

MayLock(w) == pc[w] = "execute" /\ lock[cur[w]] = None

(* ALREADY_EXECUTED, INVALID_STATE and NON_EXECUTABLE_POLICY *)
ExecuteNothing(w) ==
  /\ MayLock(w)
  /\ ~Executable(w, row[cur[w]])
  /\ Leave(w)
  /\ UNCHANGED <<caseVars, now, failures>>

(* PRE_WRITE_VALIDATION_REJECTED, and FAIL_CLOSED without credentials *)
ExecuteRefused(w) ==
  /\ MayLock(w)
  /\ Executable(w, row[cur[w]])
  /\ LET v == PreWrite(row[cur[w]])
     IN  /\ v.decision # "APPROVE" \/ MerchantOf[cur[w]] = "inactive"
         /\ row' = [row EXCEPT ![cur[w]].state =
                      IF v.decision \in {"APPROVE", "ESCALATE"} THEN "ESCALATED"
                      ELSE "TERMINAL_NO_ACTION"]
  /\ Leave(w)
  /\ UNCHANGED <<lock, gateway, audited, now, failures>>

ExecuteBegins(w) ==
  /\ MayLock(w)
  /\ Executable(w, row[cur[w]])
  /\ PreWrite(row[cur[w]]).decision = "APPROVE"
  /\ MerchantOf[cur[w]] # "inactive"
  /\ lock' = [lock EXCEPT ![cur[w]] = w]
  /\ Read(w)
  /\ Goto(w, "calling")
  /\ UNCHANGED <<row, gateway, audited, now, failures,
                 cur, fetch, sweep, delayed, draft, quote>>

KeepLock(w) == UNCHANGED lock   \* wrong: the transaction is left open

Unlock(w) == lock' = [lock EXCEPT ![cur[w]] = None]

(* The adapter raises ValueError: nothing is sent, and the transaction is  *)
(* rolled back by the exception.                                           *)
AdapterRaises(w) ==
  /\ pc[w] = "calling"
  /\ ~GatewayAccepts(seen[w].amount, seen[w].currency)
  /\ Unlock(w)
  /\ Leave(w)
  /\ UNCHANGED <<row, gateway, audited, now, failures>>

NewLinkInPaise(w) ==   \* wrong: converts an amount that is in paise already
  gateway' = [gateway EXCEPT ![cur[w]] =
                Append(@, [amount |-> 100 * seen[w].amount, currency |-> seen[w].currency])]

NewLink(w) ==
  gateway' = [gateway EXCEPT ![cur[w]] =
                Append(@, [amount |-> seen[w].amount, currency |-> seen[w].currency])]

(* Whether the gateway would create one more link with this reference_id. *)
GatewayWilling(c) ==
  /\ Len(gateway[c]) < MaxLinks
  /\ GatewayDedups => gateway[c] = <<>>

LinkCreated(w) ==
  /\ pc[w] = "calling"
  /\ GatewayAccepts(seen[w].amount, seen[w].currency)
  /\ GatewayWilling(cur[w])
  /\ NewLink(w)
  /\ Modify(w, [seen[w] EXCEPT !.link = Len(gateway[cur[w]]) + 1,
                               !.state = "ACTION_EXECUTED"])
  /\ Goto(w, "created")
  /\ UNCHANGED <<row, lock, audited, now, failures, cur, fetch, sweep, delayed, seen, quote>>

LeftForRetry(r) == r   \* wrong: the case stays approved

Halted(r) == [r EXCEPT !.state = "ERROR_TERMINAL"]

AuditNothing(w) == UNCHANGED audited   \* wrong: no audit event

AuditFailure(w) == audited' = [audited EXCEPT ![cur[w]] = @ + 1]

(***************************************************************************)
(* The call fails: rejected, rate limited, a malformed or 5xx answer, or a *)
(* timeout.  Whether or not the gateway made a link, the case goes to      *)
(* ERROR_TERMINAL and the failure is audited in the same commit.           *)
(***************************************************************************)
LinkCallFails(w) ==
  /\ pc[w] = "calling"
  /\ GatewayAccepts(seen[w].amount, seen[w].currency)
  /\ \/ UNCHANGED gateway
     \/ GatewayWilling(cur[w]) /\ NewLink(w)
  /\ row' = [row EXCEPT ![cur[w]] = Flush(seen[w], Halted(seen[w]), @)]
  /\ AuditFailure(w)
  /\ Unlock(w)
  /\ Leave(w)
  /\ UNCHANGED <<now, failures>>

LinkRecorded(w) ==
  /\ pc[w] = "created"
  /\ row' = [row EXCEPT ![cur[w]] = Flush(seen[w], draft[w], @)]
  /\ Unlock(w)
  /\ Leave(w)
  /\ UNCHANGED <<gateway, audited, now, failures>>

-----------------------------------------------------------------------------
(* A run dies between two of its steps (the process stops, the database    *)
(* connection is lost, an unexpected exception): its transaction is rolled *)
(* back, its lock released, and nothing resumes it.                        *)
Fail(w) ==
  /\ pc[w] # "idle"
  /\ failures < MaxFailures
  /\ failures' = failures + 1
  /\ lock' = [c \in Cases |-> IF lock[c] = w THEN None ELSE lock[c]]
  /\ Finish(w)
  /\ UNCHANGED <<row, gateway, audited, now>>

Tick ==
  /\ now < MaxTime
  /\ now' = now + 1
  /\ UNCHANGED <<caseVars, failures, runVars>>

-----------------------------------------------------------------------------
Triage(w) ==
  \/ SkipEnrichment(w) \/ Enrich(w) \/ EnrichCommit(w)
  \/ Classify(w) \/ ClassifyCommit(w)
  \/ Assess(w) \/ Judge(w) \/ JudgeRaises(w) \/ AssessCommit(w)

Agent(w) ==
  \/ AgentReads(w) \/ AgentGivesUp(w)
  \/ (\E p \in Proposals : Propose(w, p)) \/ ProposeCommit(w)

Execute(w) ==
  \/ ExecuteNothing(w) \/ ExecuteRefused(w) \/ ExecuteBegins(w)
  \/ AdapterRaises(w) \/ LinkCreated(w) \/ LinkCallFails(w) \/ LinkRecorded(w)

Step(w) == Triage(w) \/ Agent(w) \/ Execute(w) \/ NextDue(w)

Trigger(w) ==
  \/ \E c \in Cases : WebhookTriggers(w, c) \/ OperatorTriggers(w, c)
  \/ StartSweep(w)

Next ==
  \/ \E w \in Workers : Trigger(w) \/ Step(w) \/ Fail(w)
  \/ Tick

Spec == Init /\ [][Next]_vars

-----------------------------------------------------------------------------
(* Types of all variables. *)
TypeOK ==
  /\ row \in [Cases -> Row]
  /\ lock \in [Cases -> Workers \cup {None}]
  /\ gateway \in [Cases -> Seq(Money)]
  /\ audited \in [Cases -> Nat]
  /\ now \in Nat
  /\ failures \in Nat
  /\ pc \in [Workers -> PC]
  /\ cur \in [Workers -> Cases \cup {None}]
  /\ fetch \in [Workers -> BOOLEAN]
  /\ sweep \in [Workers -> SUBSET Cases]
  /\ delayed \in [Workers -> BOOLEAN]
  /\ seen \in [Workers -> Row]
  /\ draft \in [Workers -> Row]
  /\ quote \in [Workers -> Money]

(***************************************************************************)
(* Whoever is inside the executor's critical section owns the row: the     *)
(* committed row is still exactly the one it read and validated, approved  *)
(* and without a link, however many other runs hold unlocked drafts of it. *)
(* (recovery_executor.py, "Pessimistic Row Lock")                          *)
(***************************************************************************)
InExecutor(w) == pc[w] \in {"calling", "created"}

LockedRowIsStable ==
  \A w \in Workers : InExecutor(w) =>
    /\ lock[cur[w]] = w
    /\ row[cur[w]] = seen[w]
    /\ seen[w].link = 0
    /\ seen[w].state = "ACTION_APPROVED"

(* A link on record is never replaced or erased, not even by a stale draft *)
(* of another run (recovery_executor.py, "Idempotency Check").             *)
LinkIsForever ==
  [][\A c \in Cases : row[c].link # 0 => row'[c].link = row[c].link]_row

(* A link is created at the gateway only for a case that is approved for   *)
(* one and has none on record at that very moment.                         *)
LinkNeedsApproval ==
  [][\A c \in Cases : gateway'[c] # gateway[c] =>
        /\ row[c].state = "ACTION_APPROVED"
        /\ row[c].policy \in LinkPolicies
        /\ row[c].link = 0]_gateway

(* No link at the gateway goes unnoticed: each one is on record, about to  *)
(* be recorded, covered by an audited failed call, or was lost with a run  *)
(* that died.                                                              *)
LinksAccounted ==
  \A c \in Cases :
    Len(gateway[c]) <= (IF row[c].link = 0 THEN 0 ELSE 1)
                       + Cardinality({w \in Workers : pc[w] = "created" /\ cur[w] = c})
                       + audited[c] + failures

(* Whatever overlapping runs do to a row, the money asked for at the       *)
(* gateway is positive, in INR and at most the automation ceiling.         *)
LinksWithinGuardrails ==
  \A c \in Cases : \A i \in 1 .. Len(gateway[c]) :
    /\ gateway[c][i].amount \in 1 .. HighValue
    /\ gateway[c][i].currency = "INR"

(* Every run ends: nobody waits for a row lock for ever, although sweeps   *)
(* come again and again and lock the same row over a gateway call.         *)
RunsEnd == \A w \in Workers : (pc[w] # "idle") ~> (pc[w] = "idle")

-----------------------------------------------------------------------------
(***************************************************************************)
(* Properties of runs that do not overlap (one worker).  They rest on that *)
(* serialization: nothing in the code enforces it.                         *)
(***************************************************************************)

(* A case never moves backwards and never leaves a terminal state          *)
(* (docs/ARCHITECTURE.md:191-192), through failures and repeated triggers. *)
ForwardOnly ==
  [][\A c \in Cases :
       /\ Stage(row[c].state) <= Stage(row'[c].state)
       /\ IsTerminal(row[c].state) => row'[c].state = row[c].state]_row

(* The customer is asked for exactly the amount and currency that are on   *)
(* record for the failed payment (README.md:329), also when the gateway    *)
(* corrected the webhook's amount on the way.                              *)
LinkMatchesCase ==
  \A c \in Cases : row[c].link # 0 =>
    gateway[c][row[c].link] = [amount |-> row[c].amount, currency |-> row[c].currency]

(* No link exists for a case classified C4 or C5, although the executor's  *)
(* own validation does not know the category.                              *)
NoLinkForRisk ==
  \A c \in Cases : gateway[c] # <<>> => row[c].category \notin {"C4", "C5"}

(* A case gets a further link at the gateway only through a run that died  *)
(* holding the unrecorded one: failed and unknown calls, repeated triggers *)
(* and sweeps never lead to a second link.                                 *)
OneLinkPerRunLost == \A c \in Cases : Len(gateway[c]) <= 1 + failures

(* Runs that do not overlap implement what RecoveryCase promises, through  *)
(* lost runs, failed calls, repeated triggers and sweeps.  No payment is   *)
(* ever attributed here.                                                   *)
Promise == INSTANCE RecoveryCase WITH
  Payments <- {},
  phase <- [c \in Cases |-> PhaseOf(row[c].state)],
  links <- {c \in Cases : gateway[c] # <<>>},
  paid <- [c \in Cases |-> None]

KeepsPromise == Promise!Spec

(* A delayed link is not created before its time.                          *)
DelayIsHonoured ==
  [][\A c \in Cases :
       /\ gateway'[c] # gateway[c]
       /\ row[c].policy = "P_CREATE_LINK_DELAYED"
       => row[c].scheduled <= now]_gateway

(* An immediate link is created only for a customer with fewer than        *)
(* MaxAttempts other cases of the last 24 hours that have one, although    *)
(* they are counted long before ("Customer Cooldown Constraint",           *)
(* eligibility.py:129).                                                    *)
ImmediateLinkWithinLimit ==
  [][\A c \in Cases :
       /\ gateway'[c] # gateway[c]
       /\ row[c].policy = "P_CREATE_LINK_IMMEDIATE"
       /\ HasCustomer(c)
       => Attempts(c) < MaxAttempts]_gateway

(***************************************************************************)
(* With the delayed endpoint polled for ever, no due link that the adapter *)
(* would send stays due, even if the run that scheduled it, or one that    *)
(* was executing it, died ("restart-safely", recovery_orchestrator.py:197).*)
(* A due link that it refuses does stay due: for a currency such as "inr", *)
(* which the engines normalize and approve, the adapter raises             *)
(* (razorpay_adapter.py:161), the rollback leaves the case approved, and   *)
(* the sweep logs the exception and takes the same case up again.          *)
(***************************************************************************)
DueAndSendable(c) ==
  /\ c \in DueCases
  /\ GatewayAccepts(row[c].amount, row[c].currency)

DelayedLinksRun == \A c \in Cases : DueAndSendable(c) ~> ~DueAndSendable(c)

(***************************************************************************)
(* The event loop resumes every task whose await has completed, and the    *)
(* database queues those that wait for a row lock: strong fairness of a    *)
(* run's steps, for weak fairness would let an endless chain of sweeps     *)
(* pass a waiting run by.  Nothing in the code polls: strong fairness of   *)
(* StartSweep is an assumption on its operator.                            *)
(***************************************************************************)
PolledSpec ==
  /\ Spec
  /\ WF_vars(Tick)
  /\ \A w \in Workers : SF_vars(Step(w)) /\ SF_vars(StartSweep(w))

-----------------------------------------------------------------------------
(***************************************************************************)
(* What the repository says of the pipeline and the code does not keep.    *)
(***************************************************************************)

(* "Terminal states: no further transitions allowed" (state_machine.py:69).*)
TerminalIsFinal ==
  [][\A c \in Cases : IsTerminal(row[c].state) => row'[c].state = row[c].state]_row
=============================================================================
