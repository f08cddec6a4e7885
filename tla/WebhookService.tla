--------------------------- MODULE WebhookService ---------------------------
(***************************************************************************)
(* Webhooks of the payment gateway: the ingestion of failed payments and   *)
(* the attribution of recovered ones (services/webhook_service.py and      *)
(* api/webhooks.py).                                                       *)
(*                                                                         *)
(* The gateway delivers an event until it is acknowledged, possibly to two *)
(* requests at once.  A handler is one such request.  It looks for the     *)
(* event, works in one transaction and inserts the event with the commit:  *)
(* of two deliveries only the commit, by its primary key, tells which one  *)
(* counts.  The payment of a case is attributed under the row lock of the  *)
(* case, which is kept while the gateway is asked about the payment.       *)
(* What the recovery pipeline does to a case in the meantime is reduced    *)
(* here to its decision and to the executor's locked link creation.        *)
(***************************************************************************)
EXTENDS Integers, FiniteSets, StateMachine

CONSTANTS
  Cases,            \* recovery cases, one per failed payment
  Payments,         \* payments by which a case may be recovered
  Events,           \* event ids
  Handlers,         \* concurrent webhook requests
  Merchants,        \* merchant ids
  None,             \* no case, no merchant, no handler, no payment
  Executor,         \* holds the row lock while it calls the gateway
  Payload,          \* what an event says
  AmountOf,         \* amount and currency of a failed payment, as one number
  PaidAmount,       \* amount and currency of a payment, as one number
  PaidThrough,      \* the case whose link a payment was made with, or None
  Registered,       \* merchants the registry knows
  CheckoutMerchant, \* merchant that checked out the order of a case, or None
  MaxCrashes, MaxOutages   \* bounds: restarts, failed verification calls

FailedEvents == [kind : {"failed"}, case : Cases, merchant : Merchants \cup {None}]

OtherEvents == [kind : {"other"}]

(* link is the case whose link the event names, noted the case its notes   *)
(* name; at is the payment status from which on the gateway sends it.      *)
PaidEvents ==
  [kind : {"paid"}, payment : Payments, link : Cases \cup {None},
   noted : Cases \cup {None}, merchant : Merchants \cup {None},
   at : {"authorized", "captured"}]

ASSUME WebhookAssumption ==
  /\ None \notin Cases \cup Payments \cup Handlers \cup Merchants \cup CaseState
  /\ Executor \notin Handlers \cup {None}
  /\ Payload \in [Events -> FailedEvents \cup PaidEvents \cup OtherEvents]
  /\ AmountOf \in [Cases -> Nat] /\ PaidAmount \in [Payments -> Nat]
  /\ PaidThrough \in [Payments -> Cases \cup {None}]
  /\ Registered \subseteq Merchants
  /\ CheckoutMerchant \in [Cases -> Merchants \cup {None}]
  /\ MaxCrashes \in Nat /\ MaxOutages \in Nat

VARIABLES
  events,     \* webhook_events: ids on record
  row,        \* recovery_cases: state, amount and link of each case
  owner,      \* merchant_id in the failure context of a case
  ingested,   \* cases that exist
  recovered,  \* recovered_payment_id of a case
  lock,       \* who holds the row lock of a case
  contexts,   \* checkout contexts in memory
  pending,    \* background tasks not yet run, per case
  links,      \* cases with a link at the gateway
  status,     \* status of each payment at the gateway
  crashes, outages,   \* restarts and failed verification calls so far
  pc,         \* what a handler does next
  evt,        \* the event it handles
  target,     \* the case it has locked
  known,      \* the case of the failed payment existed when it looked
  merchant,   \* the merchant it found for the failed payment
  verdict     \* the state it is about to write, None for no change

tables == <<events, row, owner, ingested, recovered, lock>>
gateway == <<links, status>>
memory == <<contexts, pending>>
request == <<pc, evt, target, known, merchant, verdict>>
bounds == <<crashes, outages>>
vars == <<tables, gateway, memory, request, bounds>>

Row == [state : CaseState, amount : Nat, link : Nat]

NewRow(c) == [state |-> "FAILED_INGESTED", amount |-> AmountOf[c], link |-> 0]

Statuses == {"created", "authorized", "captured"}

Init ==
  /\ events = {}
  /\ row = [c \in Cases |-> NewRow(c)]
  /\ owner = [c \in Cases |-> None]
  /\ ingested = {}
  /\ recovered = [c \in Cases |-> None]
  /\ lock = [c \in Cases |-> None]
  /\ contexts = {}
  /\ pending = [c \in Cases |-> 0]
  /\ links = {}
  /\ status = [p \in Payments |-> "created"]
  /\ crashes = 0
  /\ outages = 0
  /\ pc = [h \in Handlers |-> "idle"]
  /\ evt = [h \in Handlers |-> None]
  /\ target = [h \in Handlers |-> None]
  /\ known = [h \in Handlers |-> FALSE]
  /\ merchant = [h \in Handlers |-> None]
  /\ verdict = [h \in Handlers |-> None]

Goto(h, next) == pc' = [pc EXCEPT ![h] = next]

(* The request is answered and its transaction over. *)
Answered(h) ==
  /\ Goto(h, "idle")
  /\ evt' = [evt EXCEPT ![h] = None]
  /\ target' = [target EXCEPT ![h] = None]
  /\ known' = [known EXCEPT ![h] = FALSE]
  /\ merchant' = [merchant EXCEPT ![h] = None]
  /\ verdict' = [verdict EXCEPT ![h] = None]

KeepLock(h) == UNCHANGED lock   \* wrong: the transaction is left open

Unlock(h) == lock' = [c \in Cases |-> IF lock[c] = h THEN None ELSE lock[c]]

(* rollback(): nothing is kept, not even the event. *)
Rollback(h) ==
  /\ Unlock(h)
  /\ Answered(h)
  /\ UNCHANGED <<events, row, owner, ingested, recovered, gateway, memory, bounds>>

-----------------------------------------------------------------------------
(***************************************************************************)
(* process_webhook.  An event on record is answered as a duplicate, which  *)
(* changes nothing.                                                        *)
(***************************************************************************)
Sent(e) ==
  \/ Payload[e].kind # "paid"
  \/ /\ Payload[e].kind = "paid"
     /\ \/ status[Payload[e].payment] = "captured"
        \/ status[Payload[e].payment] = Payload[e].at

Receive(h, e) ==
  /\ pc[h] = "idle"
  /\ Sent(e)
  /\ e \notin events
  /\ evt' = [evt EXCEPT ![h] = e]
  /\ Goto(h, "received")
  /\ UNCHANGED <<tables, gateway, memory, bounds, target, known, merchant, verdict>>

ConflictIgnored(h) == FALSE   \* wrong: the event id is not unique

Conflict(h) == evt[h] \in events

(* An event of another type is only put on record. *)
Ignore(h) ==
  /\ pc[h] = "received"
  /\ Payload[evt[h]].kind = "other"
  /\ Goto(h, "commit")
  /\ UNCHANGED <<tables, gateway, memory, bounds, evt, target, known, merchant, verdict>>

-----------------------------------------------------------------------------
(***************************************************************************)
(* _handle_payment_failed.  The merchant of the case is the one of the     *)
(* checkout context, if it is still in memory, before the one of the notes.*)
(***************************************************************************)
TrustedMerchant(h) ==
  LET c == Payload[evt[h]].case
  IN  IF c \in contexts THEN CheckoutMerchant[c] ELSE Payload[evt[h]].merchant

Ingest(h) ==
  /\ pc[h] = "received"
  /\ Payload[evt[h]].kind = "failed"
  /\ known' = [known EXCEPT ![h] = Payload[evt[h]].case \in ingested]
  /\ merchant' = [merchant EXCEPT ![h] = TrustedMerchant(h)]
  /\ Goto(h, "ingest")
  /\ UNCHANGED <<tables, gateway, memory, bounds, evt, target, verdict>>

SecondCaseIgnored(h) == FALSE   \* wrong: failed_payment_id is not unique

SecondCase(h) == ~known[h] /\ Payload[evt[h]].case \in ingested

(* Only the commit shows that the event or the case exists by now. *)
IngestConflict(h) ==
  /\ pc[h] = "ingest"
  /\ Conflict(h) \/ SecondCase(h)
  /\ Rollback(h)

(* The endpoint then starts the pipeline, for a known case as for a new one. *)
IngestCommit(h) ==
  LET c == Payload[evt[h]].case
  IN  /\ pc[h] = "ingest"
      /\ ~Conflict(h) /\ ~SecondCase(h)
      /\ events' = events \cup {evt[h]}
      /\ ingested' = ingested \cup {c}
      /\ IF known[h]
           THEN UNCHANGED <<row, owner>>
           ELSE /\ row' = [row EXCEPT ![c] = NewRow(c)]
                /\ owner' = [owner EXCEPT ![c] = merchant[h]]
      /\ pending' = [pending EXCEPT ![c] = @ + 1]
      /\ Answered(h)
      /\ UNCHANGED <<recovered, lock, contexts, gateway, bounds>>

-----------------------------------------------------------------------------
(***************************************************************************)
(* _handle_payment_outcome.                                                *)
(***************************************************************************)
Paid(h) == Payload[evt[h]]

Matching(h) ==
  {c \in ingested : c = Paid(h).noted \/ (c = Paid(h).link /\ row[c].link # 0)}

UnlockedRead(c) == TRUE   \* wrong: SELECT without FOR UPDATE

Lockable(c) == lock[c] = None

(* scalar_one_or_none() raises when the link and the notes name two cases. *)
CorrelateTwo(h) ==
  /\ pc[h] = "received"
  /\ Paid(h).kind = "paid"
  /\ Cardinality(Matching(h)) > 1
  /\ \A c \in Matching(h) : Lockable(c)
  /\ Rollback(h)

CorrelateNone(h) ==
  /\ pc[h] = "received"
  /\ Paid(h).kind = "paid"
  /\ Matching(h) = {}
  /\ Goto(h, "commit")
  /\ UNCHANGED <<tables, gateway, memory, bounds, evt, target, known, merchant, verdict>>

AttributableUnlessRecovered(h, c) ==   \* wrong: the state machine is not asked
  row[c].state # "RECOVERED"

(* Neither attributed already nor in a state that cannot become RECOVERED. *)
Attributable(h, c) ==
  /\ row[c].state # "RECOVERED"
  /\ recovered[c] # Paid(h).payment
  /\ CanTransition(row[c].state, "RECOVERED")

Correlate(h, c) ==
  /\ pc[h] = "received"
  /\ Paid(h).kind = "paid"
  /\ Matching(h) = {c}
  /\ Lockable(c)
  /\ lock' = [lock EXCEPT ![c] = h]
  /\ target' = [target EXCEPT ![h] = c]
  /\ Goto(h, IF Attributable(h, c) THEN "verify" ELSE "commit")
  /\ UNCHANGED <<events, row, owner, ingested, recovered, gateway, memory, bounds,
                 evt, known, merchant, verdict>>

Conclude(h, s) ==
  /\ verdict' = [verdict EXCEPT ![h] = s]
  /\ Goto(h, "commit")
  /\ UNCHANGED <<evt, target, known, merchant>>

WrongAmountTolerated(h) == FALSE   \* wrong: no comparison with the case

WrongAmount(h) == PaidAmount[Paid(h).payment] # row[target[h]].amount

UnknownMerchant(h) ==   \* wrong: not compared with the merchant of the case
  Paid(h).merchant \notin Registered \cup {None}

WrongMerchant(h) ==
  LET m == Paid(h).merchant
  IN  m # None /\ (owner[target[h]] \notin {None, m} \/ m \notin Registered)

Captured(h) == status[Paid(h).payment] = "captured"

(* GET /payments/{id}, and the checks on its answer. *)
Verify(h) ==
  /\ pc[h] = "verify"
  /\ CASE ~Captured(h)                        -> Conclude(h, None)
       [] WrongAmount(h) \/ WrongMerchant(h)  -> Conclude(h, "ESCALATED")
       [] OTHER -> /\ Goto(h, "attribute")
                   /\ UNCHANGED <<evt, target, known, merchant, verdict>>
  /\ UNCHANGED <<tables, gateway, memory, bounds>>

VerifyFails(h) ==
  /\ pc[h] = "verify"
  /\ outages < MaxOutages
  /\ outages' = outages + 1
  /\ Conclude(h, "VERIFICATION")
  /\ UNCHANGED <<tables, gateway, memory, crashes>>

NoOthers(h) == {}   \* wrong: a payment may recover any number of cases

(* The cases this payment is attributed to already are read, not locked;   *)
(* scalar_one_or_none() raises when there are two.                         *)
OthersRecovered(h) ==
  {d \in Cases \ {target[h]} : recovered[d] = Paid(h).payment}

Attribute(h) ==
  /\ pc[h] = "attribute"
  /\ IF Cardinality(OthersRecovered(h)) > 1
       THEN Rollback(h)
       ELSE /\ Conclude(h, IF OthersRecovered(h) = {} THEN "RECOVERED" ELSE None)
            /\ UNCHANGED <<tables, gateway, memory, bounds>>

OutcomeConflict(h) ==
  /\ pc[h] = "commit"
  /\ Conflict(h)
  /\ Rollback(h)

OutcomeCommit(h) ==
  /\ pc[h] = "commit"
  /\ ~Conflict(h)
  /\ events' = events \cup {evt[h]}
  /\ row' = IF verdict[h] = None THEN row
            ELSE [row EXCEPT ![target[h]].state = verdict[h]]
  /\ recovered' = IF verdict[h] # "RECOVERED" THEN recovered
                  ELSE [recovered EXCEPT ![target[h]] = Paid(h).payment]
  /\ Unlock(h)
  /\ Answered(h)
  /\ UNCHANGED <<owner, ingested, gateway, memory, bounds>>

-----------------------------------------------------------------------------
(***************************************************************************)
(* The rest of the system.                                                 *)
(***************************************************************************)
StoreContext(c) ==
  /\ CheckoutMerchant[c] # None
  /\ contexts' = contexts \cup {c}
  /\ UNCHANGED <<tables, gateway, pending, request, bounds>>

(* The pipeline decides a case: a link, or no automatic recovery. *)
Decide(c) ==
  /\ lock[c] = None
  /\ \E s \in {"ACTION_APPROVED", "ESCALATED", "TERMINAL_NO_ACTION"} :
       row' = [row EXCEPT ![c].state = IF @ = "FAILED_INGESTED" THEN s ELSE @]
  /\ UNCHANGED <<events, owner, ingested, recovered, lock, gateway, contexts,
                 request, bounds>>

AnyTime(c) == TRUE   \* wrong: a run that nothing has started

Due(c) == pending[c] > 0

(* _trigger_recovery_orchestration does nothing without a merchant. *)
BackgroundTask(c) ==
  /\ Due(c)
  /\ pending' = [pending EXCEPT ![c] = @ - 1]
  /\ IF owner[c] # None THEN Decide(c)
     ELSE UNCHANGED <<tables, gateway, contexts, request, bounds>>

OperatorTriage(c) ==
  /\ c \in ingested
  /\ row[c].state = "FAILED_INGESTED"
  /\ Decide(c)
  /\ UNCHANGED pending

(* The executor makes the link under the row lock and then records it, or  *)
(* records that it does not know whether there is one.                     *)
MakeLink(c) ==
  /\ row[c].state = "ACTION_APPROVED"
  /\ lock[c] = None
  /\ lock' = [lock EXCEPT ![c] = Executor]
  /\ links' = links \cup {c}
  /\ UNCHANGED <<events, row, owner, ingested, recovered, status, memory, request, bounds>>

RecordLink(c) ==
  /\ lock[c] = Executor
  /\ \/ row' = [row EXCEPT ![c].state = "ACTION_EXECUTED", ![c].link = 1]
     \/ row' = [row EXCEPT ![c].state = "ERROR_TERMINAL"]
  /\ lock' = [lock EXCEPT ![c] = None]
  /\ UNCHANGED <<events, owner, ingested, recovered, gateway, memory, request, bounds>>

(* A customer pays, by the link of a case or otherwise. *)
Pay(p) ==
  /\ PaidThrough[p] # None => PaidThrough[p] \in links
  /\ \/ status[p] = "created" /\ status' = [status EXCEPT ![p] = "authorized"]
     \/ status[p] # "captured" /\ status' = [status EXCEPT ![p] = "captured"]
  /\ UNCHANGED <<tables, links, memory, request, bounds>>

(* The process stops: transactions are rolled back, memory is lost. *)
Crash ==
  /\ crashes < MaxCrashes
  /\ crashes' = crashes + 1
  /\ contexts' = {}
  /\ pending' = [c \in Cases |-> 0]
  /\ lock' = [c \in Cases |-> None]
  /\ pc' = [h \in Handlers |-> "idle"]
  /\ evt' = [h \in Handlers |-> None]
  /\ target' = [h \in Handlers |-> None]
  /\ known' = [h \in Handlers |-> FALSE]
  /\ merchant' = [h \in Handlers |-> None]
  /\ verdict' = [h \in Handlers |-> None]
  /\ UNCHANGED <<events, row, owner, ingested, recovered, gateway, outages>>

-----------------------------------------------------------------------------
Failed(h) == Ingest(h) \/ IngestConflict(h) \/ IngestCommit(h)

Outcome(h) ==
  \/ CorrelateTwo(h) \/ CorrelateNone(h) \/ (\E c \in Cases : Correlate(h, c))
  \/ Verify(h) \/ VerifyFails(h) \/ Attribute(h)
  \/ OutcomeConflict(h) \/ OutcomeCommit(h)

Handle(h) == Ignore(h) \/ Failed(h) \/ Outcome(h)

System(c) ==
  \/ StoreContext(c) \/ BackgroundTask(c) \/ OperatorTriage(c)
  \/ MakeLink(c) \/ RecordLink(c)

Next ==
  \/ \E h \in Handlers : Handle(h) \/ \E e \in Events : Receive(h, e)
  \/ \E c \in Cases : System(c)
  \/ \E p \in Payments : Pay(p)
  \/ Crash

Spec == Init /\ [][Next]_vars

(***************************************************************************)
(* The gateway repeats an event until it is acknowledged, and requests and *)
(* background tasks that have started are resumed by the event loop.       *)
(***************************************************************************)
FairSpec ==
  /\ Spec
  /\ \A h \in Handlers : WF_vars(Handle(h))
  /\ \A e \in Events : SF_vars(\E h \in Handlers : Receive(h, e))
  /\ \A c \in Cases : WF_vars(BackgroundTask(c)) /\ WF_vars(RecordLink(c))

-----------------------------------------------------------------------------
(* Types of all variables. *)
TypeOK ==
  /\ events \subseteq Events
  /\ row \in [Cases -> Row]
  /\ owner \in [Cases -> Merchants \cup {None}]
  /\ ingested \subseteq Cases
  /\ recovered \in [Cases -> Payments \cup {None}]
  /\ lock \in [Cases -> Handlers \cup {Executor, None}]
  /\ contexts \subseteq Cases
  /\ pending \in [Cases -> Nat]
  /\ links \subseteq Cases
  /\ status \in [Payments -> Statuses]
  /\ crashes \in Nat /\ outages \in Nat
  /\ pc \in [Handlers -> {"idle", "received", "ingest", "verify", "attribute", "commit"}]
  /\ evt \in [Handlers -> Events \cup {None}]
  /\ target \in [Handlers -> Cases \cup {None}]
  /\ known \in [Handlers -> BOOLEAN]
  /\ merchant \in [Handlers -> Merchants \cup {None}]
  /\ verdict \in [Handlers -> {"VERIFICATION", "ESCALATED", "RECOVERED", None}]

(* An event has its effect once ("idempotency", webhook_service.py:92):     *)
(* whatever ingests a case, attributes a payment or starts the pipeline    *)
(* puts an event on record that was not there before, under concurrent     *)
(* deliveries, redeliveries and restarts.                                  *)
EffectOncePerEvent ==
  [][\/ recovered' # recovered \/ ingested' # ingested
     \/ \E c \in Cases : pending'[c] > pending[c]
     => \E e \in Events \ events : events' = events \cup {e}]_vars

(***************************************************************************)
(* A recovered payment is never replaced and its case stays RECOVERED,     *)
(* also when two payments of a case are handled at once                    *)
(* ("Single Attribution Invariant", webhook_service.py:372).  That the     *)
(* state stays holds of the handlers; of the pipeline it holds here only   *)
(* because Decide is a check-and-set: RecoveryPipeline, which knows no     *)
(* payments, has the stale commits that could overwrite it (TerminalLeft). *)
(***************************************************************************)
AttributionIsFinal ==
  [][\A c \in Cases : recovered[c] # None =>
        /\ recovered'[c] = recovered[c]
        /\ row'[c].state = "RECOVERED"]_<<recovered, row>>

(* "Captured-Only Attribution" (README.md:334): a case is RECOVERED exactly*)
(* if a payment is attributed to it, which is captured, of the very amount *)
(* of the case, and paid for a link that is on record.                     *)
RecoveredIsPaid ==
  \A c \in Cases :
    /\ row[c].state = "RECOVERED" <=> recovered[c] # None
    /\ recovered[c] # None =>
         /\ status[recovered[c]] = "captured"
         /\ PaidAmount[recovered[c]] = row[c].amount
         /\ row[c].link # 0

(* Behind every attribution an event is on record that names payment and   *)
(* case and no merchant but that of the case ("Merchant Context Integrity",*)
(* webhook_service.py:566).                                                *)
AttributionHasEvent ==
  \A c \in Cases : recovered[c] # None =>
    \E e \in events :
      /\ Payload[e].kind = "paid"
      /\ Payload[e].payment = recovered[c]
      /\ c \in {Payload[e].link, Payload[e].noted}
      /\ owner[c] # None => Payload[e].merchant \in {None, owner[c]}

(***************************************************************************)
(* The handling of a webhook itself takes no case out of a terminal state: *)
(* a payment that arrives, or is verified, too late changes nothing        *)
(* ("no further transitions allowed", state_machine.py:69).  The steps of  *)
(* handlers are those that change a pc; the pipeline that a webhook starts *)
(* may do just that (RecoveryPipeline!TerminalIsFinal, run TerminalLeft).  *)
(***************************************************************************)
LatePaymentChangesNothing ==
  [][pc' # pc =>
       \A c \in Cases : IsTerminal(row[c].state) => row'[c].state = row[c].state]_vars

(* A case is ingested once: concurrent events for one failed payment never *)
(* reset it or change its merchant.                                        *)
IngestedOnce ==
  [][\A c \in ingested :
        /\ owner'[c] = owner[c]
        /\ row'[c].state = "FAILED_INGESTED" => row[c].state = "FAILED_INGESTED"
      ]_<<row, owner>>

CaptureEvents ==
  {e \in Events : Payload[e].kind = "paid" /\ Payload[e].at = "captured"}

(***************************************************************************)
(* A captured payment settles its case once the link is on record: for an  *)
(* event that the gateway still repeats then, neither restarts nor other   *)
(* deliveries keep the payment from being attributed or escalated.  A      *)
(* verification call that fails does (VerificationIsRetried).              *)
(***************************************************************************)
PaidIsSettled ==
  \A e \in CaptureEvents :
    LET c == Payload[e].noted
        p == Payload[e].payment
    IN  (c \in ingested /\ row[c].state = "ACTION_EXECUTED"
          /\ status[p] = "captured" /\ e \notin events)
        ~> (row[c].state \in {"RECOVERED", "ESCALATED"})

(***************************************************************************)
(* However webhooks are delivered, repeated and cut off by restarts, the   *)
(* service implements what RecoveryCase promises of each case.             *)
(***************************************************************************)
Promise == INSTANCE RecoveryCase WITH
  phase <- [c \in Cases |-> IF c \in ingested THEN PhaseOf(row[c].state) ELSE "absent"],
  paid <- recovered

KeepsPromise == Promise!Spec

-----------------------------------------------------------------------------
(* "One payment cannot recover two cases" (webhook_service.py:642).  It    *)
(* holds as long as webhooks are handled one at a time.                    *)
PaymentRecoversOneCase ==
  \A c, d \in Cases : c # d /\ recovered[c] # None => recovered[d] # recovered[c]

-----------------------------------------------------------------------------
(***************************************************************************)
(* What the repository says of webhooks and the code does not keep.        *)
(***************************************************************************)

(* "requires_retry" (webhook_service.py:474): a verification that failed is*)
(* tried again.                                                            *)
VerificationIsRetried ==
  \A c \in Cases :
    (row[c].state = "VERIFICATION") ~> (row[c].state # "VERIFICATION")
=============================================================================
