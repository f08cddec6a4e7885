------------------------- MODULE InteractiveService -------------------------
(***************************************************************************)
(* The interactive demonstration (services/interactive_service.py): one    *)
(* case under a fixed id that is launched, verified and reset over HTTP.   *)
(*                                                                         *)
(* A launch deletes the case of the one before it, so the row of the case  *)
(* can be another launch's at every step of a request: it is told apart    *)
(* here by run, the number of the launch that inserted it.  The pipeline,  *)
(* started by a launch or by POST /cases/{case_id}/triage with the fixed   *)
(* id, is reduced to one unlocked read and commit and to the executor, the *)
(* attribution of a payment to its locked part; both are modelled in full  *)
(* in RecoveryPipeline and WebhookService.                                 *)
(***************************************************************************)
EXTENDS Integers, Sequences, FiniteSets, StateMachine

CONSTANTS
  Requests,      \* concurrent HTTP requests
  None,          \* no request
  Amounts,       \* amounts that the first, the second, ... launch may ask for
  HighValue,     \* above it a case is escalated
  MaxLaunches, MaxTriages, MaxResets, MaxOutages   \* bounds

ASSUME InteractiveAssumption ==
  /\ None \notin Requests
  /\ Amounts \in [1 .. MaxLaunches -> SUBSET Int]
  /\ HighValue \in Nat
  /\ MaxLaunches \in Nat /\ MaxTriages \in Nat /\ MaxResets \in Nat /\ MaxOutages \in Nat

VARIABLES
  row,       \* the case: launch (0: no row), state, delayed or not, amount, link, payment
  lock,      \* the request that holds its row lock
  links,     \* links at the gateway, in order: amount, launch, paid or not
  events,    \* webhook_events: who announced the payment of which link
  launches, triages, resets, outages,   \* launches, triage requests, resets, failed calls
  pc,        \* what a request does next
  seen,      \* the row as it read it, while it still uses it
  event,     \* the event it processes
  verdict    \* the state it is about to write

table == <<row, lock, events>>
counts == <<launches, triages, resets, outages>>
request == <<pc, seen, event, verdict>>
vars == <<table, links, counts, request>>

NoRow == [run |-> 0, state |-> "FAILED_INGESTED", delayed |-> FALSE,
          amount |-> 0, link |-> 0, paid |-> 0]
NoEvent == [from |-> "none", link |-> 0]

Init ==
  /\ row = NoRow
  /\ lock = None
  /\ links = <<>>
  /\ events = {}
  /\ launches = 0 /\ triages = 0 /\ resets = 0 /\ outages = 0
  /\ pc = [r \in Requests |-> "idle"]
  /\ seen = [r \in Requests |-> NoRow]
  /\ event = [r \in Requests |-> NoEvent]
  /\ verdict = [r \in Requests |-> "none"]

Goto(r, next) == pc' = [pc EXCEPT ![r] = next]
ReadRow(r) == seen' = [seen EXCEPT ![r] = row]
ForgetRow(r) == seen' = [seen EXCEPT ![r] = NoRow]

Answer(r) ==
  /\ Goto(r, "idle")
  /\ ForgetRow(r)
  /\ event' = [event EXCEPT ![r] = NoEvent]
  /\ verdict' = [verdict EXCEPT ![r] = "none"]

Exists(x) == x.run # 0

(* DELETE and UPDATE wait for the lock of an existing row.                 *)
Writable == lock = None

-----------------------------------------------------------------------------
(***************************************************************************)
(* launch_scenario: an amount that is not positive is refused; otherwise   *)
(* one transaction deletes the case and inserts a new one.  Asked not to   *)
(* reset an existing case it fails by its primary key and changes nothing. *)
(***************************************************************************)
Launch(r) ==
  /\ pc[r] = "idle"
  /\ launches < MaxLaunches
  /\ Writable
  /\ launches' = launches + 1
  /\ \E amount \in Amounts[launches + 1] :
       /\ amount > 0
       /\ row' = [NoRow EXCEPT !.run = launches + 1, !.amount = amount]
  /\ Goto(r, "triage")
  /\ UNCHANGED <<lock, links, events, triages, resets, outages, seen, event, verdict>>

(* POST /cases/{case_id}/triage.  What STEP 0 skips is left alone.         *)
OperatorTriage(r) ==
  /\ pc[r] = "idle"
  /\ Exists(row)
  /\ row.state \notin {"RECOVERED", "ACTION_EXECUTED", "ESCALATED", "TERMINAL_NO_ACTION"}
  /\ triages < MaxTriages
  /\ triages' = triages + 1
  /\ Goto(r, "retriage")
  /\ UNCHANGED <<table, links, launches, resets, outages, seen, event, verdict>>

(* The states that a run may decide on, of which one that is approved      *)
(* already is looked at for eligibility again and then raises.             *)
Undecided == Exists(row) /\ row.state \in {"FAILED_INGESTED", "ACTION_APPROVED"}

(* The demonstration's failed payment is none of the gateway's: a triage   *)
(* that asks for it, as an operator's does and a launch does not, fails.   *)
Outcomes(r) ==
  IF row.state = "FAILED_INGESTED"
    THEN (IF row.amount > HighValue THEN {"ESCALATED"}
          ELSE {"ACTION_APPROVED", "ESCALATED", "TERMINAL_NO_ACTION"})
         \cup (IF pc[r] = "retriage" THEN {"ERROR_TERMINAL"} ELSE {})
    ELSE IF row.link = 0 /\ row.amount > HighValue THEN {"ESCALATED"}
         ELSE {"TERMINAL_NO_ACTION"}

Triage(r) ==
  /\ pc[r] \in {"triage", "retriage"}
  /\ Undecided
  /\ \E s \in Outcomes(r) : verdict' = [verdict EXCEPT ![r] = s]
  /\ ReadRow(r)
  /\ Goto(r, "decide")
  /\ UNCHANGED <<table, links, counts, event>>

TriageEnds(r) ==
  /\ pc[r] \in {"triage", "retriage"}
  /\ Undecided => row.state = "ACTION_APPROVED" /\ row.link = 0 /\ row.amount <= HighValue
  /\ Answer(r)
  /\ UNCHANGED <<table, links, counts>>

(* UPDATE ... WHERE case_id: of no row it raises; of a row that has moved  *)
(* on, or of another launch's, it does not notice.                         *)
Decide(r) ==
  /\ pc[r] = "decide"
  /\ Writable
  /\ IF Exists(row)
       THEN /\ \E late \in IF verdict[r] = "ACTION_APPROVED" THEN BOOLEAN ELSE {FALSE} :
                 /\ row' = [row EXCEPT !.state = verdict[r], !.delayed = late]
                 /\ Goto(r, IF verdict[r] = "ACTION_APPROVED" /\ ~late
                              THEN "execute" ELSE "idle")
            /\ verdict' = [verdict EXCEPT ![r] = "none"]
            /\ ForgetRow(r)
            /\ UNCHANGED event
       ELSE /\ Answer(r)
            /\ UNCHANGED row
  /\ UNCHANGED <<lock, events, links, counts>>

(* The sweep of delayed cases lists the case without locking it; whether   *)
(* its delay is over is left open.                                         *)
Sweep(r) ==
  /\ pc[r] = "idle"
  /\ row.state = "ACTION_APPROVED" /\ row.delayed /\ row.link = 0
  /\ Goto(r, "sweep")
  /\ UNCHANGED <<table, links, counts, seen, event, verdict>>

Executable(sweeping) ==
  /\ Exists(row) /\ row.state = "ACTION_APPROVED" /\ row.link = 0
  /\ row.delayed => sweeping

(* The pre-write validation escalates an amount above the ceiling, which a *)
(* run that read another launch's case may have approved.                  *)
ExecuteRefused(r) ==
  /\ pc[r] \in {"execute", "sweep"}
  /\ lock = None
  /\ Executable(pc[r] = "sweep") /\ row.amount > HighValue
  /\ row' = [row EXCEPT !.state = "ESCALATED"]
  /\ Answer(r)
  /\ UNCHANGED <<lock, events, links, counts>>

Execute(r) ==
  /\ pc[r] \in {"execute", "sweep"}
  /\ lock = None
  /\ Executable(pc[r] = "sweep") => row.amount <= HighValue
  /\ IF Executable(pc[r] = "sweep")
       THEN /\ lock' = r
            /\ ReadRow(r)
            /\ Goto(r, "calling")
            /\ UNCHANGED <<event, verdict>>
       ELSE Answer(r) /\ UNCHANGED lock
  /\ UNCHANGED <<row, events, links, counts>>

NewLink(r) ==
  links' = Append(links, [run |-> seen[r].run, amount |-> seen[r].amount, paid |-> FALSE])

LinkCreated(r) ==
  /\ pc[r] = "calling"
  /\ NewLink(r)
  /\ ForgetRow(r)
  /\ Goto(r, "created")
  /\ UNCHANGED <<table, counts, event, verdict>>

StillApproved == row   \* wrong: left as it was, for a retry

Halted == [row EXCEPT !.state = "ERROR_TERMINAL"]

(* The call fails, whether or not the gateway has made the link. *)
LinkFails(r) ==
  /\ pc[r] = "calling"
  /\ outages < MaxOutages
  /\ outages' = outages + 1
  /\ NewLink(r) \/ UNCHANGED links
  /\ row' = Halted
  /\ lock' = None
  /\ Answer(r)
  /\ UNCHANGED <<events, launches, triages, resets>>

LinkRecorded(r) ==
  /\ pc[r] = "created"
  /\ row' = [row EXCEPT !.state = "ACTION_EXECUTED", !.link = Len(links)]
  /\ lock' = None
  /\ Answer(r)
  /\ UNCHANGED <<events, links, counts>>

-----------------------------------------------------------------------------
ResetUnlocked == TRUE   \* wrong: does not wait for the row lock

ResetWaits == Writable

(* reset: one transaction deletes the case. *)
Reset ==
  /\ resets < MaxResets
  /\ Exists(row)
  /\ ResetWaits
  /\ resets' = resets + 1
  /\ row' = NoRow
  /\ UNCHANGED <<lock, events, links, launches, triages, outages, request>>

(* The customer pays the link. *)
Pay(i) ==
  /\ ~links[i].paid
  /\ links' = [links EXCEPT ![i].paid = TRUE]
  /\ UNCHANGED <<table, counts, request>>

-----------------------------------------------------------------------------
(***************************************************************************)
(* verify_payment reads the case without locking it, asks the gateway for  *)
(* the link it saw there, and hands the payment to WebhookService as an    *)
(* event whose id is made of the payment: the same for every verification. *)
(***************************************************************************)
Verify(r) ==
  /\ pc[r] = "idle"
  /\ Exists(row) /\ row.state # "RECOVERED" /\ row.link # 0
  /\ ReadRow(r)
  /\ Goto(r, "fetch")
  /\ UNCHANGED <<table, links, counts, event, verdict>>

(* get_payment_link fails, or the link is not paid yet. *)
NotVerified(r) ==
  /\ pc[r] = "fetch"
  /\ \/ ~links[seen[r].link].paid /\ UNCHANGED outages
     \/ outages < MaxOutages /\ outages' = outages + 1
  /\ Answer(r)
  /\ UNCHANGED <<table, links, launches, triages, resets>>

VerifyProcesses(r) ==
  /\ pc[r] = "fetch"
  /\ links[seen[r].link].paid
  /\ event' = [event EXCEPT ![r] = [from |-> "verify", link |-> seen[r].link]]
  /\ ForgetRow(r)
  /\ Goto(r, "process")
  /\ UNCHANGED <<table, links, counts, verdict>>

(* The gateway's own payment_link.paid, under an id of its own. *)
Deliver(r, i) ==
  /\ pc[r] = "idle"
  /\ links[i].paid
  /\ [from |-> "gateway", link |-> i] \notin events
  /\ event' = [event EXCEPT ![r] = [from |-> "gateway", link |-> i]]
  /\ Goto(r, "process")
  /\ UNCHANGED <<table, links, counts, seen, verdict>>

-----------------------------------------------------------------------------
(***************************************************************************)
(* process_webhook.  The notes of every link name the fixed case id, so    *)
(* the event finds whatever launch the case is of.                         *)
(***************************************************************************)
Duplicate(r) ==
  /\ pc[r] = "process"
  /\ event[r] \in events
  /\ Answer(r)
  /\ UNCHANGED <<table, links, counts>>

AttributableAnyTime == Exists(row)   \* wrong: neither state nor payment is compared

Attributable ==
  Exists(row) /\ row.state # "RECOVERED" /\ CanTransition(row.state, "RECOVERED")

Correlate(r) ==
  /\ pc[r] = "process"
  /\ event[r] \notin events
  /\ lock = None
  /\ lock' = IF Exists(row) THEN r ELSE None
  /\ Goto(r, IF Attributable THEN "check" ELSE "commit")
  /\ UNCHANGED <<row, events, links, counts, seen, event, verdict>>

Conclude(r, s) ==
  /\ verdict' = [verdict EXCEPT ![r] = s]
  /\ Goto(r, "commit")
  /\ UNCHANGED <<table, links, launches, triages, resets, seen, event>>

WrongAmountTolerated(r) == FALSE   \* wrong: any captured amount will do

WrongAmount(r) == links[event[r].link].amount # row.amount

(* get_payment, and the checks on its answer. *)
Check(r) ==
  /\ pc[r] = "check"
  /\ Conclude(r, IF WrongAmount(r) THEN "ESCALATED" ELSE "RECOVERED")
  /\ UNCHANGED outages

CheckFails(r) ==
  /\ pc[r] = "check"
  /\ outages < MaxOutages
  /\ outages' = outages + 1
  /\ Conclude(r, "VERIFICATION")

Settled(r) ==
  CASE verdict[r] = "none"      -> row
    [] verdict[r] = "RECOVERED" -> [row EXCEPT !.state = "RECOVERED", !.paid = event[r].link]
    [] OTHER                    -> [row EXCEPT !.state = verdict[r]]

LockKept(r) == lock   \* wrong: a request that ends keeps the row locked

Released(r) == IF lock = r THEN None ELSE lock

(* Of two requests with one event the later commit is a duplicate. *)
Commit(r) ==
  /\ pc[r] = "commit"
  /\ IF event[r] \in events
       THEN UNCHANGED <<row, events>>
       ELSE /\ events' = events \cup {event[r]}
            /\ row' = Settled(r)
  /\ lock' = Released(r)
  /\ Answer(r)
  /\ UNCHANGED <<links, counts>>

-----------------------------------------------------------------------------
Pipeline(r) ==
  \/ Triage(r) \/ TriageEnds(r) \/ Decide(r) \/ ExecuteRefused(r) \/ Execute(r)
  \/ LinkCreated(r) \/ LinkFails(r) \/ LinkRecorded(r)

Attribution(r) ==
  \/ NotVerified(r) \/ VerifyProcesses(r)
  \/ Duplicate(r) \/ Correlate(r) \/ Check(r) \/ CheckFails(r) \/ Commit(r)

Step(r) == Pipeline(r) \/ Attribution(r)

Next ==
  \/ \E r \in Requests :
       \/ Launch(r) \/ OperatorTriage(r) \/ Sweep(r) \/ Verify(r)
       \/ \E i \in DOMAIN links : Deliver(r, i)
       \/ Step(r)
  \/ \E i \in DOMAIN links : Pay(i)
  \/ Reset

Spec == Init /\ [][Next]_vars

(***************************************************************************)
(* Requests that have started are resumed by the event loop, and the       *)
(* operator verifies again as long as the case is not recovered.  Nothing  *)
(* makes the gateway deliver an event to a demonstration.                  *)
(***************************************************************************)
OperatorSpec ==
  Spec /\ \A r \in Requests : WF_vars(Step(r)) /\ SF_vars(Verify(r))

-----------------------------------------------------------------------------
(* Whatever resets and launches come between the steps of a verification,  *)
(* a case counts as recovered only by a payment that was made, of exactly  *)
(* its amount, and only with a link on record (README.md:334).  That it is *)
(* a payment of this very launch is not said: see PaymentOfThisLaunch.     *)
RecoveredByAPayment ==
  row.state = "RECOVERED" =>
    /\ row.link # 0
    /\ row.paid \in DOMAIN links
    /\ links[row.paid].paid
    /\ links[row.paid].amount = row.amount

(* The link on record is one that was made for this launch: no reset and   *)
(* no other launch changes the case between the gateway call of a run and  *)
(* the commit that records its link.                                       *)
LinkOfThisLaunch ==
  row.link # 0 => row.link \in DOMAIN links /\ links[row.link].run = row.run

(* A run commits its decision although the case is not as it read it.      *)
StaleCommit ==
  \E r \in Requests : pc[r] = "decide" /\ pc'[r] # "decide" /\ row # seen[r]

(* A link at the gateway leaves a trace: the case it was made for has it   *)
(* on record, is about to, has stopped with an error that a person looks   *)
(* at, or was deleted.                                                     *)
Traced(i) ==
  \/ row.run # links[i].run
  \/ row.link = i
  \/ row.state = "ERROR_TERMINAL"
  \/ i = Len(links) /\ \E r \in Requests : pc[r] = "created" /\ lock = r

(* No link is made without a trace or loses it, through failed calls,      *)
(* resets and further launches, by any step but the stale commit of a run  *)
(* that decided on the case as it was before: nothing in the code excludes *)
(* that one (recovery_orchestrator.py:66).                                 *)
NoLinkForgotten ==
  [][\A i \in DOMAIN links' :
       (i \in DOMAIN links => Traced(i)) => Traced(i)' \/ StaleCommit]_vars

(* The case of one launch is recovered once and stays so, while it is      *)
(* verified, announced by the gateway, verified again and triaged at the   *)
(* same time; only a stale commit, which asks no state machine, undoes it. *)
RecoveredOnce ==
  [][row.state = "RECOVERED" /\ row'.run = row.run => row' = row \/ StaleCommit]_vars

Verifiable(k) ==
  /\ row.run = k
  /\ row.state = "ACTION_EXECUTED" /\ row.link # 0 /\ links[row.link].paid

(* A failed check spends the event that every verification repeats, as run *)
(* Unverified shows of webhooks; a stale commit leaves the link on record  *)
(* with a state from before it.                                            *)
CheckWasted ==
  row.state = "VERIFICATION" /\ [from |-> "verify", link |-> row.link] \in events

Overwritten ==
  row.link # 0 /\ row.state \in {"ACTION_APPROVED", "TERMINAL_NO_ACTION", "ERROR_TERMINAL"}

(* A paid link is settled as long as the operator keeps verifying: waiting *)
(* for the row lock, a duplicate event or a delivery in between never      *)
(* leave the payment aside (api/interactive.py:82).  The case is RECOVERED *)
(* or ESCALATED in the end, unless it is deleted first or meets one of the *)
(* two defects above.                                                      *)
PaidIsVerified ==
  \A k \in 1 .. MaxLaunches :
    Verifiable(k) ~> \/ row.state \in {"RECOVERED", "ESCALATED"} \/ row.run # k
                     \/ CheckWasted \/ Overwritten

-----------------------------------------------------------------------------
(***************************************************************************)
(* What the repository says of payments and the demonstration does not     *)
(* keep.                                                                   *)
(***************************************************************************)

(* "One payment cannot recover two cases" (webhook_service.py:642): a case *)
(* is recovered by a payment of its own launch's link.                     *)
PaymentOfThisLaunch ==
  row.state = "RECOVERED" => links[row.paid].run = row.run
=============================================================================
