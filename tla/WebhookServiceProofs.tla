------------------------ MODULE WebhookServiceProofs ------------------------
(***************************************************************************)
(* Proofs about WebhookService, for any number of cases, payments, events  *)
(* and concurrent requests, and any values of the other constants.         *)
(***************************************************************************)
EXTENDS WebhookService, TLAPS

-----------------------------------------------------------------------------
(***************************************************************************)
(* The inductive invariant: types, what a request has established so far,  *)
(* and what is true of every case.                                         *)
(***************************************************************************)

(* A request that is going to change the case it has locked.               *)
Working(h) ==
  \/ pc[h] \in {"verify", "attribute"}
  \/ pc[h] = "commit" /\ verdict[h] # None

(* It holds the row, which may still become RECOVERED, and is about a      *)
(* payment of it, which it has verified before it attributes it.           *)
Owns(h) ==
  /\ Paid(h) \in PaidEvents
  /\ target[h] \in ingested
  /\ target[h] \in {Paid(h).link, Paid(h).noted}
  /\ lock[target[h]] = h
  /\ CanTransition(row[target[h]].state, "RECOVERED")
  /\ pc[h] = "attribute" \/ verdict[h] = "RECOVERED" =>
       Captured(h) /\ ~WrongAmount(h) /\ ~WrongMerchant(h)

RequestInv(h) ==
  /\ pc[h] # "idle" => evt[h] \in Events
  /\ pc[h] = "ingest" => Payload[evt[h]] \in FailedEvents
  /\ verdict[h] # None => pc[h] = "commit"
  /\ Working(h) => Owns(h)

PaidInFull(c) ==
  /\ row[c].state = "RECOVERED" <=> recovered[c] # None
  /\ recovered[c] # None =>
       /\ status[recovered[c]] = "captured"
       /\ PaidAmount[recovered[c]] = row[c].amount
       /\ row[c].link # 0

Announced(c) ==
  recovered[c] # None =>
    \E e \in events :
      /\ Payload[e].kind = "paid"
      /\ Payload[e].payment = recovered[c]
      /\ c \in {Payload[e].link, Payload[e].noted}
      /\ owner[c] # None => Payload[e].merchant \in {None, owner[c]}

CaseInv(c) ==
  /\ c \notin ingested => row[c].state = "FAILED_INGESTED" /\ pending[c] = 0
  /\ lock[c] = Executor => row[c].state = "ACTION_APPROVED"
  /\ CanTransition(row[c].state, "RECOVERED") => row[c].link # 0
  /\ PaidInFull(c)
  /\ Announced(c)

Inv ==
  /\ TypeOK
  /\ \A h \in Handlers : RequestInv(h)
  /\ \A c \in Cases : CaseInv(c)

LEMMA InvInit == Init => Inv
<1> SUFFICES ASSUME Init PROVE Inv
  OBVIOUS
<1> USE WebhookAssumption DEF Init
<1>1. TypeOK
  BY DEF TypeOK, Row, NewRow, CaseState, TerminalStates, Statuses
<1>2. \A h \in Handlers : RequestInv(h)
  BY DEF RequestInv, Working
<1>3. ASSUME NEW c \in Cases PROVE CaseInv(c)
  <2>1. lock[c] # Executor /\ recovered[c] = None /\ row[c].state = "FAILED_INGESTED"
    BY DEF NewRow
  <2>2. ~CanTransition("FAILED_INGESTED", "RECOVERED")
    BY DEF CanTransition, Transitions
  <2> QED
    BY <2>1, <2>2 DEF CaseInv, PaidInFull, Announced
<1> QED
  BY <1>1, <1>2, <1>3 DEF Inv

-----------------------------------------------------------------------------
(***************************************************************************)
(* What a step has to leave alone for a request or a case to keep its part *)
(* of the invariant.                                                       *)
(***************************************************************************)

(* The only states from which a case may become RECOVERED. *)
LEMMA RecoverableStates ==
  ASSUME NEW s
  PROVE  CanTransition(s, "RECOVERED")
           <=> s \in {"ACTION_EXECUTED", "AWAITING_PAYMENT", "VERIFICATION"}
BY DEF CanTransition, Transitions

CapturesStay ==
  \A p \in Payments : status[p] = "captured" => status'[p] = "captured"

RequestUntouched(g) ==
  pc'[g] = pc[g] /\ evt'[g] = evt[g] /\ target'[g] = target[g] /\ verdict'[g] = verdict[g]

TargetUntouched(g) ==
  /\ lock'[target[g]] = lock[target[g]]
  /\ row'[target[g]] = row[target[g]]
  /\ owner'[target[g]] = owner[target[g]]

LEMMA RequestFrame ==
  ASSUME NEW g \in Handlers, RequestInv(g), RequestUntouched(g), CapturesStay,
         ingested \subseteq ingested', Working(g) => TargetUntouched(g)
  PROVE  RequestInv(g)'
<1>1. Working(g)' <=> Working(g)
  BY DEF Working, RequestUntouched
<1>2. ASSUME Working(g) PROVE Owns(g)'
  <2>1. Owns(g) /\ TargetUntouched(g)
    BY <1>2 DEF RequestInv
  <2>2. Paid(g)' = Paid(g) /\ target'[g] = target[g]
    BY DEF Paid, RequestUntouched
  <2>3. Paid(g).payment \in Payments
    BY <2>1 DEF Owns, PaidEvents
  <2>4. WrongAmount(g)' = WrongAmount(g) /\ WrongMerchant(g)' = WrongMerchant(g)
    BY <2>1, <2>2 DEF WrongAmount, WrongMerchant, TargetUntouched
  <2>5. Captured(g) => Captured(g)'
    BY <2>2, <2>3 DEF Captured, CapturesStay
  <2> QED
    BY <2>1, <2>2, <2>4, <2>5 DEF Owns, TargetUntouched, RequestUntouched
<1> QED
  BY <1>1, <1>2 DEF RequestInv, RequestUntouched

LEMMA CaseFrame ==
  ASSUME NEW c \in Cases, CaseInv(c), recovered[c] \in Payments \cup {None},
         row'[c] = row[c], recovered'[c] = recovered[c],
         recovered[c] # None => owner'[c] = owner[c],
         c \notin ingested' => c \notin ingested /\ pending'[c] = pending[c],
         lock'[c] = Executor => lock[c] = Executor,
         events \subseteq events', CapturesStay
  PROVE  CaseInv(c)'
<1>1. PaidInFull(c)'
  BY DEF CaseInv, PaidInFull, CapturesStay
<1>2. Announced(c)'
  BY DEF CaseInv, Announced
<1> QED
  BY <1>1, <1>2 DEF CaseInv

(* The end of a request releases the locks it held and no others. *)
LEMMA AnsweredFrame ==
  ASSUME Inv, NEW h \in Handlers, Unlock(h), Answered(h),
         NEW g \in Handlers
  PROVE  /\ g # h => RequestUntouched(g)
         /\ g # h /\ Working(g) => lock'[target[g]] = lock[target[g]]
         /\ g = h => RequestInv(g)'
         /\ \A c \in Cases : lock'[c] = Executor => lock[c] = Executor
<1> USE WebhookAssumption
<1>1. TypeOK
  BY DEF Inv
<1>2. g # h => RequestUntouched(g)
  BY <1>1 DEF TypeOK, Answered, Goto, RequestUntouched
<1>3. ASSUME g # h, Working(g) PROVE lock'[target[g]] = lock[target[g]]
  BY <1>1, <1>3 DEF Inv, RequestInv, Owns, Unlock, TypeOK
<1>4. g = h => RequestInv(g)'
  BY <1>1 DEF TypeOK, Answered, Goto, RequestInv, Working
<1>5. \A c \in Cases : lock'[c] = Executor => lock[c] = Executor
  BY DEF Unlock
<1> QED
  BY <1>2, <1>3, <1>4, <1>5

LEMMA AnsweredTyped ==
  ASSUME TypeOK, NEW h \in Handlers, Answered(h)
  PROVE  /\ pc' \in [Handlers -> {"idle", "received", "ingest", "verify", "attribute", "commit"}]
         /\ evt' \in [Handlers -> Events \cup {None}]
         /\ target' \in [Handlers -> Cases \cup {None}]
         /\ known' \in [Handlers -> BOOLEAN]
         /\ merchant' \in [Handlers -> Merchants \cup {None}]
         /\ verdict' \in [Handlers -> {"VERIFICATION", "ESCALATED", "RECOVERED", None}]
BY DEF TypeOK, Answered, Goto

LEMMA UnlockTyped ==
  ASSUME TypeOK, NEW h \in Handlers, Unlock(h)
  PROVE  lock' \in [Cases -> Handlers \cup {Executor, None}]
BY DEF TypeOK, Unlock

LEMMA RollbackStep ==
  ASSUME Inv, NEW h \in Handlers, Rollback(h)
  PROVE  Inv'
<1>1. Unlock(h) /\ Answered(h) /\ TypeOK
  BY DEF Rollback, Inv
<1>2. UNCHANGED <<events, row, owner, ingested, recovered, links, status,
                  contexts, pending, crashes, outages>>
  BY DEF Rollback, gateway, memory, bounds
<1>3. TypeOK'
  BY <1>1, <1>2, AnsweredTyped, UnlockTyped DEF TypeOK
<1>4. CapturesStay
  BY <1>2 DEF CapturesStay
<1>5. ASSUME NEW g \in Handlers PROVE RequestInv(g)'
  BY <1>1, <1>2, <1>4, AnsweredFrame, RequestFrame DEF Inv, TargetUntouched
<1>6. ASSUME NEW c \in Cases PROVE CaseInv(c)'
  <2>1. CaseInv(c) /\ recovered[c] \in Payments \cup {None}
    BY <1>1 DEF Inv, TypeOK
  <2>2. lock'[c] = Executor => lock[c] = Executor
    BY <1>1, AnsweredFrame
  <2> QED
    BY <1>2, <1>4, <2>1, <2>2, CaseFrame
<1> QED
  BY <1>3, <1>5, <1>6 DEF Inv

-----------------------------------------------------------------------------
(***************************************************************************)
(* The steps of a request that change nothing but what it knows.           *)
(***************************************************************************)
LEMMA QuietStep ==
  ASSUME Inv, UNCHANGED <<tables, gateway, pending>>, TypeOK',
         NEW h \in Handlers, RequestInv(h)',
         \A g \in Handlers \ {h} : RequestUntouched(g)
  PROVE  Inv'
<1>1. CapturesStay /\ UNCHANGED <<events, row, owner, ingested, recovered, lock>>
  BY DEF CapturesStay, tables, gateway
<1>2. ASSUME NEW g \in Handlers PROVE RequestInv(g)'
  BY <1>1, RequestFrame DEF Inv, TargetUntouched
<1>3. ASSUME NEW c \in Cases PROVE CaseInv(c)'
  <2>1. CaseInv(c) /\ recovered[c] \in Payments \cup {None}
    BY DEF Inv, TypeOK
  <2> QED
    BY <1>1, <2>1, CaseFrame
<1> QED
  BY <1>2, <1>3 DEF Inv

LEMMA ReceiveStep ==
  ASSUME Inv, NEW h \in Handlers, NEW e \in Events, Receive(h, e)
  PROVE  Inv'
<1>1. TypeOK /\ RequestInv(h)
  BY DEF Inv
<1>2. TypeOK'
  BY <1>1 DEF Receive, Goto, TypeOK, tables, gateway, memory, bounds
<1>3. RequestInv(h)'
  BY <1>1 DEF Receive, Goto, TypeOK, RequestInv, Working
<1>4. \A g \in Handlers \ {h} : RequestUntouched(g)
  BY <1>1 DEF Receive, Goto, TypeOK, RequestUntouched
<1> QED
  BY <1>2, <1>3, <1>4, QuietStep DEF Receive, memory

(* Two ways to the commit with nothing to change but the event. *)
LEMMA NothingToDoStep ==
  ASSUME Inv, NEW h \in Handlers, Ignore(h) \/ CorrelateNone(h)
  PROVE  Inv'
<1>1. /\ pc[h] = "received"
      /\ Goto(h, "commit")
      /\ UNCHANGED <<tables, gateway, memory, bounds, evt, target, known, merchant, verdict>>
  BY DEF Ignore, CorrelateNone
<1>2. TypeOK /\ RequestInv(h)
  BY DEF Inv
<1>3. TypeOK'
  BY <1>1, <1>2 DEF Goto, TypeOK, tables, gateway, memory, bounds
<1>4. RequestInv(h)'
  BY <1>1, <1>2 DEF Goto, TypeOK, RequestInv, Working
<1>5. \A g \in Handlers \ {h} : RequestUntouched(g)
  BY <1>1, <1>2 DEF Goto, TypeOK, RequestUntouched
<1> QED
  BY <1>1, <1>3, <1>4, <1>5, QuietStep DEF memory

LEMMA IngestStep ==
  ASSUME Inv, NEW h \in Handlers, Ingest(h)
  PROVE  Inv'
<1>1. TypeOK /\ RequestInv(h) /\ evt[h] \in Events
  BY DEF Inv, RequestInv, Ingest
<1>2. Payload[evt[h]] \in FailedEvents
  BY <1>1, WebhookAssumption DEF Ingest, FailedEvents, PaidEvents, OtherEvents
<1>3. TrustedMerchant(h) \in Merchants \cup {None}
  BY <1>2, WebhookAssumption DEF TrustedMerchant, FailedEvents
<1>4. TypeOK'
  BY <1>1, <1>3 DEF Ingest, Goto, TypeOK, tables, gateway, memory, bounds
<1>5. RequestInv(h)'
  BY <1>1, <1>2 DEF Ingest, Goto, TypeOK, RequestInv, Working
<1>6. \A g \in Handlers \ {h} : RequestUntouched(g)
  BY <1>1 DEF Ingest, Goto, TypeOK, RequestUntouched
<1> QED
  BY <1>4, <1>5, <1>6, QuietStep DEF Ingest, memory

(* What a request in the middle of its work has established stays true     *)
(* when it moves on to a later stage, or to the commit of a verdict s that *)
(* is not RECOVERED without verification.                                  *)
LEMMA ConcludeStep ==
  ASSUME Inv, NEW h \in Handlers, pc[h] \in {"verify", "attribute"},
         NEW s \in {"VERIFICATION", "ESCALATED", "RECOVERED", None}, Conclude(h, s),
         s = "RECOVERED" => pc[h] = "attribute",
         UNCHANGED <<tables, gateway, memory, crashes>>, outages' \in Nat
  PROVE  Inv'
<1>1. TypeOK /\ RequestInv(h) /\ Owns(h)
  BY DEF Inv, RequestInv, Working
<1>2. TypeOK'
  BY <1>1 DEF Conclude, Goto, TypeOK, tables, gateway, memory
<1>3. Owns(h)'
  <2>1. pc'[h] = "commit" /\ verdict'[h] = s
    BY <1>1 DEF Conclude, Goto, TypeOK
  <2>2. Paid(h)' = Paid(h) /\ target' = target
    BY DEF Conclude, Paid
  <2>3. UNCHANGED <<row, owner, ingested, lock, status>>
    BY DEF tables, gateway
  <2>4. s = "RECOVERED" => Captured(h)' /\ ~WrongAmount(h)' /\ ~WrongMerchant(h)'
    BY <1>1, <2>2, <2>3 DEF Owns, Captured, WrongAmount, WrongMerchant
  <2> QED
    BY <1>1, <2>1, <2>2, <2>3, <2>4 DEF Owns
<1>4. RequestInv(h)'
  BY <1>1, <1>3 DEF Conclude, Goto, TypeOK, RequestInv, Working
<1>5. \A g \in Handlers \ {h} : RequestUntouched(g)
  BY <1>1 DEF Conclude, Goto, TypeOK, RequestUntouched
<1> QED
  BY <1>2, <1>4, <1>5, QuietStep DEF memory

LEMMA VerifyStep ==
  ASSUME Inv, NEW h \in Handlers, Verify(h)
  PROVE  Inv'
<1>1. TypeOK /\ RequestInv(h) /\ Owns(h) /\ pc[h] = "verify"
  BY DEF Inv, RequestInv, Working, Verify
<1>2. UNCHANGED <<tables, gateway, memory, crashes>> /\ outages' \in Nat
  BY <1>1 DEF Verify, bounds, TypeOK
<1>6. None # "RECOVERED"
  BY WebhookAssumption DEF CaseState, TerminalStates
<1>3. CASE Conclude(h, None)
  BY <1>1, <1>2, <1>3, <1>6, ConcludeStep
<1>4. CASE Conclude(h, "ESCALATED")
  BY <1>1, <1>2, <1>4, ConcludeStep
<1>5. CASE /\ Captured(h) /\ ~WrongAmount(h) /\ ~WrongMerchant(h)
           /\ Goto(h, "attribute")
           /\ UNCHANGED <<evt, target, known, merchant, verdict>>
  <2>1. TypeOK'
    BY <1>1, <1>2, <1>5 DEF Goto, TypeOK, tables, gateway, memory
  <2>2. /\ Paid(h)' = Paid(h) /\ Captured(h)' = Captured(h)
        /\ WrongAmount(h)' = WrongAmount(h) /\ WrongMerchant(h)' = WrongMerchant(h)
    BY <1>2, <1>5 DEF Paid, Captured, WrongAmount, WrongMerchant, tables, gateway
  <2>3. Owns(h)'
    BY <1>1, <1>2, <1>5, <2>2 DEF Owns, tables
  <2>4. RequestInv(h)'
    BY <1>1, <1>5, <2>3 DEF Goto, TypeOK, RequestInv, Working
  <2>5. \A g \in Handlers \ {h} : RequestUntouched(g)
    BY <1>1, <1>5 DEF Goto, TypeOK, RequestUntouched
  <2> QED
    BY <1>2, <2>1, <2>4, <2>5, QuietStep DEF memory
<1> QED
  BY <1>3, <1>4, <1>5 DEF Verify

LEMMA VerifyFailsStep ==
  ASSUME Inv, NEW h \in Handlers, VerifyFails(h)
  PROVE  Inv'
<1>1. outages' \in Nat
  BY DEF VerifyFails, Inv, TypeOK
<1> QED
  BY <1>1, ConcludeStep DEF VerifyFails

LEMMA AttributeStep ==
  ASSUME Inv, NEW h \in Handlers, Attribute(h)
  PROVE  Inv'
<1>1. CASE Rollback(h)
  BY <1>1, RollbackStep
<1>2. CASE ~Rollback(h)
  <2> DEFINE s == IF OthersRecovered(h) = {} THEN "RECOVERED" ELSE None
  <2>1. Conclude(h, s) /\ UNCHANGED <<tables, gateway, memory, bounds>>
    BY <1>2 DEF Attribute
  <2>2. outages' \in Nat /\ UNCHANGED crashes
    BY <2>1 DEF Inv, TypeOK, bounds
  <2> QED
    BY <2>1, <2>2, ConcludeStep DEF Attribute
<1> QED
  BY <1>1, <1>2

-----------------------------------------------------------------------------
(***************************************************************************)
(* The commits of a request, and the lock it takes.                        *)
(***************************************************************************)
LEMMA IngestCommitStep ==
  ASSUME Inv, NEW h \in Handlers, IngestCommit(h)
  PROVE  Inv'
<1> DEFINE c == Payload[evt[h]].case
<1>1. TypeOK /\ RequestInv(h) /\ evt[h] \in Events
  BY DEF Inv, RequestInv, IngestCommit
<1>2. c \in Cases
  BY <1>1 DEF RequestInv, IngestCommit, FailedEvents
<1>3. known[h] \/ c \notin ingested
  BY DEF IngestCommit, SecondCase
<1>4. Answered(h) /\ UNCHANGED <<recovered, lock, contexts, links, status, crashes, outages>>
  BY DEF IngestCommit, gateway, bounds
<1>5. /\ events' = events \cup {evt[h]} /\ ingested' = ingested \cup {c}
      /\ pending' = [pending EXCEPT ![c] = @ + 1]
      /\ \/ UNCHANGED <<row, owner>>
         \/ /\ c \notin ingested
            /\ row' = [row EXCEPT ![c] = NewRow(c)]
            /\ owner' = [owner EXCEPT ![c] = merchant[h]]
  BY <1>3 DEF IngestCommit
<1> HIDE DEF c
<1>6. NewRow(c) \in Row /\ NewRow(c).state = "FAILED_INGESTED"
  BY <1>2, WebhookAssumption DEF NewRow, Row, CaseState
<1>7. TypeOK'
  <2>1. row' \in [Cases -> Row] /\ owner' \in [Cases -> Merchants \cup {None}]
    BY <1>1, <1>2, <1>5, <1>6 DEF TypeOK
  <2>2. pending' \in [Cases -> Nat]
    BY <1>1, <1>2, <1>5 DEF TypeOK
  <2> QED
    BY <1>1, <1>2, <1>4, <1>5, <2>1, <2>2, AnsweredTyped DEF TypeOK
<1>8. CapturesStay
  BY <1>4 DEF CapturesStay
<1>9. \A d \in Cases : d \in ingested \/ d # c => row'[d] = row[d] /\ owner'[d] = owner[d]
  BY <1>1, <1>5 DEF TypeOK
<1>10. ASSUME NEW g \in Handlers PROVE RequestInv(g)'
  <2>1. CASE g = h
    BY <1>1, <1>4, <2>1 DEF TypeOK, Answered, Goto, RequestInv, Working
  <2>2. CASE g # h
    <3>1. RequestInv(g) /\ RequestUntouched(g)
      BY <1>1, <1>4, <2>2 DEF Inv, TypeOK, Answered, Goto, RequestUntouched
    <3>2. Working(g) => TargetUntouched(g)
      BY <1>1, <1>4, <1>9, <3>1 DEF RequestInv, Owns, TargetUntouched, TypeOK
    <3> QED
      BY <1>5, <1>8, <3>1, <3>2, RequestFrame
  <2> QED
    BY <2>1, <2>2
<1>11. ASSUME NEW d \in Cases PROVE CaseInv(d)'
  <2>1. CaseInv(d) /\ recovered[d] \in Payments \cup {None}
    BY <1>1 DEF Inv, TypeOK
  <2>2. CASE d # c \/ d \in ingested
    <3>1. row'[d] = row[d] /\ owner'[d] = owner[d]
      BY <1>9, <2>2
    <3>2. d \notin ingested' => d \notin ingested /\ pending'[d] = pending[d]
      BY <1>1, <1>5 DEF TypeOK
    <3> QED
      BY <1>4, <1>5, <1>8, <2>1, <3>1, <3>2, CaseFrame
  <2>3. CASE d = c /\ d \notin ingested
    <3>1. row[d].state = "FAILED_INGESTED" /\ recovered[d] = None /\ lock[d] # Executor
      BY <2>1, <2>3 DEF CaseInv, PaidInFull
    <3>2. row'[d].state = "FAILED_INGESTED"
      BY <1>1, <1>5, <1>6, <2>3, <3>1 DEF TypeOK
    <3>3. d \in ingested' /\ recovered'[d] = None /\ lock'[d] # Executor
      BY <1>4, <1>5, <2>3, <3>1
    <3>4. ~CanTransition("FAILED_INGESTED", "RECOVERED")
      BY RecoverableStates
    <3> QED
      BY <3>2, <3>3, <3>4 DEF CaseInv, PaidInFull, Announced
  <2> QED
    BY <2>2, <2>3
<1> QED
  BY <1>7, <1>10, <1>11 DEF Inv

LEMMA CorrelateStep ==
  ASSUME Inv, NEW h \in Handlers, NEW c \in Cases, Correlate(h, c)
  PROVE  Inv'
<1>1. TypeOK /\ RequestInv(h) /\ evt[h] \in Events /\ c \in Matching(h)
  BY DEF Inv, RequestInv, Correlate
<1>2. UNCHANGED <<events, row, owner, ingested, recovered, links, status, contexts,
                  pending, crashes, outages, evt, known, merchant, verdict>>
  BY DEF Correlate, gateway, memory, bounds
<1>3. lock' = [lock EXCEPT ![c] = h] /\ lock[c] = None
  BY DEF Correlate, Lockable
<1>4. /\ target' = [target EXCEPT ![h] = c]
      /\ pc' = [pc EXCEPT ![h] = IF Attributable(h, c) THEN "verify" ELSE "commit"]
  BY DEF Correlate, Goto
<1>5. TypeOK'
  BY <1>1, <1>2, <1>3, <1>4 DEF TypeOK
<1>6. CapturesStay
  BY <1>2 DEF CapturesStay
<1>7. verdict[h] = None
  BY <1>1 DEF RequestInv, Correlate
<1>8. ASSUME Attributable(h, c) PROVE Owns(h)'
  <2>1. Paid(h)' = Paid(h) /\ Paid(h) \in PaidEvents
    BY <1>1, <1>2, WebhookAssumption DEF Paid, Correlate, PaidEvents, FailedEvents, OtherEvents
  <2>2. c \in ingested /\ c \in {Paid(h).link, Paid(h).noted}
    BY <1>1 DEF Matching
  <2>3. target'[h] = c /\ lock'[c] = h /\ pc'[h] = "verify"
    BY <1>1, <1>3, <1>4, <1>8 DEF TypeOK
  <2>4. CanTransition(row[c].state, "RECOVERED")
    BY <1>8 DEF Attributable
  <2>5. verdict'[h] # "RECOVERED"
    BY <1>2, <1>7, WebhookAssumption DEF CaseState, TerminalStates
  <2> QED
    BY <1>2, <2>1, <2>2, <2>3, <2>4, <2>5 DEF Owns
<1>9. ASSUME NEW g \in Handlers PROVE RequestInv(g)'
  <2>1. CASE g = h
    BY <1>1, <1>2, <1>4, <1>7, <1>8, <2>1 DEF TypeOK, RequestInv, Working
  <2>2. CASE g # h
    <3>1. RequestInv(g) /\ RequestUntouched(g)
      BY <1>1, <1>2, <1>4, <2>2 DEF Inv, TypeOK, RequestUntouched
    <3>2. Working(g) => TargetUntouched(g)
      BY <1>1, <1>2, <1>3, <3>1, WebhookAssumption DEF RequestInv, Owns, TargetUntouched, TypeOK
    <3> QED
      BY <1>2, <1>6, <3>1, <3>2, RequestFrame
  <2> QED
    BY <2>1, <2>2
<1>10. ASSUME NEW d \in Cases PROVE CaseInv(d)'
  <2>1. CaseInv(d) /\ recovered[d] \in Payments \cup {None}
    BY <1>1 DEF Inv, TypeOK
  <2>2. lock'[d] = Executor => lock[d] = Executor
    BY <1>1, <1>3, WebhookAssumption DEF TypeOK
  <2> QED
    BY <1>2, <1>6, <2>1, <2>2, CaseFrame
<1> QED
  BY <1>5, <1>9, <1>10 DEF Inv

(***************************************************************************)
(* What the commit of an outcome does to its case: it was not recovered    *)
(* before, and if it is now, then by the payment that was verified.        *)
(***************************************************************************)
LEMMA OutcomeOfTarget ==
  ASSUME Inv, NEW h \in Handlers, OutcomeCommit(h), verdict[h] # None
  PROVE  /\ Owns(h) /\ target[h] \in Cases
         /\ recovered[target[h]] = None
         /\ row[target[h]].state
              \in {"ACTION_EXECUTED", "AWAITING_PAYMENT", "VERIFICATION"}
         /\ row' = [row EXCEPT ![target[h]].state = verdict[h]]
<1>1. Owns(h)
  BY DEF Inv, RequestInv, Working, OutcomeCommit
<1>2. target[h] \in Cases
  BY <1>1 DEF Owns, Inv, TypeOK
<1>3. row[target[h]].state \in {"ACTION_EXECUTED", "AWAITING_PAYMENT", "VERIFICATION"}
  BY <1>1, RecoverableStates DEF Owns
<1>4. recovered[target[h]] = None
  BY <1>2, <1>3 DEF Inv, CaseInv, PaidInFull
<1> QED
  BY <1>1, <1>2, <1>3, <1>4 DEF OutcomeCommit

LEMMA OutcomeCommitStep ==
  ASSUME Inv, NEW h \in Handlers, OutcomeCommit(h)
  PROVE  Inv'
<1> DEFINE t == target[h]
<1>1. TypeOK /\ RequestInv(h) /\ evt[h] \in Events
  BY DEF Inv, RequestInv, OutcomeCommit
<1>2. /\ Unlock(h) /\ Answered(h) /\ events' = events \cup {evt[h]}
      /\ UNCHANGED <<owner, ingested, links, status, contexts, pending, crashes, outages>>
  BY DEF OutcomeCommit, gateway, memory, bounds
<1>3. CapturesStay
  BY <1>2 DEF CapturesStay
<1>4. CASE verdict[h] = None
  <2>1. UNCHANGED <<row, recovered>>
    BY <1>4, WebhookAssumption DEF OutcomeCommit, CaseState, TerminalStates
  <2>2. TypeOK'
    BY <1>1, <1>2, <2>1, AnsweredTyped, UnlockTyped DEF TypeOK
  <2>3. ASSUME NEW g \in Handlers PROVE RequestInv(g)'
    BY <1>2, <1>3, <2>1, AnsweredFrame, RequestFrame DEF Inv, TargetUntouched
  <2>4. ASSUME NEW c \in Cases PROVE CaseInv(c)'
    <3>1. CaseInv(c) /\ recovered[c] \in Payments \cup {None}
      BY <1>1 DEF Inv, TypeOK
    <3>2. lock'[c] = Executor => lock[c] = Executor
      BY <1>2, AnsweredFrame
    <3> QED
      BY <1>2, <1>3, <2>1, <3>1, <3>2, CaseFrame
  <2> QED
    BY <2>2, <2>3, <2>4 DEF Inv
<1>5. CASE verdict[h] # None
  <2>1. /\ Owns(h) /\ t \in Cases /\ recovered[t] = None
        /\ row[t].state \in {"ACTION_EXECUTED", "AWAITING_PAYMENT", "VERIFICATION"}
        /\ row' = [row EXCEPT ![t].state = verdict[h]]
    BY <1>5, OutcomeOfTarget
  <2>2. verdict[h] \in {"VERIFICATION", "ESCALATED", "RECOVERED"}
    BY <1>1, <1>5 DEF TypeOK
  <2>3. /\ Paid(h) \in PaidEvents /\ Paid(h).payment \in Payments
        /\ lock[t] = h /\ t \in ingested
    BY <2>1 DEF Owns, PaidEvents
  <2>4. recovered' = IF verdict[h] = "RECOVERED" THEN [recovered EXCEPT ![t] = Paid(h).payment]
                     ELSE recovered
    BY DEF OutcomeCommit
  <2> HIDE DEF t
  <2>5. TypeOK'
    <3>1. row' \in [Cases -> Row]
      BY <1>1, <2>1, <2>2 DEF TypeOK, Row, CaseState, TerminalStates
    <3>2. recovered' \in [Cases -> Payments \cup {None}]
      BY <1>1, <2>3, <2>4 DEF TypeOK
    <3> QED
      BY <1>1, <1>2, <3>1, <3>2, AnsweredTyped, UnlockTyped DEF TypeOK
  <2>6. ASSUME NEW g \in Handlers PROVE RequestInv(g)'
    <3>1. CASE g = h
      BY <1>2, <3>1, AnsweredFrame
    <3>2. CASE g # h
      <4>1. RequestInv(g) /\ RequestUntouched(g)
        BY <1>2, <3>2, AnsweredFrame DEF Inv
      <4>2. ASSUME Working(g) PROVE TargetUntouched(g)
        <5>1. target[g] # t /\ target[g] \in Cases
          BY <1>1, <2>3, <3>2, <4>1, <4>2 DEF RequestInv, Owns, TypeOK
        <5>2. row'[target[g]] = row[target[g]]
          BY <1>1, <2>1, <5>1 DEF TypeOK
        <5> QED
          BY <1>2, <3>2, <4>2, <5>2, AnsweredFrame DEF TargetUntouched
      <4> QED
        BY <1>2, <1>3, <4>1, <4>2, RequestFrame
    <3> QED
      BY <3>1, <3>2
  <2>7. ASSUME NEW c \in Cases PROVE CaseInv(c)'
    <3>1. CaseInv(c) /\ recovered[c] \in Payments \cup {None}
      BY <1>1 DEF Inv, TypeOK
    <3>2. lock'[c] = Executor => lock[c] = Executor
      BY <1>2, AnsweredFrame
    <3>3. CASE c # t
      <4>1. row'[c] = row[c] /\ recovered'[c] = recovered[c]
        BY <1>1, <2>1, <2>4, <3>3 DEF TypeOK
      <4> QED
        BY <1>2, <1>3, <3>1, <3>2, <4>1, CaseFrame
    <3>4. CASE c = t
      <4>1. /\ row'[c].state = verdict[h] /\ row'[c].link = row[c].link
            /\ row'[c].amount = row[c].amount
        BY <1>1, <2>1, <3>4 DEF TypeOK, Row
      <4>2. row[c].link # 0 /\ lock'[c] # Executor
        BY <2>1, <3>1, <3>2, <3>4, RecoverableStates DEF CaseInv
      <4>3. recovered'[c] = IF verdict[h] = "RECOVERED" THEN Paid(h).payment ELSE None
        BY <1>1, <2>1, <2>4, <3>4 DEF TypeOK
      <4>4. verdict[h] = "RECOVERED" =>
              Captured(h) /\ ~WrongAmount(h) /\ ~WrongMerchant(h)
        BY <2>1 DEF Owns
      <4>5. PaidInFull(c)'
        <5>1. Paid(h).payment # None
          BY <2>3, WebhookAssumption
        <5>2. verdict[h] = "RECOVERED" =>
                status'[Paid(h).payment] = "captured" /\ PaidAmount[Paid(h).payment] = row[c].amount
          BY <1>2, <3>4, <4>4 DEF Captured, WrongAmount, t
        <5> QED
          BY <4>1, <4>2, <4>3, <5>1, <5>2 DEF PaidInFull
      <4>6. Announced(c)'
        <5>1. /\ Payload[evt[h]].kind = "paid" /\ evt[h] \in events'
              /\ c \in {Payload[evt[h]].link, Payload[evt[h]].noted}
          BY <1>2, <2>1, <2>3, <3>4 DEF Paid, PaidEvents, Owns, t
        <5>2. verdict[h] = "RECOVERED" /\ owner'[c] # None
                => Payload[evt[h]].merchant \in {None, owner'[c]}
          BY <1>2, <3>4, <4>4 DEF WrongMerchant, Paid, t
        <5> QED
          BY <4>3, <5>1, <5>2 DEF Announced, Paid
      <4> QED
        BY <1>2, <2>3, <3>4, <4>1, <4>2, <4>5, <4>6 DEF CaseInv
    <3> QED
      BY <3>3, <3>4
  <2> QED
    BY <2>5, <2>6, <2>7 DEF Inv
<1> QED
  BY <1>4, <1>5

-----------------------------------------------------------------------------
(***************************************************************************)
(* The rest of the system.                                                 *)
(***************************************************************************)

(* A step in which requests do nothing, and which keeps away from the rows *)
(* they have locked.                                                       *)
LEMMA RequestsStand ==
  ASSUME Inv, UNCHANGED <<request, ingested, owner>>, CapturesStay,
         \A c \in Cases : lock[c] \in Handlers => lock'[c] = lock[c] /\ row'[c] = row[c],
         NEW g \in Handlers
  PROVE  RequestInv(g)'
<1>1. RequestInv(g) /\ RequestUntouched(g)
  BY DEF Inv, request, RequestUntouched
<1>2. ASSUME Working(g) PROVE TargetUntouched(g)
  <2>1. target[g] \in Cases /\ lock[target[g]] = g
    BY <1>1, <1>2 DEF RequestInv, Owns, Inv, TypeOK
  <2> QED
    BY <2>1 DEF TargetUntouched
<1> QED
  BY <1>1, <1>2, RequestFrame

LEMMA MemoryStep ==
  ASSUME Inv, TypeOK', UNCHANGED <<tables, pending, request>>, CapturesStay
  PROVE  Inv'
<1>1. ASSUME NEW g \in Handlers PROVE RequestInv(g)'
  BY RequestsStand DEF tables
<1>2. ASSUME NEW c \in Cases PROVE CaseInv(c)'
  <2>1. CaseInv(c) /\ recovered[c] \in Payments \cup {None}
    BY DEF Inv, TypeOK
  <2> QED
    BY <2>1, CaseFrame DEF tables
<1> QED
  BY <1>1, <1>2 DEF Inv

LEMMA StoreContextStep ==
  ASSUME Inv, NEW c \in Cases, StoreContext(c)
  PROVE  Inv'
<1>1. TypeOK'
  BY DEF Inv, TypeOK, StoreContext, tables, gateway, request, bounds
<1> QED
  BY <1>1, MemoryStep DEF StoreContext, gateway, CapturesStay

LEMMA PayStep ==
  ASSUME Inv, NEW p \in Payments, Pay(p)
  PROVE  Inv'
<1>1. TypeOK'
  BY DEF Inv, TypeOK, Pay, Statuses, tables, memory, request, bounds
<1>2. CapturesStay
  BY DEF Inv, TypeOK, Pay, CapturesStay
<1> QED
  BY <1>1, <1>2, MemoryStep DEF Pay, memory

LEMMA DecideStep ==
  ASSUME Inv, NEW c \in ingested, Decide(c), pending' \in [Cases -> Nat],
         \A d \in Cases \ {c} : pending'[d] = pending[d]
  PROVE  Inv'
<1>1. TypeOK /\ c \in Cases /\ lock[c] = None
  BY DEF Inv, TypeOK, Decide
<1>2. UNCHANGED <<events, owner, ingested, recovered, lock, links, status, contexts,
                  request, crashes, outages>>
  BY DEF Decide, gateway, bounds
<1>3. PICK s \in {"ACTION_APPROVED", "ESCALATED", "TERMINAL_NO_ACTION"} :
        row' = [row EXCEPT ![c].state = IF @ = "FAILED_INGESTED" THEN s ELSE @]
  BY DEF Decide
<1>4. TypeOK'
  <2>1. row' \in [Cases -> Row]
    BY <1>1, <1>3 DEF TypeOK, Row, CaseState, TerminalStates
  <2> QED
    BY <1>1, <1>2, <2>1 DEF TypeOK, request
<1>5. CapturesStay
  BY <1>2 DEF CapturesStay
<1>6. \A d \in Cases \ {c} : row'[d] = row[d]
  BY <1>1, <1>3 DEF TypeOK
<1>7. ASSUME NEW g \in Handlers PROVE RequestInv(g)'
  BY <1>1, <1>2, <1>5, <1>6, RequestsStand, WebhookAssumption
<1>8. ASSUME NEW d \in Cases PROVE CaseInv(d)'
  <2>1. CaseInv(d) /\ recovered[d] \in Payments \cup {None}
    BY <1>1 DEF Inv, TypeOK
  <2>2. CASE d # c
    BY <1>2, <1>5, <1>6, <2>1, <2>2, CaseFrame
  <2>3. CASE d = c
    <3>1. /\ row'[d].link = row[d].link /\ row'[d].amount = row[d].amount
          /\ row'[d].state = IF row[d].state = "FAILED_INGESTED" THEN s ELSE row[d].state
      BY <1>1, <1>3, <2>3 DEF TypeOK, Row
    <3>2. lock'[d] # Executor /\ d \in ingested'
      BY <1>1, <1>2, <2>3, WebhookAssumption
    <3>3. row[d].state = "FAILED_INGESTED" => recovered[d] = None
      BY <2>1 DEF CaseInv, PaidInFull
    <3>4. PaidInFull(d)' /\ Announced(d)'
      BY <1>2, <2>1, <3>1, <3>3 DEF CaseInv, PaidInFull, Announced
    <3> QED
      BY <2>1, <3>1, <3>2, <3>4, RecoverableStates DEF CaseInv
  <2> QED
    BY <2>2, <2>3
<1> QED
  BY <1>4, <1>7, <1>8 DEF Inv

LEMMA BackgroundStep ==
  ASSUME Inv, NEW c \in Cases, BackgroundTask(c)
  PROVE  Inv'
<1>1. TypeOK /\ CaseInv(c) /\ pending[c] > 0
  BY DEF Inv, BackgroundTask, Due
<1>2. c \in ingested
  BY <1>1 DEF CaseInv
<1>3. pending' = [pending EXCEPT ![c] = @ - 1] /\ pending' \in [Cases -> Nat]
  BY <1>1 DEF BackgroundTask, TypeOK
<1>4. \A d \in Cases \ {c} : pending'[d] = pending[d]
  BY <1>1, <1>3 DEF TypeOK
<1>5. CASE Decide(c)
  BY <1>2, <1>3, <1>4, <1>5, DecideStep
<1>6. CASE UNCHANGED <<tables, gateway, contexts, request, bounds>>
  <2>1. TypeOK'
    BY <1>1, <1>3, <1>6 DEF TypeOK, tables, gateway, request, bounds
  <2>2. CapturesStay
    BY <1>6 DEF CapturesStay, gateway
  <2>3. ASSUME NEW g \in Handlers PROVE RequestInv(g)'
    BY <1>6, <2>2, RequestsStand DEF tables
  <2>4. ASSUME NEW d \in Cases PROVE CaseInv(d)'
    <3>1. CaseInv(d) /\ recovered[d] \in Payments \cup {None}
      BY <1>1 DEF Inv, TypeOK
    <3>2. d \notin ingested' => d \notin ingested /\ pending'[d] = pending[d]
      BY <1>2, <1>4, <1>6 DEF tables
    <3> QED
      BY <1>6, <2>2, <3>1, <3>2, CaseFrame DEF tables
  <2> QED
    BY <2>1, <2>3, <2>4 DEF Inv
<1> QED
  BY <1>5, <1>6 DEF BackgroundTask

LEMMA OperatorStep ==
  ASSUME Inv, NEW c \in Cases, OperatorTriage(c)
  PROVE  Inv'
BY DecideStep DEF OperatorTriage, Inv, TypeOK

LEMMA MakeLinkStep ==
  ASSUME Inv, NEW c \in Cases, MakeLink(c)
  PROVE  Inv'
<1>1. TypeOK /\ row[c].state = "ACTION_APPROVED" /\ lock[c] = None
  BY DEF Inv, MakeLink
<1>2. lock' = [lock EXCEPT ![c] = Executor] /\ links' = links \cup {c}
  BY DEF MakeLink
<1>3. UNCHANGED <<events, row, owner, ingested, recovered, status, contexts, pending,
                  request, crashes, outages>>
  BY DEF MakeLink, memory, bounds
<1>4. TypeOK'
  BY <1>1, <1>2, <1>3 DEF TypeOK, request
<1>5. CapturesStay
  BY <1>3 DEF CapturesStay
<1>6. ASSUME NEW g \in Handlers PROVE RequestInv(g)'
  <2>1. \A d \in Cases : lock[d] \in Handlers => lock'[d] = lock[d] /\ row'[d] = row[d]
    BY <1>1, <1>2, <1>3, WebhookAssumption DEF TypeOK
  <2> QED
    BY <1>3, <1>5, <2>1, RequestsStand
<1>7. ASSUME NEW d \in Cases PROVE CaseInv(d)'
  <2>1. CaseInv(d) /\ recovered[d] \in Payments \cup {None}
    BY <1>1 DEF Inv, TypeOK
  <2>2. PaidInFull(d)' /\ Announced(d)'
    BY <1>3, <2>1 DEF CaseInv, PaidInFull, Announced
  <2>3. lock'[d] = Executor => row'[d].state = "ACTION_APPROVED"
    BY <1>1, <1>2, <1>3, <2>1 DEF CaseInv, TypeOK
  <2> QED
    BY <1>3, <2>1, <2>2, <2>3 DEF CaseInv
<1> QED
  BY <1>4, <1>6, <1>7 DEF Inv

LEMMA RecordLinkStep ==
  ASSUME Inv, NEW c \in Cases, RecordLink(c)
  PROVE  Inv'
<1>1. TypeOK /\ CaseInv(c) /\ lock[c] = Executor
  BY DEF Inv, RecordLink
<1>2. row[c].state = "ACTION_APPROVED" /\ c \in ingested /\ recovered[c] = None
  BY <1>1 DEF CaseInv, PaidInFull
<1>3. UNCHANGED <<events, owner, ingested, recovered, links, status, contexts, pending,
                  request, crashes, outages>>
  BY DEF RecordLink, gateway, memory, bounds
<1>4. lock' = [lock EXCEPT ![c] = None]
  BY DEF RecordLink
<1>5. /\ row' \in [Cases -> Row]
      /\ \A d \in Cases \ {c} : row'[d] = row[d]
      /\ \/ row'[c].state = "ACTION_EXECUTED" /\ row'[c].link = 1
         \/ row'[c].state = "ERROR_TERMINAL"
  BY <1>1 DEF RecordLink, TypeOK, Row, CaseState, TerminalStates
<1>6. TypeOK'
  BY <1>1, <1>3, <1>4, <1>5 DEF TypeOK, request
<1>7. CapturesStay
  BY <1>3 DEF CapturesStay
<1>8. ASSUME NEW g \in Handlers PROVE RequestInv(g)'
  <2>1. \A d \in Cases : lock[d] \in Handlers => lock'[d] = lock[d] /\ row'[d] = row[d]
    BY <1>1, <1>4, <1>5, WebhookAssumption DEF TypeOK
  <2> QED
    BY <1>3, <1>7, <2>1, RequestsStand
<1>9. ASSUME NEW d \in Cases PROVE CaseInv(d)'
  <2>1. CaseInv(d) /\ recovered[d] \in Payments \cup {None}
    BY <1>1 DEF Inv, TypeOK
  <2>2. lock'[d] = Executor => d # c /\ lock[d] = Executor
    BY <1>1, <1>4, WebhookAssumption DEF TypeOK
  <2>3. CASE d # c
    BY <1>3, <1>5, <1>7, <2>1, <2>2, <2>3, CaseFrame
  <2>4. CASE d = c
    BY <1>2, <1>3, <1>5, <2>2, <2>4, RecoverableStates DEF CaseInv, PaidInFull, Announced
  <2> QED
    BY <2>3, <2>4
<1> QED
  BY <1>6, <1>8, <1>9 DEF Inv

LEMMA CrashStep ==
  ASSUME Inv, Crash
  PROVE  Inv'
<1>1. TypeOK /\ UNCHANGED <<events, row, owner, ingested, recovered, status>>
  BY DEF Inv, Crash, gateway
<1>2. TypeOK'
  BY <1>1 DEF Crash, TypeOK, gateway
<1>3. ASSUME NEW g \in Handlers PROVE RequestInv(g)'
  BY DEF Crash, RequestInv, Working
<1>4. ASSUME NEW c \in Cases PROVE CaseInv(c)'
  <2>1. CaseInv(c) /\ lock'[c] # Executor /\ pending'[c] = 0
    BY WebhookAssumption DEF Inv, Crash
  <2> QED
    BY <1>1, <2>1 DEF CaseInv, PaidInFull, Announced
<1> QED
  BY <1>2, <1>3, <1>4 DEF Inv

-----------------------------------------------------------------------------
LEMMA HandleStep ==
  ASSUME Inv, NEW h \in Handlers, Handle(h)
  PROVE  Inv'
<1>1. CASE Ignore(h) \/ CorrelateNone(h)
  BY <1>1, NothingToDoStep
<1>2. CASE Failed(h)
  BY <1>2, IngestStep, IngestCommitStep, RollbackStep DEF Failed, IngestConflict
<1>3. CASE CorrelateTwo(h) \/ OutcomeConflict(h)
  BY <1>3, RollbackStep DEF CorrelateTwo, OutcomeConflict
<1>4. CASE \E c \in Cases : Correlate(h, c)
  BY <1>4, CorrelateStep
<1>5. CASE Verify(h) \/ VerifyFails(h) \/ Attribute(h)
  BY <1>5, VerifyStep, VerifyFailsStep, AttributeStep
<1>6. CASE OutcomeCommit(h)
  BY <1>6, OutcomeCommitStep
<1> QED
  BY <1>1, <1>2, <1>3, <1>4, <1>5, <1>6 DEF Handle, Outcome

LEMMA InvStep == Inv /\ [Next]_vars => Inv'
<1> SUFFICES ASSUME Inv, [Next]_vars PROVE Inv'
  OBVIOUS
<1>1. ASSUME NEW h \in Handlers, Handle(h) \/ \E e \in Events : Receive(h, e)
      PROVE  Inv'
  BY <1>1, HandleStep, ReceiveStep
<1>2. ASSUME NEW c \in Cases, System(c) PROVE Inv'
  BY <1>2, StoreContextStep, BackgroundStep, OperatorStep, MakeLinkStep, RecordLinkStep DEF System
<1>3. CASE UNCHANGED vars
  <2>1. UNCHANGED <<tables, gateway, memory, request, bounds>>
    BY <1>3 DEF vars
  <2>2. TypeOK'
    BY <2>1 DEF Inv, TypeOK, tables, gateway, memory, request, bounds
  <2> QED
    BY <2>1, <2>2, MemoryStep DEF memory, gateway, CapturesStay
<1> QED
  BY <1>1, <1>2, <1>3, PayStep, CrashStep DEF Next

LEMMA InvHolds == Spec => []Inv
BY InvInit, InvStep, PTL DEF Spec

(***************************************************************************)
(* Every variable of the webhook service keeps its type.                   *)
(***************************************************************************)
THEOREM WebhookTypesHold == Spec => []TypeOK
<1>1. Inv => TypeOK
  BY DEF Inv
<1> QED
  BY <1>1, InvHolds, PTL

(***************************************************************************)
(* "Captured-Only Attribution": with any number of concurrent requests and *)
(* restarts, a case is RECOVERED exactly if a captured payment of its      *)
(* amount is attributed to it, and its link is on record.                  *)
(***************************************************************************)
THEOREM RecoveredCasesArePaid == Spec => []RecoveredIsPaid
<1>1. Inv => RecoveredIsPaid
  BY DEF Inv, CaseInv, PaidInFull, RecoveredIsPaid
<1> QED
  BY <1>1, InvHolds, PTL

(***************************************************************************)
(* Behind every attribution there is an event on record that names the     *)
(* payment and the case, and no other merchant.                            *)
(***************************************************************************)
THEOREM AttributionsAreAnnounced == Spec => []AttributionHasEvent
<1>1. Inv => AttributionHasEvent
  BY DEF Inv, CaseInv, Announced, AttributionHasEvent
<1> QED
  BY <1>1, InvHolds, PTL

-----------------------------------------------------------------------------
(***************************************************************************)
(* What one step can do to the row of a case that exists: nothing, or move *)
(* it on from a state in which it is still open.                           *)
(***************************************************************************)
RowKept(c) == row'[c] = row[c] /\ recovered'[c] = recovered[c] /\ owner'[c] = owner[c]

RowMoved(c) ==
  /\ row[c].state \in {"FAILED_INGESTED", "ACTION_APPROVED", "ACTION_EXECUTED",
                       "AWAITING_PAYMENT", "VERIFICATION"}
  /\ row'[c].state # "FAILED_INGESTED"
  /\ owner'[c] = owner[c]

LEMMA HandleRow ==
  ASSUME Inv, NEW h \in Handlers, Handle(h), NEW c \in ingested
  PROVE  RowKept(c) \/ RowMoved(c)
<1>1. TypeOK /\ c \in Cases
  BY DEF Inv, TypeOK
<1>2. CASE IngestCommit(h)
  <2> DEFINE d == Payload[evt[h]].case
  <2>1. d \in ingested => UNCHANGED <<row, owner>>
    BY <1>2 DEF IngestCommit, SecondCase
  <2>2. \/ UNCHANGED <<row, owner>>
        \/ /\ row' = [row EXCEPT ![d] = NewRow(d)]
           /\ owner' = [owner EXCEPT ![d] = merchant[h]]
    BY <1>2 DEF IngestCommit
  <2>3. recovered' = recovered
    BY <1>2 DEF IngestCommit
  <2> HIDE DEF d
  <2> QED
    BY <1>1, <2>1, <2>2, <2>3 DEF RowKept, TypeOK
<1>3. CASE OutcomeCommit(h)
  <2>1. owner' = owner
    BY <1>3 DEF OutcomeCommit
  <2>2. CASE verdict[h] = None
    BY <1>3, <2>1, <2>2, WebhookAssumption DEF OutcomeCommit, RowKept, CaseState, TerminalStates
  <2>3. CASE verdict[h] # None
    <3>1. /\ row[target[h]].state \in {"ACTION_EXECUTED", "AWAITING_PAYMENT", "VERIFICATION"}
          /\ row' = [row EXCEPT ![target[h]].state = verdict[h]]
          /\ target[h] \in Cases
      BY <1>3, <2>3, OutcomeOfTarget
    <3>2. verdict[h] \in {"VERIFICATION", "ESCALATED", "RECOVERED"}
      BY <1>1, <2>3 DEF TypeOK
    <3>3. CASE c = target[h]
      BY <1>1, <2>1, <3>1, <3>2, <3>3 DEF RowMoved, TypeOK, Row
    <3>4. CASE c # target[h]
      <4>1. row'[c] = row[c]
        BY <1>1, <3>1, <3>4 DEF TypeOK
      <4>2. recovered'[c] = recovered[c]
        BY <1>1, <1>3, <3>4 DEF TypeOK, OutcomeCommit
      <4> QED
        BY <2>1, <4>1, <4>2 DEF RowKept
    <3> QED
      BY <3>3, <3>4
  <2> QED
    BY <2>2, <2>3
<1>4. IngestCommit(h) \/ OutcomeCommit(h) \/ UNCHANGED <<row, recovered, owner>>
  BY DEF Handle, Failed, Outcome, Ignore, Ingest, IngestConflict, CorrelateTwo, CorrelateNone,
         Correlate, Verify, VerifyFails, Attribute, OutcomeConflict, Rollback, tables
<1> QED
  BY <1>2, <1>3, <1>4 DEF RowKept

LEMMA RowStep ==
  ASSUME Inv, [Next]_vars, NEW c \in ingested
  PROVE  RowKept(c) \/ RowMoved(c)
<1>1. TypeOK /\ c \in Cases
  BY DEF Inv, TypeOK
<1>2. ASSUME NEW d \in Cases, Decide(d) PROVE RowKept(c) \/ RowMoved(c)
  BY <1>1, <1>2 DEF Decide, RowKept, RowMoved, TypeOK, Row
<1>3. ASSUME NEW d \in Cases, RecordLink(d) PROVE RowKept(c) \/ RowMoved(c)
  <2>1. row[d].state = "ACTION_APPROVED"
    BY <1>3 DEF RecordLink, Inv, CaseInv
  <2>2. owner' = owner /\ recovered' = recovered
    BY <1>3 DEF RecordLink
  <2>3. /\ row'[d].state # "FAILED_INGESTED"
        /\ c # d => row'[c] = row[c]
    BY <1>1, <1>3 DEF RecordLink, TypeOK, Row
  <2> QED
    BY <2>1, <2>2, <2>3 DEF RowKept, RowMoved
<1>4. ASSUME NEW d \in Cases, System(d) PROVE RowKept(c) \/ RowMoved(c)
  <2>1. Decide(d) \/ RecordLink(d) \/ UNCHANGED <<row, recovered, owner>>
    BY <1>4 DEF System, StoreContext, BackgroundTask, OperatorTriage, MakeLink, tables
  <2> QED
    BY <1>2, <1>3, <2>1 DEF RowKept
<1>5. ASSUME NEW h \in Handlers, NEW e \in Events, Receive(h, e) PROVE RowKept(c)
  BY <1>5 DEF Receive, RowKept, tables
<1>6. ASSUME (\E p \in Payments : Pay(p)) \/ Crash \/ UNCHANGED vars PROVE RowKept(c)
  BY <1>6 DEF Pay, Crash, RowKept, tables, vars
<1> QED
  BY <1>4, <1>5, <1>6, HandleRow DEF Next

(***************************************************************************)
(* "Single Attribution Invariant": a recovered payment is never replaced,  *)
(* and its case stays RECOVERED.                                           *)
(***************************************************************************)
THEOREM AttributionsAreFinal == Spec => AttributionIsFinal
<1> DEFINE Final == \A c \in Cases : recovered[c] # None =>
                      /\ recovered'[c] = recovered[c]
                      /\ row'[c].state = "RECOVERED"
<1>1. Inv /\ [Next]_vars => [Final]_<<recovered, row>>
  <2> SUFFICES ASSUME Inv, [Next]_vars, NEW c \in Cases, recovered[c] # None
               PROVE  recovered'[c] = recovered[c] /\ row'[c].state = "RECOVERED"
    OBVIOUS
  <2>1. row[c].state = "RECOVERED" /\ c \in ingested
    BY DEF Inv, CaseInv, PaidInFull
  <2> QED
    BY <2>1, RowStep DEF RowKept, RowMoved
<1> QED
  BY <1>1, InvHolds, PTL DEF Spec, AttributionIsFinal

(***************************************************************************)
(* No step of a webhook's handler takes a case out of a terminal state.    *)
(***************************************************************************)
THEOREM LatePaymentsChangeNothing == Spec => LatePaymentChangesNothing
<1> DEFINE Kept == pc' # pc =>
             \A c \in Cases : IsTerminal(row[c].state) => row'[c].state = row[c].state
<1>1. Inv /\ [Next]_vars => [Kept]_vars
  <2> SUFFICES ASSUME Inv, [Next]_vars, pc' # pc,
                      NEW c \in Cases, IsTerminal(row[c].state)
               PROVE  row'[c].state = row[c].state
    OBVIOUS
  <2>1. c \in ingested
    BY DEF Inv, CaseInv, IsTerminal, TerminalStates
  <2>2. CASE \E h \in Handlers : Handle(h)
    BY <2>1, <2>2, HandleRow DEF RowKept, RowMoved, IsTerminal, TerminalStates
  <2>3. CASE \E h \in Handlers, e \in Events : Receive(h, e)
    BY <2>3 DEF Receive, tables
  <2>4. CASE Crash
    BY <2>4 DEF Crash
  <2>5. pc' = pc \/ Crash \/ (\E h \in Handlers : Handle(h))
          \/ (\E h \in Handlers, e \in Events : Receive(h, e))
    BY DEF Next, System, StoreContext, BackgroundTask, OperatorTriage, Decide, MakeLink,
           RecordLink, Pay, request, vars
  <2> QED
    BY <2>2, <2>3, <2>4, <2>5
<1> QED
  BY <1>1, InvHolds, PTL DEF Spec, LatePaymentChangesNothing

(***************************************************************************)
(* Concurrent events for one failed payment never reset its case or change *)
(* its merchant.                                                           *)
(***************************************************************************)
THEOREM CasesAreIngestedOnce == Spec => IngestedOnce
<1> DEFINE Once == \A c \in ingested :
                     /\ owner'[c] = owner[c]
                     /\ row'[c].state = "FAILED_INGESTED" => row[c].state = "FAILED_INGESTED"
<1>1. Inv /\ [Next]_vars => [Once]_<<row, owner>>
  BY RowStep DEF RowKept, RowMoved
<1> QED
  BY <1>1, InvHolds, PTL DEF Spec, IngestedOnce

(***************************************************************************)
(* An event has its effect once: what ingests a case, attributes a payment *)
(* or starts the pipeline puts an event on record that was not there.      *)
(***************************************************************************)
THEOREM EventsActOnce == Spec => EffectOncePerEvent
<1> DEFINE Effect == \/ recovered' # recovered \/ ingested' # ingested
                     \/ \E c \in Cases : pending'[c] > pending[c]
           Recorded == \E e \in Events \ events : events' = events \cup {e}
<1>1. Inv /\ [Next]_vars => [Effect => Recorded]_vars
  <2> SUFFICES ASSUME Inv, Next, Effect PROVE Recorded
    OBVIOUS
  <2>1. TypeOK
    BY DEF Inv
  <2>2. ASSUME NEW h \in Handlers, IngestCommit(h) \/ OutcomeCommit(h) PROVE Recorded
    BY <2>2 DEF IngestCommit, OutcomeCommit, Conflict, Inv, RequestInv
  <2>3. ASSUME NEW h \in Handlers, Handle(h), ~IngestCommit(h), ~OutcomeCommit(h)
        PROVE  ~Effect
    <3>1. UNCHANGED <<recovered, ingested, pending>>
      BY <2>3 DEF Handle, Failed, Outcome, Ignore, Ingest, IngestConflict, CorrelateTwo,
                  CorrelateNone, Correlate, Verify, VerifyFails, Attribute, OutcomeConflict,
                  Rollback, tables, memory
    <3> QED
      BY <2>1, <3>1 DEF TypeOK
  <2>4. ASSUME NEW h \in Handlers, NEW e \in Events, Receive(h, e) PROVE ~Effect
    BY <2>1, <2>4 DEF Receive, tables, memory, TypeOK
  <2>5. ASSUME NEW d \in Cases, System(d) PROVE ~Effect
    <3>1. UNCHANGED <<recovered, ingested>>
      BY <2>5 DEF System, StoreContext, BackgroundTask, OperatorTriage, MakeLink, RecordLink,
                  Decide, tables
    <3>2. pending' = pending \/ pending' = [pending EXCEPT ![d] = @ - 1]
      BY <2>5 DEF System, StoreContext, BackgroundTask, OperatorTriage, MakeLink, RecordLink,
                  memory
    <3> QED
      BY <2>1, <3>1, <3>2 DEF TypeOK
  <2>6. ASSUME (\E p \in Payments : Pay(p)) \/ Crash PROVE ~Effect
    BY <2>1, <2>6 DEF Pay, Crash, tables, memory, TypeOK
  <2> QED
    BY <2>2, <2>3, <2>4, <2>5, <2>6 DEF Next
<1> QED
  BY <1>1, InvHolds, PTL DEF Spec, EffectOncePerEvent

-----------------------------------------------------------------------------
(***************************************************************************)
(* One payment for two cases.  Nothing in the code keeps two requests apart*)
(* that attribute one payment to two cases: the other cases are read in one*)
(* step and the attribution is committed in a later one, and only the row  *)
(* of the case itself is locked in between.  The theorem says that this    *)
(* window is all there is to it: the property holds, with any number of    *)
(* requests, as long as no two of them are between the two steps with the  *)
(* same payment.  Run PaidTwice  shows it violated as soon as two are.     *)
(***************************************************************************)
Deciding(h) == pc[h] = "commit" /\ verdict[h] = "RECOVERED"

DecidedApart ==
  \A g, h \in Handlers :
    Deciding(g) /\ Deciding(h) /\ Paid(g).payment = Paid(h).payment => g = h

(* What the request has read about its payment is still so.                *)
StillUnused(h) == Deciding(h) => \A d \in Cases : recovered[d] # Paid(h).payment

PaysOnceInv == PaymentRecoversOneCase /\ \A h \in Handlers : StillUnused(h)

LEMMA DecidingIsSound ==
  ASSUME Inv, NEW h \in Handlers, Deciding(h)
  PROVE  /\ Paid(h).payment \in Payments /\ Paid(h).payment # None
         /\ target[h] \in Cases
<1>1. Working(h) /\ RequestInv(h)
  BY WebhookAssumption DEF Inv, Deciding, Working, CaseState, TerminalStates
<1>2. Owns(h)
  BY <1>1 DEF RequestInv
<1> QED
  BY <1>2, WebhookAssumption DEF Owns, PaidEvents, Inv, TypeOK

(* Where no payment is attributed, only the decision of a request has to be*)
(* looked at.                                                              *)
LEMMA PaysOnceFrame ==
  ASSUME PaysOnceInv, recovered' = recovered,
         \A g \in Handlers : Deciding(g)' =>
           \/ Deciding(g) /\ evt'[g] = evt[g]
           \/ \A d \in Cases : recovered[d] # Payload[evt'[g]].payment
  PROVE  PaysOnceInv'
<1>1. PaymentRecoversOneCase'
  BY DEF PaysOnceInv, PaymentRecoversOneCase
<1>2. ASSUME NEW g \in Handlers, Deciding(g)' PROVE StillUnused(g)'
  BY <1>2 DEF PaysOnceInv, StillUnused, Paid
<1> QED
  BY <1>1, <1>2 DEF PaysOnceInv, StillUnused

LEMMA AttributePaysOnce ==
  ASSUME Inv, PaysOnceInv, NEW h \in Handlers, Attribute(h)
  PROVE  PaysOnceInv'
<1> USE WebhookAssumption
<1>1. TypeOK /\ Owns(h)
  BY DEF Inv, RequestInv, Working, Attribute
<1>2. target[h] \in Cases /\ recovered[target[h]] = None /\ Paid(h).payment # None
  <2>1. target[h] \in Cases /\ Paid(h).payment \in Payments
    BY <1>1 DEF Owns, TypeOK, PaidEvents
  <2>2. row[target[h]].state # "RECOVERED"
    BY <1>1, RecoverableStates DEF Owns
  <2> QED
    BY <2>1, <2>2 DEF Inv, CaseInv, PaidInFull
<1>3. recovered' = recovered
  BY DEF Attribute, Rollback, tables
<1>4. CASE Rollback(h)
  <2>1. ASSUME NEW g \in Handlers, Deciding(g)' PROVE Deciding(g) /\ evt'[g] = evt[g]
    BY <1>1, <1>4, <2>1 DEF Rollback, Answered, Goto, TypeOK, Deciding
  <2> QED
    BY <1>3, <2>1, PaysOnceFrame
<1>5. CASE ~Rollback(h)
  <2>1. Conclude(h, IF OthersRecovered(h) = {} THEN "RECOVERED" ELSE None)
    BY <1>5 DEF Attribute
  <2>2. evt' = evt
    BY <2>1 DEF Conclude
  <2>3. ASSUME NEW g \in Handlers, g # h, Deciding(g)' PROVE Deciding(g)
    BY <1>1, <2>1, <2>3 DEF Conclude, Goto, TypeOK, Deciding
  <2>4. ASSUME Deciding(h)' PROVE \A d \in Cases : recovered[d] # Payload[evt'[h]].payment
    <3>1. verdict'[h] = IF OthersRecovered(h) = {} THEN "RECOVERED" ELSE None
      BY <1>1, <2>1 DEF Conclude, TypeOK
    <3>2. OthersRecovered(h) = {}
      BY <2>4, <3>1 DEF Deciding, CaseState, TerminalStates
    <3>3. \A d \in Cases \ {target[h]} : recovered[d] # Paid(h).payment
      BY <3>2 DEF OthersRecovered
    <3> QED
      BY <1>2, <2>2, <3>3 DEF Paid
  <2> QED
    BY <1>3, <2>2, <2>3, <2>4, PaysOnceFrame
<1> QED
  BY <1>4, <1>5

(* The commit attributes a payment that no case has, and no other request  *)
(* that is about to commit is about that payment.                          *)
LEMMA CommitPaysOnce ==
  ASSUME Inv, PaysOnceInv, DecidedApart, NEW h \in Handlers, OutcomeCommit(h)
  PROVE  PaysOnceInv'
<1> USE WebhookAssumption
<1>1. TypeOK
  BY DEF Inv
<1>2. Answered(h) /\ pc[h] = "commit"
  BY DEF OutcomeCommit
<1>3. ASSUME NEW g \in Handlers, Deciding(g)'
      PROVE  g # h /\ Deciding(g) /\ evt'[g] = evt[g] /\ Paid(g)' = Paid(g)
  BY <1>1, <1>2, <1>3 DEF Answered, Goto, TypeOK, Deciding, Paid
<1>4. CASE verdict[h] # "RECOVERED"
  <2>1. recovered' = recovered
    BY <1>4 DEF OutcomeCommit
  <2> QED
    BY <1>3, <2>1, PaysOnceFrame
<1>5. CASE verdict[h] = "RECOVERED"
  <2>1. Deciding(h)
    BY <1>2, <1>5 DEF Deciding
  <2>2. /\ Paid(h).payment \in Payments /\ Paid(h).payment # None
        /\ target[h] \in Cases
        /\ \A d \in Cases : recovered[d] # Paid(h).payment
    BY <2>1, DecidingIsSound DEF PaysOnceInv, StillUnused
  <2>3. recovered' = [recovered EXCEPT ![target[h]] = Paid(h).payment]
    BY <1>5 DEF OutcomeCommit
  <2>4. \A d \in Cases : recovered'[d] = IF d = target[h] THEN Paid(h).payment ELSE recovered[d]
    BY <1>1, <2>3 DEF TypeOK
  <2>5. PaymentRecoversOneCase'
    BY <2>2, <2>4 DEF PaysOnceInv, PaymentRecoversOneCase
  <2>6. ASSUME NEW g \in Handlers, Deciding(g)' PROVE StillUnused(g)'
    <3>1. Paid(g).payment # Paid(h).payment
      BY <1>3, <2>1, <2>6 DEF DecidedApart
    <3>2. \A d \in Cases : recovered[d] # Paid(g).payment
      BY <1>3, <2>6 DEF PaysOnceInv, StillUnused
    <3> QED
      BY <1>3, <2>4, <2>6, <3>1, <3>2 DEF StillUnused
  <2> QED
    BY <2>5, <2>6 DEF PaysOnceInv, StillUnused
<1> QED
  BY <1>4, <1>5

LEMMA PaysOnceStep ==
  ASSUME Inv, PaysOnceInv, DecidedApart, [Next]_vars
  PROVE  PaysOnceInv'
<1> USE WebhookAssumption
<1>1. TypeOK
  BY DEF Inv
<1>2. ASSUME NEW h \in Handlers, Handle(h), ~Attribute(h), ~OutcomeCommit(h)
      PROVE  PaysOnceInv'
  <2>1. recovered' = recovered
    BY <1>2 DEF Handle, Failed, Outcome, Ignore, Ingest, IngestConflict, IngestCommit,
                CorrelateTwo, CorrelateNone, Correlate, Verify, VerifyFails, OutcomeConflict,
                Rollback, tables
  <2>2. ASSUME NEW g \in Handlers, Deciding(g)' PROVE Deciding(g) /\ evt'[g] = evt[g]
    <3>1. CASE Answered(h)
      BY <1>1, <2>2, <3>1 DEF Answered, Goto, TypeOK, Deciding
    <3>2. CASE (\E next \in {"ingest", "verify", "attribute", "commit"} : Goto(h, next))
               /\ pc[h] # "commit" /\ UNCHANGED <<evt, verdict>>
      <4>1. verdict[h] = None
        BY <1>1, <3>2 DEF Inv, RequestInv
      <4> QED
        BY <1>1, <2>2, <3>2, <4>1 DEF Goto, TypeOK, Deciding, CaseState, TerminalStates
    <3>3. CASE \E s \in {None, "ESCALATED", "VERIFICATION"} : Conclude(h, s)
      BY <1>1, <2>2, <3>3 DEF Conclude, Goto, TypeOK, Deciding, CaseState, TerminalStates
    <3>4. Answered(h)
          \/ ((\E next \in {"ingest", "verify", "attribute", "commit"} : Goto(h, next))
               /\ pc[h] # "commit" /\ UNCHANGED <<evt, verdict>>)
          \/ (\E s \in {None, "ESCALATED", "VERIFICATION"} : Conclude(h, s))
      BY <1>2 DEF Handle, Failed, Outcome, Ignore, Ingest, IngestConflict, IngestCommit,
                  CorrelateTwo, CorrelateNone, Correlate, Verify, VerifyFails, OutcomeConflict,
                  Rollback
    <3> QED
      BY <3>1, <3>2, <3>3, <3>4
  <2> QED
    BY <2>1, <2>2, PaysOnceFrame
<1>3. ASSUME NEW h \in Handlers, NEW e \in Events, Receive(h, e)
      PROVE  PaysOnceInv'
  <2>1. recovered' = recovered
    BY <1>3 DEF Receive, tables
  <2>2. ASSUME NEW g \in Handlers, Deciding(g)' PROVE Deciding(g) /\ evt'[g] = evt[g]
    BY <1>1, <1>3, <2>2 DEF Receive, Goto, TypeOK, Deciding
  <2> QED
    BY <2>1, <2>2, PaysOnceFrame
<1>4. CASE \/ \E c \in Cases : System(c)
           \/ \E p \in Payments : Pay(p)
           \/ UNCHANGED vars
  <2>1. recovered' = recovered /\ UNCHANGED <<pc, evt, verdict>>
    BY <1>4 DEF System, StoreContext, BackgroundTask, OperatorTriage, MakeLink, RecordLink,
                Decide, Pay, vars, tables, request
  <2>2. ASSUME NEW g \in Handlers, Deciding(g)' PROVE Deciding(g) /\ evt'[g] = evt[g]
    BY <2>1, <2>2 DEF Deciding
  <2> QED
    BY <2>1, <2>2, PaysOnceFrame
<1>5. CASE Crash
  <2>1. recovered' = recovered /\ \A g \in Handlers : ~Deciding(g)'
    BY <1>5 DEF Crash, Deciding
  <2> QED
    BY <2>1, PaysOnceFrame
<1> QED
  BY <1>2, <1>3, <1>4, <1>5, AttributePaysOnce, CommitPaysOnce DEF Next

LEMMA PaysOnceInit == Init => PaysOnceInv
BY WebhookAssumption DEF Init, PaysOnceInv, PaymentRecoversOneCase, StillUnused, Deciding

(***************************************************************************)
(* "One payment cannot recover two cases": so it is with any number of     *)
(* concurrent requests, redeliveries and restarts, as long as no two       *)
(* requests are about to commit the same payment (services/                *)
(* webhook_service.py:642-648 reads the other cases without a lock).       *)
(***************************************************************************)
THEOREM PaymentsRecoverOnce == Spec /\ []DecidedApart => []PaymentRecoversOneCase
<1>1. Inv /\ PaysOnceInv /\ DecidedApart /\ [Next]_vars => PaysOnceInv'
  BY PaysOnceStep
<1>2. PaysOnceInv => PaymentRecoversOneCase
  BY DEF PaysOnceInv
<1> QED
  BY <1>1, <1>2, PaysOnceInit, InvHolds, PTL DEF Spec

-----------------------------------------------------------------------------
(***************************************************************************)
(* WebhookService implements RecoveryCase: every step of the service, with *)
(* any number of requests and any deliveries and restarts, is a step of    *)
(* the promise or leaves the phase, the link and the payment of every case *)
(* as they are.                                                            *)
(***************************************************************************)
PhaseIn(c) == IF c \in ingested THEN PhaseOf(row[c].state) ELSE "absent"

Phase == [c \in Cases |-> PhaseIn(c)]

(* The executor holds a row only after it has made the link of the case.   *)
LockedByExecutor == \A c \in Cases : lock[c] = Executor => c \in links

LEMMA PhasesOfStates ==
  /\ PhaseOf("FAILED_INGESTED") = "undecided"
  /\ PhaseOf("ACTION_APPROVED") = "approved"
  /\ \A s \in {"ACTION_EXECUTED", "AWAITING_PAYMENT", "VERIFICATION"} : PhaseOf(s) = "linked"
  /\ PhaseOf("RECOVERED") = "recovered"
  /\ \A s \in {"ESCALATED", "TERMINAL_NO_ACTION", "ERROR_TERMINAL"} : PhaseOf(s) = "closed"
BY DEF PhaseOf, Stage

LEMMA LockedInit == Init => LockedByExecutor
BY WebhookAssumption DEF Init, LockedByExecutor

LEMMA LockedStep == Inv /\ LockedByExecutor /\ [Next]_vars => LockedByExecutor'
<1> SUFFICES ASSUME Inv, LockedByExecutor, [Next]_vars, NEW c \in Cases, lock'[c] = Executor
             PROVE  c \in links'
  BY DEF LockedByExecutor
<1>1. lock \in [Cases -> Handlers \cup {Executor, None}] /\ links \subseteq Cases
  BY DEF Inv, TypeOK
<1>2. links \subseteq links'
  BY DEF Next, vars, gateway, Receive, Handle, Failed, Outcome, Ignore, Ingest,
         IngestConflict, IngestCommit, CorrelateTwo, CorrelateNone, Correlate, Verify,
         VerifyFails, Attribute, OutcomeConflict, OutcomeCommit, Rollback, System,
         StoreContext, BackgroundTask, OperatorTriage, Decide, MakeLink, RecordLink, Pay, Crash
<1>3. ASSUME NEW h \in Handlers, Unlock(h) PROVE lock[c] = Executor
  BY <1>1, <1>3, WebhookAssumption DEF Unlock
<1>4. ASSUME NEW h \in Handlers, NEW d \in Cases, Correlate(h, d) PROVE lock[c] = Executor
  BY <1>1, <1>4, WebhookAssumption DEF Correlate
<1>5. ASSUME NEW h \in Handlers, Handle(h) PROVE lock[c] = Executor
  BY <1>3, <1>4, <1>5 DEF Handle, Failed, Outcome, Ignore, Ingest, IngestConflict, IngestCommit,
         CorrelateTwo, CorrelateNone, Verify, VerifyFails, Attribute, OutcomeConflict,
         OutcomeCommit, Rollback, tables
<1>6. ASSUME NEW d \in Cases, MakeLink(d) PROVE lock[c] = Executor \/ c \in links'
  BY <1>1, <1>6 DEF MakeLink
<1>7. ASSUME NEW d \in Cases, RecordLink(d) PROVE lock[c] = Executor
  BY <1>1, <1>7, WebhookAssumption DEF RecordLink
<1>8. ASSUME NEW d \in Cases, System(d) PROVE lock[c] = Executor \/ c \in links'
  BY <1>6, <1>7, <1>8 DEF System, StoreContext, BackgroundTask, OperatorTriage, Decide, tables
<1>9. Crash => lock[c] = Executor
  BY <1>1, WebhookAssumption DEF Crash
<1>10. lock[c] = Executor \/ c \in links'
  BY <1>5, <1>8, <1>9 DEF Next, Receive, Pay, tables, vars
<1> QED
  BY <1>2, <1>10 DEF LockedByExecutor

(* What the promise sees of a step that leaves all it looks at alone.      *)
LEMMA Unseen ==
  ASSUME UNCHANGED <<row, ingested, links, recovered>>
  PROVE  UNCHANGED <<Phase, links, recovered>>
BY DEF Phase, PhaseIn

LEMMA PhaseStep ==
  ASSUME NEW c \in Cases, \A d \in Cases \ {c} : PhaseIn(d)' = PhaseIn(d)
  PROVE  Phase' = [Phase EXCEPT ![c] = PhaseIn(c)']
BY DEF Phase

LEMMA DecideSeen ==
  ASSUME Inv, NEW c \in ingested, Decide(c)
  PROVE  Promise!Approve(c) \/ Promise!Close(c) \/ UNCHANGED <<Phase, links, recovered>>
<1>1. TypeOK /\ c \in Cases
  BY DEF Inv, TypeOK
<1>2. PICK s \in {"ACTION_APPROVED", "ESCALATED", "TERMINAL_NO_ACTION"} :
        row' = [row EXCEPT ![c].state = IF @ = "FAILED_INGESTED" THEN s ELSE @]
  BY DEF Decide
<1>3. UNCHANGED <<ingested, links, recovered>>
  BY DEF Decide, gateway
<1>4. \A d \in Cases \ {c} : PhaseIn(d)' = PhaseIn(d)
  BY <1>1, <1>2, <1>3 DEF PhaseIn, TypeOK
<1>5. Phase' = [Phase EXCEPT ![c] = PhaseIn(c)']
  BY <1>1, <1>4, PhaseStep
<1>6. CASE row[c].state = "FAILED_INGESTED"
  <2>1. row'[c].state = s /\ PhaseIn(c)' = PhaseOf(s) /\ PhaseIn(c) = "undecided"
    BY <1>1, <1>2, <1>3, <1>6, PhasesOfStates DEF TypeOK, Row, PhaseIn
  <2>2. PhaseIn(c)' \in {"approved", "closed"}
    BY <2>1, PhasesOfStates
  <2> QED
    BY <1>1, <1>3, <1>5, <2>1, <2>2
       DEF Promise!Approve, Promise!Close, Promise!Move, Promise!Open, Phase, PhaseIn
<1>7. CASE row[c].state # "FAILED_INGESTED"
  <2>1. row'[c].state = row[c].state
    BY <1>1, <1>2, <1>7 DEF TypeOK, Row
  <2>2. PhaseIn(c)' = PhaseIn(c)
    BY <1>3, <2>1 DEF PhaseIn
  <2> QED
    BY <1>3, <1>4, <2>2 DEF Phase
<1> QED
  BY <1>6, <1>7

LEMMA MakeLinkSeen ==
  ASSUME Inv, NEW c \in Cases, MakeLink(c)
  PROVE  Promise!MakeLink(c)
<1>1. row[c].state = "ACTION_APPROVED" /\ links' = links \cup {c} /\ CaseInv(c)
  BY DEF Inv, MakeLink
<1>2. UNCHANGED <<row, ingested, recovered>>
  BY DEF MakeLink
<1>3. c \in ingested /\ PhaseIn(c) = "approved"
  BY <1>1, PhasesOfStates DEF CaseInv, PhaseIn
<1> QED
  BY <1>1, <1>2, <1>3 DEF Promise!MakeLink, Phase, PhaseIn

LEMMA RecordLinkSeen ==
  ASSUME Inv, LockedByExecutor, NEW c \in Cases, RecordLink(c)
  PROVE  Promise!RecordLink(c) \/ Promise!Close(c)
<1>1. TypeOK /\ CaseInv(c) /\ lock[c] = Executor /\ c \in links
  BY DEF Inv, RecordLink, LockedByExecutor
<1>2. row[c].state = "ACTION_APPROVED" /\ c \in ingested
  BY <1>1 DEF CaseInv
<1>3. UNCHANGED <<ingested, links, recovered>>
  BY DEF RecordLink, gateway
<1>4. \A d \in Cases \ {c} : row'[d] = row[d]
  BY <1>1 DEF RecordLink, TypeOK
<1>5. row'[c].state \in {"ACTION_EXECUTED", "ERROR_TERMINAL"}
  BY <1>1 DEF RecordLink, TypeOK, Row
<1>6. Phase' = [Phase EXCEPT ![c] = PhaseIn(c)']
  BY <1>3, <1>4, PhaseStep DEF PhaseIn
<1>7. PhaseIn(c) = "approved" /\ PhaseIn(c)' \in {"linked", "closed"}
  BY <1>2, <1>3, <1>5, PhasesOfStates DEF PhaseIn
<1> QED
  BY <1>1, <1>3, <1>6, <1>7 DEF Promise!RecordLink, Promise!Close, Promise!Move, Promise!Open,
     Phase, PhaseIn

LEMMA IngestCommitSeen ==
  ASSUME Inv, NEW h \in Handlers, IngestCommit(h), NEW c, c = Payload[evt[h]].case
  PROVE  /\ c \in Cases
         /\ Promise!Ingest(c) \/ UNCHANGED <<Phase, links, recovered>>
<1>1. TypeOK /\ RequestInv(h) /\ pc[h] = "ingest"
  BY DEF Inv, IngestCommit
<1>2. c \in Cases
  BY <1>1 DEF RequestInv, FailedEvents
<1>3. UNCHANGED <<links, recovered>> /\ ingested' = ingested \cup {c}
  BY DEF IngestCommit, gateway
<1>4. row' = row \/ row' = [row EXCEPT ![c] = NewRow(c)]
  BY DEF IngestCommit
<1>5. \A d \in Cases \ {c} : PhaseIn(d)' = PhaseIn(d)
  BY <1>1, <1>2, <1>3, <1>4 DEF PhaseIn, TypeOK
<1>6. CASE c \in ingested
  <2>1. row' = row
    BY <1>6 DEF IngestCommit, SecondCase
  <2> QED
    BY <1>2, <1>3, <1>6, <2>1 DEF Phase, PhaseIn
<1>7. CASE c \notin ingested
  <2>1. row[c].state = "FAILED_INGESTED"
    BY <1>2, <1>7 DEF Inv, CaseInv
  <2>2. row'[c].state = "FAILED_INGESTED"
    BY <1>1, <1>2, <1>4, <2>1 DEF TypeOK, NewRow
  <2>3. PhaseIn(c) = "absent" /\ PhaseIn(c)' = "undecided"
    BY <1>3, <1>7, <2>2, PhasesOfStates DEF PhaseIn
  <2> QED
    BY <1>2, <1>3, <1>5, <2>3, PhaseStep DEF Promise!Ingest, Promise!Move, Phase, PhaseIn
<1> QED
  BY <1>2, <1>6, <1>7

LEMMA OutcomeCommitSeen ==
  ASSUME Inv, NEW h \in Handlers, OutcomeCommit(h), NEW t, t = target[h]
  PROVE  \/ UNCHANGED <<Phase, links, recovered>>
         \/ \E c \in Cases : Promise!Close(c) \/ \E p \in Payments : Promise!Recover(c, p)
<1>1. TypeOK /\ UNCHANGED <<ingested, links>>
  BY DEF Inv, OutcomeCommit, gateway
<1>2. CASE verdict[h] = None
  <2>1. UNCHANGED <<row, ingested, links, recovered>>
    <3>1. row' = row
      BY <1>2 DEF OutcomeCommit
    <3>2. recovered' = recovered
      BY <1>2, WebhookAssumption DEF OutcomeCommit, CaseState, TerminalStates
    <3> QED
      BY <1>1, <3>1, <3>2
  <2> QED
    BY <2>1, Unseen
<1>3. CASE verdict[h] # None
  <2>1. /\ Owns(h) /\ t \in Cases /\ t \in ingested
        /\ row[t].state \in {"ACTION_EXECUTED", "AWAITING_PAYMENT", "VERIFICATION"}
        /\ row' = [row EXCEPT ![t].state = verdict[h]]
    BY <1>3, OutcomeOfTarget DEF Owns
  <2>2. verdict[h] \in {"VERIFICATION", "ESCALATED", "RECOVERED"}
    BY <1>1, <1>3 DEF TypeOK
  <2>3. row'[t].state = verdict[h] /\ \A d \in Cases \ {t} : row'[d] = row[d]
    BY <1>1, <2>1 DEF TypeOK, Row
  <2>4. PhaseIn(t) = "linked"
    BY <2>1, PhasesOfStates DEF PhaseIn
  <2>5. PhaseIn(t)' = PhaseOf(verdict[h])
    BY <1>1, <2>1, <2>3 DEF PhaseIn
  <2>6. \A d \in Cases \ {t} : PhaseIn(d)' = PhaseIn(d)
    BY <1>1, <2>3 DEF PhaseIn
  <2>7. Phase' = [Phase EXCEPT ![t] = PhaseOf(verdict[h])]
    BY <2>1, <2>5, <2>6, PhaseStep
  <2>8. CASE verdict[h] = "RECOVERED"
    <3>1. recovered' = [recovered EXCEPT ![t] = Paid(h).payment]
      BY <1>3, <2>8 DEF OutcomeCommit
    <3>2. Paid(h).payment \in Payments
      BY <2>1 DEF Owns, PaidEvents
    <3>3. Promise!Recover(t, Paid(h).payment)
      BY <1>1, <2>1, <2>4, <2>7, <2>8, <3>1, PhasesOfStates
         DEF Promise!Recover, Promise!Move, Phase, PhaseIn
    <3> QED
      BY <2>1, <3>2, <3>3
  <2>9. CASE verdict[h] # "RECOVERED"
    <3>1. recovered' = recovered
      BY <2>9 DEF OutcomeCommit
    <3>2. CASE verdict[h] = "VERIFICATION"
      BY <1>1, <2>1, <2>4, <2>7, <3>1, <3>2, PhasesOfStates DEF Phase, PhaseIn
    <3>3. CASE verdict[h] = "ESCALATED"
      <4>1. Promise!Close(t)
        BY <1>1, <2>1, <2>4, <2>7, <3>1, <3>3, PhasesOfStates
           DEF Promise!Close, Promise!Move, Promise!Open, Phase, PhaseIn
      <4> QED
        BY <2>1, <4>1
    <3> QED
      BY <2>2, <2>9, <3>2, <3>3
  <2> QED
    BY <2>8, <2>9
<1> QED
  BY <1>2, <1>3

LEMMA SystemSeen ==
  ASSUME Inv, LockedByExecutor, NEW c \in Cases, System(c)
  PROVE  Promise!Next \/ UNCHANGED <<Phase, links, recovered>>
<1>1. CASE StoreContext(c)
  BY <1>1, Unseen DEF StoreContext, tables, gateway
<1>2. CASE BackgroundTask(c)
  <2>1. c \in ingested
    BY <1>2 DEF BackgroundTask, Due, Inv, CaseInv
  <2>2. CASE Decide(c)
    BY <2>1, <2>2, DecideSeen DEF Promise!Next
  <2>3. CASE ~Decide(c)
    BY <1>2, <2>3, Unseen DEF BackgroundTask, tables, gateway
  <2> QED
    BY <2>2, <2>3
<1>3. CASE OperatorTriage(c)
  BY <1>3, DecideSeen DEF OperatorTriage, Promise!Next
<1>4. CASE MakeLink(c)
  BY <1>4, MakeLinkSeen DEF Promise!Next
<1>5. CASE RecordLink(c)
  BY <1>5, RecordLinkSeen DEF Promise!Next
<1> QED
  BY <1>1, <1>2, <1>3, <1>4, <1>5 DEF System

LEMMA HandleSeen ==
  ASSUME Inv, NEW h \in Handlers, Handle(h)
  PROVE  Promise!Next \/ UNCHANGED <<Phase, links, recovered>>
<1>1. CASE IngestCommit(h)
  BY <1>1, IngestCommitSeen DEF Promise!Next
<1>2. CASE OutcomeCommit(h)
  BY <1>2, OutcomeCommitSeen DEF Promise!Next
<1>3. CASE ~IngestCommit(h) /\ ~OutcomeCommit(h)
  <2>1. UNCHANGED <<row, ingested, links, recovered>>
    BY <1>3 DEF Handle, Failed, Outcome, Ignore, Ingest, IngestConflict, CorrelateTwo,
       CorrelateNone, Correlate, Verify, VerifyFails, Attribute, OutcomeConflict, Rollback,
       tables, gateway
  <2> QED
    BY <2>1, Unseen
<1> QED
  BY <1>1, <1>2, <1>3

LEMMA NextSeen ==
  Inv /\ LockedByExecutor /\ [Next]_vars => [Promise!Next]_(Promise!promise)
<1> SUFFICES ASSUME Inv, LockedByExecutor, [Next]_vars
             PROVE  Promise!Next \/ UNCHANGED <<Phase, links, recovered>>
  BY DEF Promise!promise, Phase, PhaseIn
<1>1. ASSUME NEW h \in Handlers, NEW e \in Events, Receive(h, e)
      PROVE  UNCHANGED <<row, ingested, links, recovered>>
  BY <1>1 DEF Receive, tables, gateway
<1>2. ASSUME (\E p \in Payments : Pay(p)) \/ Crash \/ UNCHANGED vars
      PROVE  UNCHANGED <<row, ingested, links, recovered>>
  BY <1>2 DEF Pay, Crash, tables, gateway, vars
<1> QED
  BY <1>1, <1>2, Unseen, HandleSeen, SystemSeen DEF Next

(***************************************************************************)
(* The webhook service, with any number of cases, payments, concurrent     *)
(* requests, redelivered events and restarts, implements RecoveryCase.     *)
(***************************************************************************)
THEOREM ServiceKeepsPromise == Spec => KeepsPromise
<1>1. Init => Promise!Init
  BY DEF Init, Promise!Init
<1>2. Inv /\ LockedByExecutor /\ [Next]_vars => [Promise!Next]_(Promise!promise)
  BY NextSeen
<1> QED
  BY <1>1, <1>2, InvHolds, LockedInit, LockedStep, PTL DEF Spec, KeepsPromise, Promise!Spec
=============================================================================
