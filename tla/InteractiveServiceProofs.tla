---------------------- MODULE InteractiveServiceProofs ----------------------
(***************************************************************************)
(* Proofs about InteractiveService, for any number of requests, launches,  *)
(* resets and failed calls, and any amounts.                               *)
(***************************************************************************)
EXTENDS InteractiveService, TLAPS

-----------------------------------------------------------------------------
(***************************************************************************)
(* The inductive invariant: types, what is true of the case, and what a    *)
(* request has established so far.                                         *)
(***************************************************************************)
Case == [run : Nat, state : CaseState, delayed : BOOLEAN,
         amount : Int, link : Nat, paid : Nat]
Link == [run : Nat, amount : Int, paid : BOOLEAN]
Event == [from : {"none", "verify", "gateway"}, link : Nat]
Verdicts == {"none", "ACTION_APPROVED", "TERMINAL_NO_ACTION", "ESCALATED",
             "ERROR_TERMINAL", "RECOVERED", "VERIFICATION"}
PC == {"idle", "triage", "retriage", "decide", "execute", "sweep", "calling", "created",
       "fetch", "process", "check", "commit"}

TableType ==
  /\ row \in Case
  /\ lock \in Requests \cup {None}
  /\ links \in Seq(Link)
  /\ launches \in Nat

RequestType ==
  /\ pc \in [Requests -> PC]
  /\ seen \in [Requests -> Case]
  /\ event \in [Requests -> Event]
  /\ verdict \in [Requests -> Verdicts]

(* Link i was made for the case as it is now. *)
Backs(i) ==
  i \in DOMAIN links /\ links[i].run = row.run /\ links[i].amount = row.amount

IsPaid(i) == i \in DOMAIN links /\ links[i].paid

(* A case that may become RECOVERED has a link on record.                  *)
RowInv ==
  /\ row.link # 0 => Backs(row.link)
  /\ row.state = "RECOVERED" \/ CanTransition(row.state, "RECOVERED") => row.link # 0
  /\ row.state = "RECOVERED" => IsPaid(row.paid) /\ links[row.paid].amount = row.amount

(* A request that makes a link holds the row, and the case is still the    *)
(* approved one that it read.                                              *)
Executing(r) ==
  /\ pc[r] \in {"calling", "created"} =>
       lock = r /\ row.run # 0 /\ row.state = "ACTION_APPROVED" /\ row.link = 0
  /\ pc[r] = "calling" => seen[r] = row
  /\ pc[r] = "created" => Backs(Len(links))

(* A request that changes the case by an event holds the row, which may    *)
(* still become RECOVERED, and has compared the amounts.                   *)
Attributing(r) ==
  /\ pc[r] = "fetch" => seen[r].link \in DOMAIN links
  /\ pc[r] \in {"process", "check", "commit"} => IsPaid(event[r].link)
  /\ pc[r] = "check" \/ (pc[r] = "commit" /\ verdict[r] # "none") => lock = r /\ Attributable
  /\ pc[r] = "commit" /\ verdict[r] = "RECOVERED" => links[event[r].link].amount = row.amount

(* A run that decides has read a case that was still to be decided.        *)
Deciding(r) ==
  /\ pc[r] = "decide" =>
       /\ verdict[r] \in {"ACTION_APPROVED", "ESCALATED", "TERMINAL_NO_ACTION", "ERROR_TERMINAL"}
       /\ seen[r].state \in {"FAILED_INGESTED", "ACTION_APPROVED"}
  /\ pc[r] = "commit" => verdict[r] \in {"none", "RECOVERED", "ESCALATED", "VERIFICATION"}
  /\ pc[r] \notin {"decide", "commit"} => verdict[r] = "none"

RequestInv(r) == Executing(r) /\ Attributing(r) /\ Deciding(r)

Inv ==
  /\ TableType /\ RequestType
  /\ RowInv
  /\ \A r \in Requests : RequestInv(r)

-----------------------------------------------------------------------------
(***************************************************************************)
(* What a step leaves as it was.                                           *)
(***************************************************************************)

(* Links are added and paid, and otherwise never change.                   *)
LinksKept ==
  \A i \in DOMAIN links :
    /\ i \in DOMAIN links'
    /\ links'[i].run = links[i].run
    /\ links'[i].amount = links[i].amount
    /\ links[i].paid => links'[i].paid

(* Only request r, and only as a holder of the row or while nobody is one, *)
(* changes the row, adds a link or takes the lock.                         *)
StepOf(r) ==
  /\ LinksKept
  /\ lock \in {None, r} \/ (UNCHANGED <<row, lock>> /\ Len(links') = Len(links))
  /\ \A q \in Requests \ {r} :
       /\ pc'[q] = pc[q]
       /\ seen'[q] = seen[q]
       /\ event'[q] = event[q]
       /\ verdict'[q] = verdict[q]

LEMMA OthersKept ==
  ASSUME Inv, NEW r, StepOf(r), NEW q \in Requests, q # r
  PROVE  RequestInv(q)'
<1>1. q # None
  BY InteractiveAssumption
<1>2. RequestInv(q) /\ TableType
  BY DEF Inv
<1>3. lock = q => UNCHANGED <<row, lock>> /\ Len(links') = Len(links)
  BY <1>1 DEF StepOf
<1>4. /\ pc'[q] = pc[q] /\ seen'[q] = seen[q]
      /\ event'[q] = event[q] /\ verdict'[q] = verdict[q]
  BY DEF StepOf
<1>5. \A i : IsPaid(i) => IsPaid(i)' /\ links'[i].amount = links[i].amount
  BY DEF StepOf, LinksKept, IsPaid
<1>6. row' = row => \A i : Backs(i) => Backs(i)'
  BY DEF StepOf, LinksKept, Backs
<1>7. row' = row => Attributable' = Attributable
  BY DEF Attributable, Exists
<1>8. Executing(q)'
  BY <1>2, <1>3, <1>4, <1>6 DEF RequestInv, Executing
<1>9. Attributing(q)'
  <2>1. pc'[q] = "fetch" => seen'[q].link \in DOMAIN links'
    BY <1>2, <1>4 DEF RequestInv, Attributing, StepOf, LinksKept
  <2> QED
    BY <2>1, <1>2, <1>3, <1>4, <1>5, <1>7 DEF RequestInv, Attributing
<1>10. Deciding(q)'
  BY <1>2, <1>4 DEF RequestInv, Deciding
<1> QED
  BY <1>8, <1>9, <1>10 DEF RequestInv

LEMMA RowKept ==
  ASSUME Inv, LinksKept, row' = row
  PROVE  RowInv'
<1>1. RowInv
  BY DEF Inv
<1>2. \A i : IsPaid(i) => IsPaid(i)' /\ links'[i].amount = links[i].amount
  BY DEF LinksKept, IsPaid
<1>3. \A i : Backs(i) => Backs(i)'
  BY DEF LinksKept, Backs
<1> QED
  BY <1>1, <1>2, <1>3 DEF RowInv

LEMMA SameLinks == ASSUME links' = links PROVE LinksKept
BY DEF LinksKept

(* What it takes to show of one step of a request.                         *)
LEMMA StepPreserves ==
  ASSUME Inv, NEW r \in Requests, StepOf(r),
         (TableType /\ RequestType)', RowInv', RequestInv(r)'
  PROVE  Inv'
BY OthersKept DEF Inv

(* What a request knows that has not read the row.                         *)
LEMMA NoRowTyped == NoRow \in Case
BY DEF NoRow, Case, CaseState

(* A request that answers knows nothing any more.                          *)
LEMMA Answered ==
  ASSUME Inv, NEW r \in Requests, Answer(r)
  PROVE  RequestType' /\ RequestInv(r)'
<1>1. RequestType
  BY DEF Inv
<1>2. NoRow \in Case /\ NoEvent \in Event
  BY NoRowTyped DEF NoEvent, Event
<1>3. RequestType'
  BY <1>1, <1>2 DEF RequestType, Answer, Goto, ForgetRow, PC, Verdicts
<1>4. pc'[r] = "idle" /\ verdict'[r] = "none"
  BY <1>1 DEF RequestType, Answer, Goto
<1> QED
  BY <1>3, <1>4 DEF RequestInv, Executing, Attributing, Deciding

(* A step of r that touches neither row nor links.                         *)
LEMMA QuietStep ==
  ASSUME Inv, NEW r \in Requests, UNCHANGED <<row, links>>, launches' = launches,
         lock \in {None, r} \/ lock' = lock,
         lock' \in Requests \cup {None},
         RequestType', RequestInv(r)',
         \A q \in Requests \ {r} :
            /\ pc'[q] = pc[q] /\ seen'[q] = seen[q]
            /\ event'[q] = event[q] /\ verdict'[q] = verdict[q]
  PROVE  Inv'
<1>1. StepOf(r)
  BY SameLinks DEF StepOf
<1>2. TableType'
  BY DEF Inv, TableType
<1> QED
  BY <1>1, <1>2, RowKept, SameLinks, StepPreserves

LEMMA AnswerKeepsOthers ==
  ASSUME Inv, NEW r \in Requests, Answer(r)
  PROVE  \A q \in Requests \ {r} :
            /\ pc'[q] = pc[q] /\ seen'[q] = seen[q]
            /\ event'[q] = event[q] /\ verdict'[q] = verdict[q]
BY DEF Inv, RequestType, Answer, Goto, ForgetRow

LEMMA InvInit == Init => Inv
<1> SUFFICES ASSUME Init PROVE Inv
  OBVIOUS
<1>1. NoRow \in Case /\ NoEvent \in Event
  BY DEF NoRow, NoEvent, Case, Event, CaseState
<1>2. TableType /\ RequestType
  BY <1>1 DEF Init, TableType, RequestType, PC, Verdicts
<1>3. RowInv
  BY DEF Init, RowInv, NoRow, CanTransition, Transitions, TerminalStates
<1>4. \A r \in Requests : RequestInv(r)
  BY DEF Init, RequestInv, Executing, Attributing, Deciding
<1> QED
  BY <1>2, <1>3, <1>4 DEF Inv

-----------------------------------------------------------------------------
(***************************************************************************)
(* Launch and pipeline.                                                    *)
(***************************************************************************)
LEMMA NewCase ==
  ASSUME Inv, NEW a \in Int
  PROVE  [NoRow EXCEPT !.run = launches + 1, !.amount = a] \in Case
<1>1. NoRow \in Case
  BY DEF NoRow, Case, CaseState
<1>2. launches + 1 \in Nat
  BY DEF Inv, TableType
<1> QED
  BY <1>1, <1>2 DEF Case

LEMMA LaunchInv ==
  ASSUME Inv, NEW r \in Requests, Launch(r)
  PROVE  Inv'
<1> USE DEF Launch
<1>1. TableType /\ RequestType /\ RequestInv(r)
  BY DEF Inv
<1>2. StepOf(r)
  BY <1>1, SameLinks DEF StepOf, Writable, Goto, RequestType
<1>3. PICK a \in Amounts[launches + 1] :
        row' = [NoRow EXCEPT !.run = launches + 1, !.amount = a]
  OBVIOUS
<1>4. a \in Int
  BY <1>1, InteractiveAssumption DEF TableType
<1>5. row' \in Case
  BY <1>3, <1>4, NewCase
<1>6. TableType' /\ RequestType'
  BY <1>1, <1>5 DEF TableType, RequestType, Goto, PC
<1>7. RowInv'
  BY <1>3 DEF RowInv, NoRow, CanTransition, Transitions, TerminalStates
<1>8. RequestInv(r)'
  BY <1>1 DEF RequestType, RequestInv, Executing, Attributing, Deciding, Goto
<1> QED
  BY <1>2, <1>6, <1>7, <1>8, StepPreserves

LEMMA OperatorTriageInv ==
  ASSUME Inv, NEW r \in Requests, OperatorTriage(r)
  PROVE  Inv'
<1> USE DEF OperatorTriage, table
<1>1. RequestType /\ TableType /\ RequestInv(r)
  BY DEF Inv
<1>2. RequestType' /\ RequestInv(r)'
  BY <1>1 DEF RequestType, RequestInv, Executing, Attributing, Deciding, Goto, PC
<1> QED
  BY <1>1, <1>2, QuietStep DEF RequestType, TableType, Goto

LEMMA TriageInv ==
  ASSUME Inv, NEW r \in Requests, Triage(r)
  PROVE  Inv'
<1> USE DEF Triage, table
<1>1. RequestType /\ TableType
  BY DEF Inv
<1>2. PICK s \in {"ACTION_APPROVED", "ESCALATED", "TERMINAL_NO_ACTION", "ERROR_TERMINAL"} :
        verdict' = [verdict EXCEPT ![r] = s]
  BY DEF Outcomes
<1>3. Goto(r, "decide") /\ ReadRow(r) /\ UNCHANGED <<event, row, links, launches, lock>>
  BY DEF counts
<1>4. row.state \in {"FAILED_INGESTED", "ACTION_APPROVED"}
  BY DEF Undecided
<1>5. RequestType'
  BY <1>1, <1>2, <1>3 DEF RequestType, TableType, Goto, ReadRow, PC, Verdicts
<1>6. pc'[r] = "decide" /\ verdict'[r] = s /\ seen'[r] = row
  BY <1>1, <1>2, <1>3 DEF RequestType, Goto, ReadRow
<1>7. RequestInv(r)'
  BY <1>4, <1>6 DEF RequestInv, Executing, Attributing, Deciding
<1>8. lock' \in Requests \cup {None}
  BY <1>1, <1>3 DEF TableType
<1> QED
  BY <1>1, <1>2, <1>3, <1>5, <1>7, <1>8, QuietStep DEF RequestType, Goto, ReadRow

LEMMA DecideInv ==
  ASSUME Inv, NEW r \in Requests, Decide(r)
  PROVE  Inv'
<1> USE DEF Decide
<1>1. TableType /\ RequestType /\ RowInv /\ RequestInv(r)
  BY DEF Inv
<1>2. CASE ~Exists(row)
  BY <1>1, <1>2, Answered, AnswerKeepsOthers, QuietStep DEF TableType, counts
<1>3. CASE Exists(row)
  <2>1. PICK late \in BOOLEAN :
          /\ row' = [row EXCEPT !.state = verdict[r], !.delayed = late]
          /\ Goto(r, IF verdict[r] = "ACTION_APPROVED" /\ ~late THEN "execute" ELSE "idle")
    BY <1>3
  <2>2. verdict[r] \in {"ACTION_APPROVED", "ESCALATED", "TERMINAL_NO_ACTION", "ERROR_TERMINAL"}
    BY <1>1 DEF RequestInv, Deciding
  <2>3. /\ verdict' = [verdict EXCEPT ![r] = "none"] /\ seen' = [seen EXCEPT ![r] = NoRow]
        /\ UNCHANGED <<event, lock, links, launches>> /\ lock = None
    BY <1>3 DEF Writable, ForgetRow, counts
  <2>4. row' \in Case /\ row'.run = row.run /\ row'.link = row.link
        /\ row'.amount = row.amount /\ row'.state = verdict[r]
    BY <1>1, <2>1, <2>2 DEF TableType, Case, CaseState, TerminalStates
  <2>5. TableType' /\ RequestType'
    <3>1. TableType'
      BY <1>1, <2>3, <2>4 DEF TableType
    <3>2. NoRow \in Case
      BY NoRowTyped
    <3>3. pc' \in [Requests -> PC]
      BY <1>1, <2>1 DEF RequestType, Goto, PC
    <3>4. verdict' \in [Requests -> Verdicts] /\ seen' \in [Requests -> Case]
      BY <1>1, <2>3, <3>2 DEF RequestType, Verdicts
    <3> QED
      BY <1>1, <2>3, <3>1, <3>3, <3>4 DEF RequestType
  <2>6. RowInv'
    BY <1>1, <2>2, <2>3, <2>4
       DEF RowInv, Backs, CanTransition, Transitions, TerminalStates
  <2>7. RequestInv(r)'
    BY <1>1, <2>1, <2>3 DEF RequestType, RequestInv, Executing, Attributing, Deciding, Goto
  <2>8. StepOf(r)
    BY <1>1, <2>1, <2>3, SameLinks DEF StepOf, RequestType, Goto
  <2> QED
    BY <2>5, <2>6, <2>7, <2>8, StepPreserves
<1> QED
  BY <1>2, <1>3

LEMMA SweepInv ==
  ASSUME Inv, NEW r \in Requests, Sweep(r)
  PROVE  Inv'
<1> USE DEF Sweep, table, counts
<1>1. RequestType /\ TableType /\ RequestInv(r)
  BY DEF Inv
<1>2. RequestType' /\ RequestInv(r)'
  BY <1>1 DEF RequestType, RequestInv, Executing, Attributing, Deciding, Goto, PC
<1> QED
  BY <1>1, <1>2, QuietStep DEF RequestType, TableType, Goto

LEMMA ExecuteRefusedInv ==
  ASSUME Inv, NEW r \in Requests, ExecuteRefused(r)
  PROVE  Inv'
<1> USE DEF ExecuteRefused
<1>1. RequestType /\ TableType /\ RowInv
  BY DEF Inv
<1>2. row' \in Case /\ row'.state = "ESCALATED" /\ row'.run = row.run
      /\ row'.link = row.link /\ row'.amount = row.amount
  BY <1>1 DEF TableType, Case, CaseState, TerminalStates
<1>3. TableType' /\ RequestType' /\ RequestInv(r)'
  BY <1>1, <1>2, Answered DEF TableType, counts
<1>4. RowInv'
  BY <1>1, <1>2 DEF RowInv, Backs, CanTransition, Transitions, TerminalStates
<1>5. StepOf(r)
  BY SameLinks, AnswerKeepsOthers DEF StepOf
<1> QED
  BY <1>3, <1>4, <1>5, StepPreserves

LEMMA ExecuteInv ==
  ASSUME Inv, NEW r \in Requests, Execute(r)
  PROVE  Inv'
<1> USE DEF Execute
<1>1. RequestType /\ TableType /\ RequestInv(r)
  BY DEF Inv
<1>2. CASE ~Executable(pc[r] = "sweep")
  BY <1>1, <1>2, Answered, AnswerKeepsOthers, QuietStep DEF TableType, counts
<1>3. CASE Executable(pc[r] = "sweep")
  <2>1. /\ lock' = r /\ ReadRow(r) /\ Goto(r, "calling") /\ lock = None
        /\ UNCHANGED <<event, verdict, row, links, launches>>
    BY <1>3 DEF counts
  <2>2. RequestType'
    BY <1>1, <2>1 DEF RequestType, TableType, Goto, ReadRow, PC
  <2>3. RequestInv(r)'
    BY <1>1, <1>3, <2>1
       DEF RequestType, RequestInv, Executing, Attributing, Deciding, Goto, ReadRow,
           Executable, Exists
  <2> QED
    BY <1>1, <2>1, <2>2, <2>3, QuietStep DEF RequestType, Goto, ReadRow
<1> QED
  BY <1>2, <1>3

(* What the executor adds at the gateway is a link for the case it holds.  *)
LEMMA LinkAdded ==
  ASSUME Inv, NEW r \in Requests, pc[r] = "calling", NewLink(r)
  PROVE  /\ links' \in Seq(Link)
         /\ LinksKept
         /\ Len(links') = Len(links) + 1
         /\ links'[Len(links')].run = row.run
         /\ links'[Len(links')].amount = row.amount
<1> DEFINE new == [run |-> seen[r].run, amount |-> seen[r].amount, paid |-> FALSE]
<1>1. links \in Seq(Link) /\ row \in Case /\ seen[r] = row
  BY DEF Inv, TableType, RequestInv, Executing
<1>2. new \in Link /\ new.run = row.run /\ new.amount = row.amount
  BY <1>1 DEF Case, Link
<1>3. links' = Append(links, new)
  BY DEF NewLink
<1> HIDE DEF new
<1>4. links' \in Seq(Link) /\ Len(links') = Len(links) + 1 /\ links'[Len(links) + 1] = new
  BY <1>1, <1>2, <1>3
<1>5. \A i \in DOMAIN links : i \in DOMAIN links' /\ links'[i] = links[i]
  BY <1>1, <1>2, <1>3
<1> QED
  BY <1>2, <1>4, <1>5 DEF LinksKept

LEMMA LinkCreatedInv ==
  ASSUME Inv, NEW r \in Requests, LinkCreated(r)
  PROVE  Inv'
<1> USE DEF LinkCreated, table, counts
<1>1. RequestType /\ TableType /\ RequestInv(r)
  BY DEF Inv
<1>2. NoRow \in Case
  BY DEF NoRow, Case, CaseState
<1>3. lock = r
  BY <1>1 DEF RequestInv, Executing
<1>4. TableType' /\ RequestType'
  BY <1>1, <1>2, LinkAdded DEF TableType, RequestType, Goto, ForgetRow, PC
<1>5. RowInv'
  BY LinkAdded, RowKept
<1>6. Backs(Len(links))'
  BY <1>4, LinkAdded DEF Backs, TableType
<1>7. RequestInv(r)'
  BY <1>1, <1>6 DEF RequestType, RequestInv, Executing, Attributing, Deciding, Goto
<1>8. StepOf(r)
  BY <1>1, <1>3, LinkAdded DEF StepOf, RequestType, Goto, ForgetRow
<1> QED
  BY <1>4, <1>5, <1>7, <1>8, StepPreserves

LEMMA LinkFailsInv ==
  ASSUME Inv, NEW r \in Requests, LinkFails(r)
  PROVE  Inv'
<1> USE DEF LinkFails
<1>1. RequestType /\ TableType /\ RequestInv(r) /\ RowInv
  BY DEF Inv
<1>2. lock = r
  BY <1>1 DEF RequestInv, Executing
<1>3. LinksKept /\ links' \in Seq(Link)
  BY <1>1, LinkAdded, SameLinks DEF TableType
<1>4. row' \in Case /\ row'.state = "ERROR_TERMINAL" /\ row'.run = row.run
      /\ row'.link = row.link /\ row'.amount = row.amount
  BY <1>1 DEF TableType, Halted, Case, CaseState, TerminalStates
<1>5. TableType' /\ RequestType' /\ RequestInv(r)'
  BY <1>1, <1>3, <1>4, Answered DEF TableType
<1>6. RowInv'
  BY <1>1, <1>3, <1>4
     DEF RowInv, Backs, LinksKept, CanTransition, Transitions, TerminalStates
<1>7. StepOf(r)
  BY <1>2, <1>3, AnswerKeepsOthers DEF StepOf
<1> QED
  BY <1>5, <1>6, <1>7, StepPreserves

LEMMA LinkRecordedInv ==
  ASSUME Inv, NEW r \in Requests, LinkRecorded(r)
  PROVE  Inv'
<1> USE DEF LinkRecorded
<1>1. RequestType /\ TableType /\ RequestInv(r)
  BY DEF Inv
<1>2. lock = r /\ Backs(Len(links))
  BY <1>1 DEF RequestInv, Executing
<1>3. row' \in Case /\ row'.state = "ACTION_EXECUTED" /\ row'.link = Len(links)
      /\ row'.run = row.run /\ row'.amount = row.amount
  <2>1. row \in Case /\ Len(links) \in Nat /\ "ACTION_EXECUTED" \in CaseState
    BY <1>1 DEF TableType, CaseState
  <2>2. row' = [row EXCEPT !.state = "ACTION_EXECUTED", !.link = Len(links)]
    OBVIOUS
  <2> QED
    BY <2>1, <2>2 DEF Case
<1>4. TableType' /\ RequestType' /\ RequestInv(r)'
  BY <1>1, <1>3, Answered DEF TableType, counts
<1>5. Backs(Len(links))' /\ Len(links) # 0
  BY <1>1, <1>2, <1>3 DEF Backs, TableType
<1>6. RowInv'
  BY <1>3, <1>5 DEF RowInv
<1>7. StepOf(r)
  BY <1>2, SameLinks, AnswerKeepsOthers DEF StepOf
<1> QED
  BY <1>4, <1>6, <1>7, StepPreserves

(***************************************************************************)
(* Steps of nobody's request.                                              *)
(***************************************************************************)
LEMMA AllKept ==
  ASSUME Inv, StepOf(None)
  PROVE  \A q \in Requests : RequestInv(q)'
BY OthersKept, InteractiveAssumption

LEMMA ResetInv ==
  ASSUME Inv, Reset
  PROVE  Inv'
<1> USE DEF Reset, request
<1>1. StepOf(None)
  BY SameLinks DEF StepOf, ResetWaits, Writable
<1>2. NoRow \in Case
  BY DEF NoRow, Case, CaseState
<1>3. TableType' /\ RequestType'
  BY <1>2 DEF Inv, TableType, RequestType
<1>4. RowInv'
  BY DEF RowInv, NoRow, CanTransition, Transitions, TerminalStates
<1> QED
  BY <1>1, <1>3, <1>4, AllKept DEF Inv

LEMMA PayInv ==
  ASSUME Inv, NEW i \in DOMAIN links, Pay(i)
  PROVE  Inv'
<1> USE DEF Pay, request, table, counts
<1>1. links \in Seq(Link)
  BY DEF Inv, TableType
<1>2. links' \in Seq(Link) /\ LinksKept /\ Len(links') = Len(links)
  <2>1. links[i] \in Link /\ links' = [links EXCEPT ![i] = [links[i] EXCEPT !.paid = TRUE]]
    BY <1>1
  <2>2. [links[i] EXCEPT !.paid = TRUE] \in Link
    BY <2>1 DEF Link
  <2>3. links' \in Seq(Link) /\ Len(links') = Len(links)
    BY <1>1, <2>1, <2>2
  <2>4. \A j \in DOMAIN links :
          j \in DOMAIN links' /\ links'[j] = IF j = i THEN [links[i] EXCEPT !.paid = TRUE]
                                           ELSE links[j]
    BY <1>1, <2>1
  <2>5. /\ [links[i] EXCEPT !.paid = TRUE].run = links[i].run
        /\ [links[i] EXCEPT !.paid = TRUE].amount = links[i].amount
        /\ [links[i] EXCEPT !.paid = TRUE].paid
    BY <2>1 DEF Link
  <2> QED
    BY <2>3, <2>4, <2>5 DEF LinksKept
<1>3. StepOf(None)
  BY <1>2 DEF StepOf
<1>4. TableType' /\ RequestType'
  BY <1>2 DEF Inv, TableType, RequestType
<1> QED
  BY <1>2, <1>3, <1>4, AllKept, RowKept DEF Inv

-----------------------------------------------------------------------------
(***************************************************************************)
(* Verification and attribution.                                           *)
(***************************************************************************)
LEMMA VerifyInv ==
  ASSUME Inv, NEW r \in Requests, Verify(r)
  PROVE  Inv'
<1> USE DEF Verify, table, counts
<1>1. RequestType /\ TableType /\ RequestInv(r) /\ RowInv
  BY DEF Inv
<1>2. row.link \in DOMAIN links
  BY <1>1 DEF RowInv, Backs
<1>3. RequestType'
  BY <1>1 DEF RequestType, TableType, Goto, ReadRow, PC
<1>4. RequestInv(r)'
  BY <1>1, <1>2
     DEF RequestType, RequestInv, Executing, Attributing, Deciding, Goto, ReadRow
<1> QED
  BY <1>1, <1>3, <1>4, QuietStep DEF RequestType, TableType, Goto, ReadRow

LEMMA VerifyProcessesInv ==
  ASSUME Inv, NEW r \in Requests, VerifyProcesses(r)
  PROVE  Inv'
<1> USE DEF VerifyProcesses, table, counts
<1>1. RequestType /\ TableType /\ RequestInv(r)
  BY DEF Inv
<1>2. NoRow \in Case /\ [from |-> "verify", link |-> seen[r].link] \in Event
  BY <1>1 DEF RequestType, NoRow, Case, CaseState, Event
<1>3. IsPaid(seen[r].link)
  BY <1>1 DEF RequestInv, Attributing, IsPaid
<1>4. RequestType'
  BY <1>1, <1>2 DEF RequestType, Goto, ForgetRow, PC
<1>5. event'[r].link = seen[r].link /\ pc'[r] = "process" /\ UNCHANGED <<links, verdict>>
  BY <1>1 DEF RequestType, Goto
<1>6. RequestInv(r)'
  BY <1>1, <1>3, <1>5 DEF RequestInv, Executing, Attributing, Deciding, IsPaid
<1> QED
  BY <1>1, <1>4, <1>6, QuietStep DEF RequestType, TableType, Goto, ForgetRow

LEMMA DeliverInv ==
  ASSUME Inv, NEW r \in Requests, NEW i \in DOMAIN links, Deliver(r, i)
  PROVE  Inv'
<1> USE DEF Deliver, table, counts
<1>1. RequestType /\ TableType /\ RequestInv(r)
  BY DEF Inv
<1>2. [from |-> "gateway", link |-> i] \in Event
  BY <1>1 DEF TableType, Event
<1>3. RequestType'
  BY <1>1, <1>2 DEF RequestType, Goto, PC
<1>4. event'[r].link = i /\ pc'[r] = "process" /\ UNCHANGED <<links, verdict>>
  BY <1>1 DEF RequestType, Goto
<1>5. RequestInv(r)'
  BY <1>1, <1>4 DEF RequestInv, Executing, Attributing, Deciding, IsPaid
<1> QED
  BY <1>1, <1>3, <1>5, QuietStep DEF RequestType, TableType, Goto

LEMMA EndsUnchangedInv ==
  ASSUME Inv, NEW r \in Requests, TriageEnds(r) \/ NotVerified(r) \/ Duplicate(r)
  PROVE  Inv'
<1>1. Answer(r) /\ UNCHANGED <<row, lock, links, launches>>
  BY DEF TriageEnds, NotVerified, Duplicate, table, counts
<1>2. TableType
  BY DEF Inv
<1> QED
  BY <1>1, <1>2, Answered, AnswerKeepsOthers, QuietStep DEF TableType

LEMMA CorrelateInv ==
  ASSUME Inv, NEW r \in Requests, Correlate(r)
  PROVE  Inv'
<1> USE DEF Correlate, counts
<1>1. RequestType /\ TableType /\ RequestInv(r)
  BY DEF Inv
<1>2. RequestType'
  BY <1>1 DEF RequestType, Goto, PC
<1>3. pc'[r] = (IF Attributable THEN "check" ELSE "commit")
      /\ UNCHANGED <<row, links, event, verdict>>
  BY <1>1 DEF RequestType, Goto
<1>4. Attributable' = Attributable /\ (Attributable => lock' = r)
  BY DEF Attributable, Exists
<1>5. verdict[r] = "none" /\ IsPaid(event[r].link)
  BY <1>1 DEF RequestInv, Attributing, Deciding
<1>6. RequestInv(r)'
  BY <1>3, <1>4, <1>5 DEF RequestInv, Executing, Attributing, Deciding, IsPaid
<1> QED
  BY <1>1, <1>2, <1>6, QuietStep DEF RequestType, TableType, Goto

LEMMA ConcludeInv ==
  ASSUME Inv, NEW r \in Requests, pc[r] = "check",
         NEW s \in {"RECOVERED", "ESCALATED", "VERIFICATION"}, Conclude(r, s),
         s = "RECOVERED" => ~WrongAmount(r)
  PROVE  Inv'
<1> USE DEF Conclude, table
<1>1. RequestType /\ TableType /\ RequestInv(r)
  BY DEF Inv
<1>2. RequestType'
  BY <1>1 DEF RequestType, Goto, PC, Verdicts
<1>3. pc'[r] = "commit" /\ verdict'[r] = s /\ UNCHANGED <<row, lock, links, event>>
  BY <1>1 DEF RequestType, Goto
<1>4. lock = r /\ Attributable /\ IsPaid(event[r].link)
  BY <1>1 DEF RequestInv, Attributing
<1>5. RequestInv(r)'
  BY <1>3, <1>4
     DEF RequestInv, Executing, Attributing, Deciding, IsPaid, Attributable, Exists, WrongAmount
<1> QED
  BY <1>1, <1>2, <1>5, QuietStep DEF RequestType, TableType, Goto

LEMMA CheckInv ==
  ASSUME Inv, NEW r \in Requests, Check(r) \/ CheckFails(r)
  PROVE  Inv'
BY ConcludeInv DEF Check, CheckFails

(* What a request with a verdict commits.                                  *)
LEMMA SettledRow ==
  ASSUME Inv, NEW r \in Requests, pc[r] = "commit", verdict[r] # "none"
  PROVE  /\ lock = r /\ Attributable
         /\ Settled(r) \in Case
         /\ Settled(r).state = verdict[r]
         /\ verdict[r] \in {"RECOVERED", "ESCALATED", "VERIFICATION"}
         /\ Settled(r).run = row.run
         /\ Settled(r).link = row.link
         /\ Settled(r).amount = row.amount
         /\ verdict[r] = "RECOVERED" =>
              /\ Settled(r).paid = event[r].link
              /\ IsPaid(event[r].link)
              /\ links[event[r].link].amount = row.amount
<1>1. RequestType /\ TableType /\ RequestInv(r)
  BY DEF Inv
<1>2. lock = r /\ Attributable
  BY <1>1 DEF RequestInv, Attributing
<1>3. verdict[r] \in {"RECOVERED", "ESCALATED", "VERIFICATION"}
  BY <1>1 DEF RequestInv, Deciding
<1>4. verdict[r] = "RECOVERED" =>
        IsPaid(event[r].link) /\ links[event[r].link].amount = row.amount
  BY <1>1 DEF RequestInv, Attributing
<1>5. CASE verdict[r] = "RECOVERED"
  <2>1. Settled(r) = [row EXCEPT !.state = "RECOVERED", !.paid = event[r].link]
    BY <1>5 DEF Settled
  <2>2. row \in Case /\ event[r].link \in Nat /\ "RECOVERED" \in CaseState
    BY <1>1 DEF TableType, RequestType, Event, CaseState, TerminalStates
  <2> QED
    BY <1>2, <1>4, <1>5, <2>1, <2>2 DEF Case
<1>6. CASE verdict[r] # "RECOVERED"
  <2>1. Settled(r) = [row EXCEPT !.state = verdict[r]]
    BY <1>3, <1>6 DEF Settled
  <2>2. row \in Case /\ verdict[r] \in CaseState
    BY <1>1, <1>3 DEF TableType, CaseState, TerminalStates
  <2> QED
    BY <1>2, <1>3, <1>6, <2>1, <2>2 DEF Case
<1> QED
  BY <1>5, <1>6

LEMMA CommitInv ==
  ASSUME Inv, NEW r \in Requests, Commit(r)
  PROVE  Inv'
<1> USE DEF Commit
<1>1. RequestType /\ TableType /\ RequestInv(r) /\ RowInv
  BY DEF Inv
<1>2. Answer(r) /\ UNCHANGED <<links, launches>> /\ lock' = Released(r)
  BY DEF counts
<1>3. RequestType' /\ RequestInv(r)'
  BY <1>2, Answered
<1>4. lock' \in Requests \cup {None} /\ (lock # r => lock' = lock)
  BY <1>1, <1>2 DEF Released, TableType
<1>5. CASE row' = row
  <2>1. StepOf(r)
    BY <1>2, <1>4, <1>5, SameLinks, AnswerKeepsOthers DEF StepOf
  <2>2. TableType'
    BY <1>1, <1>2, <1>4, <1>5 DEF TableType
  <2> QED
    BY <1>2, <1>3, <1>5, <2>1, <2>2, SameLinks, RowKept, StepPreserves
<1>6. CASE row' # row
  <2>1. verdict[r] # "none" /\ row' = Settled(r)
    BY <1>6 DEF Settled
  <2>2. /\ lock = r /\ Attributable /\ row' \in Case
        /\ row'.run = row.run /\ row'.link = row.link /\ row'.amount = row.amount
        /\ row'.state = "RECOVERED" =>
             IsPaid(row'.paid) /\ links[row'.paid].amount = row'.amount
    BY <2>1, SettledRow
  <2>3. StepOf(r)
    BY <1>2, <2>2, SameLinks, AnswerKeepsOthers DEF StepOf
  <2>4. TableType'
    BY <1>1, <1>2, <1>4, <2>2 DEF TableType
  <2>5. row'.link # 0
    BY <1>1, <2>2 DEF RowInv, Attributable
  <2>6. Backs(row.link)'
    BY <1>1, <1>2, <2>2, <2>5 DEF RowInv, Backs
  <2>7. row'.state = "RECOVERED" => (IsPaid(row.paid) /\ links[row.paid].amount = row.amount)'
    BY <1>2, <2>2 DEF IsPaid
  <2>8. RowInv'
    BY <2>5, <2>6, <2>7 DEF RowInv
  <2> QED
    BY <1>3, <2>3, <2>4, <2>8, StepPreserves
<1> QED
  BY <1>5, <1>6

LEMMA StutterInv ==
  ASSUME Inv, UNCHANGED vars
  PROVE  Inv'
<1> USE DEF vars, table, counts, request
<1>1. StepOf(None)
  BY SameLinks DEF StepOf
<1>2. TableType' /\ RequestType'
  BY DEF Inv, TableType, RequestType
<1> QED
  BY <1>1, <1>2, SameLinks, AllKept, RowKept DEF Inv

LEMMA InvStep == Inv /\ [Next]_vars => Inv'
<1> SUFFICES ASSUME Inv, [Next]_vars PROVE Inv'
  OBVIOUS
<1>1. ASSUME NEW r \in Requests, Launch(r) \/ OperatorTriage(r) PROVE Inv'
  BY <1>1, LaunchInv, OperatorTriageInv
<1>2. ASSUME NEW r \in Requests, Pipeline(r) PROVE Inv'
  BY <1>2, TriageInv, EndsUnchangedInv, DecideInv, ExecuteRefusedInv, ExecuteInv,
     LinkCreatedInv, LinkFailsInv, LinkRecordedInv DEF Pipeline
<1>3. ASSUME NEW r \in Requests, Attribution(r) PROVE Inv'
  BY <1>3, EndsUnchangedInv, VerifyProcessesInv, CorrelateInv, CheckInv, CommitInv
     DEF Attribution
<1>4. ASSUME NEW r \in Requests, Sweep(r) \/ Verify(r) PROVE Inv'
  BY <1>4, SweepInv, VerifyInv
<1>5. ASSUME NEW r \in Requests, NEW i \in DOMAIN links, Deliver(r, i) PROVE Inv'
  BY <1>5, DeliverInv
<1>6. ASSUME NEW i \in DOMAIN links, Pay(i) PROVE Inv'
  BY <1>6, PayInv
<1> QED
  BY <1>1, <1>2, <1>3, <1>4, <1>5, <1>6, ResetInv, StutterInv DEF Next, Step

THEOREM InvHolds == Spec => []Inv
BY InvInit, InvStep, PTL DEF Spec

(***************************************************************************)
(* Whatever the requests, a case counts as recovered only by a payment     *)
(* that was made, of exactly its amount, with a link on record.  It may be *)
(* a payment of an earlier launch's link.                                  *)
(***************************************************************************)
THEOREM CasesAreRecoveredByAPayment == Spec => []RecoveredByAPayment
<1>1. Inv => RecoveredByAPayment
  BY DEF Inv, RowInv, IsPaid, RecoveredByAPayment
<1> QED
  BY <1>1, InvHolds, PTL

(***************************************************************************)
(* The executor records a link for the launch it was made for, whatever    *)
(* launches and resets come between its two commits.                       *)
(***************************************************************************)
THEOREM LinksAreOfTheirLaunch == Spec => []LinkOfThisLaunch
<1>1. Inv => LinkOfThisLaunch
  BY DEF Inv, RowInv, Backs, LinkOfThisLaunch
<1> QED
  BY <1>1, InvHolds, PTL

-----------------------------------------------------------------------------
(***************************************************************************)
(* What only a stale commit can do.  No assumption is made on who launches *)
(* or triages: the commit of a run that decided on the case as it was      *)
(* before is the one step of all that takes a case out of RECOVERED or     *)
(* leaves a link without a trace.                                          *)
(***************************************************************************)
Numbered ==
  /\ row.run <= launches
  /\ \A i \in DOMAIN links : links[i].run \in 1 .. launches

(* What happens to the row of a recovered case, and to links.              *)
RowStep ==
  \/ row' = row
  \/ row.state # "RECOVERED"
  \/ row'.run # row.run

LinkStep == \A i \in DOMAIN links' : (i \in DOMAIN links => Traced(i)) => Traced(i)'

(* A step of r that changes neither the case nor its links.                *)
Kept(r) ==
  /\ row' = row /\ launches' = launches /\ DOMAIN links' = DOMAIN links
  /\ Len(links') = Len(links)
  /\ \A i \in DOMAIN links : links'[i].run = links[i].run
  /\ \A q \in Requests \ {r} : pc'[q] = pc[q]
  /\ r \in Requests => pc[r] # "created"
  /\ lock' = lock \/ lock \in {None, r}

LEMMA KeptPreserves ==
  ASSUME Inv, Numbered, NEW r, Kept(r)
  PROVE  Numbered' /\ RowStep /\ LinkStep
<1> USE DEF Kept
<1>1. Numbered'
  BY DEF Numbered
<1>2. ASSUME NEW q \in Requests, pc[q] = "created", lock = q
      PROVE  pc'[q] = "created" /\ lock' = q
  BY <1>2, InteractiveAssumption
<1>3. LinkStep
  BY <1>2 DEF LinkStep, Traced
<1> QED
  BY <1>1, <1>3 DEF RowStep

(* While nobody holds the row, no link is about to be recorded.            *)
LEMMA NobodyRecords ==
  ASSUME lock = None, NEW i, Traced(i)
  PROVE  row.run # links[i].run \/ row.link = i \/ row.state = "ERROR_TERMINAL"
BY InteractiveAssumption DEF Traced

(* A change of state of a case that nobody holds and that is not in error. *)
LEMMA StateStep ==
  ASSUME Inv, Numbered, lock = None, row.state # "ERROR_TERMINAL",
         row'.run = row.run, row'.link = row.link, UNCHANGED <<links, launches>>
  PROVE  Numbered' /\ LinkStep
<1>1. Numbered'
  BY DEF Numbered
<1>2. LinkStep
  BY NobodyRecords DEF LinkStep, Traced
<1> QED
  BY <1>1, <1>2

(* A step of a request that leaves the case as it is, but for the executor *)
(* and the commits.                                                        *)
LEMMA QuietKept ==
  ASSUME Inv, NEW r \in Requests,
         \/ OperatorTriage(r) \/ Triage(r) \/ TriageEnds(r) \/ Execute(r) \/ Sweep(r)
         \/ Verify(r) \/ NotVerified(r) \/ VerifyProcesses(r)
         \/ Duplicate(r) \/ Correlate(r) \/ Check(r) \/ CheckFails(r)
         \/ \E i \in DOMAIN links : Deliver(r, i)
  PROVE  Kept(r)
<1>1. RequestType
  BY DEF Inv
<1>2. UNCHANGED <<row, links, launches>>
  BY DEF OperatorTriage, Triage, TriageEnds, Execute, Sweep, Verify, NotVerified,
         VerifyProcesses, Duplicate, Correlate, Check, CheckFails, Conclude, Deliver, table, counts
<1>3. lock' = lock \/ lock \in {None, r}
  BY DEF OperatorTriage, Triage, TriageEnds, Execute, Sweep, Verify, NotVerified,
         VerifyProcesses, Duplicate, Correlate, Check, CheckFails, Conclude, Deliver, table, counts
<1>4. pc[r] # "created"
  BY DEF OperatorTriage, Triage, TriageEnds, Execute, Sweep, Verify, NotVerified,
         VerifyProcesses, Duplicate, Correlate, Check, CheckFails, Deliver
<1>5. \A q \in Requests \ {r} : pc'[q] = pc[q]
  BY <1>1 DEF RequestType, OperatorTriage, Triage, TriageEnds, Execute, Sweep, Verify,
         NotVerified, VerifyProcesses, Duplicate, Correlate, Check, CheckFails, Conclude, Deliver,
         Answer, Goto
<1> QED
  BY <1>2, <1>3, <1>4, <1>5 DEF Kept

LEMMA LaunchSteps ==
  ASSUME Inv, Numbered, NEW r \in Requests, Launch(r)
  PROVE  Numbered' /\ RowStep /\ LinkStep
<1>1. TableType /\ row'.run = launches + 1 /\ launches' = launches + 1 /\ links' = links
  BY DEF Inv, Launch, NoRow
<1>2. Numbered'
  BY <1>1 DEF Numbered, TableType
<1>3. \A i \in DOMAIN links' : links'[i].run # row'.run
  BY <1>1 DEF Numbered, TableType
<1>4. row'.run # row.run
  BY <1>1 DEF Numbered, TableType, Case
<1> QED
  BY <1>2, <1>3, <1>4 DEF RowStep, LinkStep, Traced

LEMMA DecideSteps ==
  ASSUME Inv, Numbered, NEW r \in Requests, Decide(r)
  PROVE  /\ Numbered'
         /\ StaleCommit \/ RowStep
         /\ StaleCommit \/ LinkStep
<1> USE DEF Decide
<1>1. RequestType /\ TableType /\ RequestInv(r)
  BY DEF Inv
<1>2. pc[r] = "decide" /\ pc'[r] # "decide" /\ \A q \in Requests \ {r} : pc'[q] = pc[q]
  BY <1>1 DEF RequestType, Goto, Answer
<1>3. UNCHANGED <<links, launches, lock>> /\ lock = None
  BY DEF counts, Writable
<1>4. CASE ~Exists(row)
  <2>1. Kept(r)
    BY <1>2, <1>3, <1>4 DEF Kept
  <2> QED
    BY <2>1, KeptPreserves
<1>5. CASE Exists(row)
  <2>1. row'.run = row.run /\ row'.link = row.link
    BY <1>1, <1>5 DEF TableType, Case
  <2>2. Numbered'
    BY <1>3, <2>1 DEF Numbered
  <2>3. CASE row # seen[r]
    BY <1>2, <2>2, <2>3 DEF StaleCommit
  <2>4. CASE row = seen[r]
    <3>1. row.state \in {"FAILED_INGESTED", "ACTION_APPROVED"}
      BY <1>1, <1>2, <2>4 DEF RequestInv, Deciding
    <3> QED
      BY <1>3, <2>1, <3>1, StateStep DEF RowStep
  <2> QED
    BY <2>3, <2>4
<1> QED
  BY <1>4, <1>5

LEMMA ExecuteRefusedSteps ==
  ASSUME Inv, Numbered, NEW r \in Requests, ExecuteRefused(r)
  PROVE  Numbered' /\ RowStep /\ LinkStep
<1>1. row.state = "ACTION_APPROVED" /\ lock = None /\ UNCHANGED <<links, launches>>
  BY DEF ExecuteRefused, Executable, counts
<1>2. row'.run = row.run /\ row'.link = row.link
  BY DEF ExecuteRefused, Inv, TableType, Case
<1> QED
  BY <1>1, <1>2, StateStep DEF RowStep

LEMMA ResetSteps ==
  ASSUME Inv, Numbered, Reset
  PROVE  Numbered' /\ RowStep /\ LinkStep
<1>1. row' = NoRow /\ row'.run = 0 /\ UNCHANGED <<links, launches>> /\ row.run # 0
  BY DEF Reset, NoRow, Exists
<1>2. Numbered'
  BY <1>1 DEF Inv, TableType, Numbered
<1>3. \A i \in DOMAIN links' : links'[i].run # row'.run
  BY <1>1 DEF Inv, TableType, Numbered
<1> QED
  BY <1>1, <1>2, <1>3 DEF RowStep, LinkStep, Traced

(* The steps of the executor.  The case it holds is approved and has no    *)
(* link: what is traced is of another run, or about to be recorded.        *)
LEMMA ExecutorSteps ==
  ASSUME Inv, Numbered, NEW r \in Requests,
         LinkCreated(r) \/ LinkFails(r) \/ LinkRecorded(r)
  PROVE  Numbered' /\ RowStep /\ LinkStep
<1>1. RequestType /\ TableType /\ RequestInv(r)
  BY DEF Inv
<1>2. lock = r /\ row.state = "ACTION_APPROVED" /\ row.run # 0 /\ row.link = 0
  BY <1>1 DEF RequestInv, Executing, LinkCreated, LinkFails, LinkRecorded
<1>3. row'.run = row.run /\ launches' = launches
  BY <1>1 DEF LinkCreated, LinkFails, LinkRecorded, Halted, TableType, Case, table, counts
<1>4. row.run \in 1 .. launches
  BY <1>1, <1>2 DEF TableType, Case, Numbered
<1>5. \A i \in DOMAIN links :
        Traced(i) => row.run # links[i].run \/ (i = Len(links) /\ pc[r] = "created")
  <2>1. 0 \notin DOMAIN links
    BY <1>1 DEF TableType
  <2> QED
    BY <1>2, <2>1 DEF Traced
<1>6. ASSUME NewLink(r), pc[r] = "calling"
      PROVE  \A i \in DOMAIN links' : i = Len(links') \/ (i \in DOMAIN links /\ links'[i] = links[i])
  <2> DEFINE new == [run |-> seen[r].run, amount |-> seen[r].amount, paid |-> FALSE]
  <2>1. links \in Seq(Link) /\ new \in Link /\ links' = Append(links, new)
    BY <1>1, <1>6 DEF NewLink, TableType, RequestType, Case, Link
  <2> HIDE DEF new
  <2> QED
    BY <2>1
<1>7. ASSUME NewLink(r), pc[r] = "calling" PROVE Numbered'
  <2>1. links'[Len(links')].run = row.run
    BY <1>7, LinkAdded
  <2> QED
    BY <1>3, <1>4, <1>6, <1>7, <2>1 DEF Numbered
<1>8. UNCHANGED links => Numbered'
  BY <1>3 DEF Numbered
<1>9. Numbered'
  BY <1>7, <1>8 DEF LinkCreated, LinkFails, LinkRecorded
<1>10. CASE LinkCreated(r)
  <2>1. pc[r] = "calling" /\ NewLink(r) /\ pc'[r] = "created" /\ lock' = r /\ row' = row
    BY <1>1, <1>2, <1>10 DEF LinkCreated, RequestType, Goto, table
  <2>2. LinkStep
    BY <1>5, <1>6, <2>1 DEF LinkStep, Traced
  <2> QED
    BY <1>2, <1>9, <2>2 DEF RowStep
<1>11. CASE LinkFails(r)
  <2>1. row'.state = "ERROR_TERMINAL"
    BY <1>1, <1>11 DEF LinkFails, Halted, TableType, Case
  <2> QED
    BY <1>2, <1>9, <2>1 DEF RowStep, LinkStep, Traced
<1>12. CASE LinkRecorded(r)
  <2>1. UNCHANGED links /\ row'.link = Len(links)
    BY <1>1, <1>12 DEF LinkRecorded, TableType, Case
  <2>2. LinkStep
    BY <1>3, <1>5, <2>1 DEF LinkStep, Traced
  <2> QED
    BY <1>2, <1>9, <2>2 DEF RowStep
<1> QED
  BY <1>10, <1>11, <1>12

LEMMA CommitSteps ==
  ASSUME Inv, Numbered, NEW r \in Requests, Commit(r)
  PROVE  Numbered' /\ RowStep /\ LinkStep
<1>1. RequestType /\ TableType
  BY DEF Inv
<1>2. pc[r] = "commit" /\ \A q \in Requests \ {r} : pc'[q] = pc[q]
  BY <1>1 DEF RequestType, Commit, Answer, Goto
<1>3. UNCHANGED <<links, launches>> /\ (lock' = lock \/ lock = r)
  BY DEF Commit, counts, Released
<1>4. CASE row' = row
  <2>1. Kept(r)
    BY <1>2, <1>3, <1>4 DEF Kept
  <2> QED
    BY <2>1, KeptPreserves
<1>5. CASE row' # row
  <2>1. verdict[r] # "none" /\ row' = Settled(r)
    BY <1>5 DEF Commit, Settled
  <2>2. lock = r /\ Attributable /\ row'.run = row.run /\ row'.link = row.link
    BY <1>2, <2>1, SettledRow
  <2>3. row.state \notin TerminalStates
    BY <2>2 DEF Attributable, CanTransition, Transitions, TerminalStates
  <2>4. \A i : Traced(i) => row.run # links[i].run \/ row.link = i
    BY <1>2, <2>2, <2>3 DEF Traced, TerminalStates
  <2>5. LinkStep
    BY <1>3, <2>2, <2>4 DEF LinkStep, Traced
  <2>6. Numbered'
    BY <1>3, <2>2 DEF Numbered
  <2> QED
    BY <2>3, <2>5, <2>6 DEF RowStep, TerminalStates
<1> QED
  BY <1>4, <1>5

LEMMA PayOrStutter ==
  ASSUME Inv, (\E i \in DOMAIN links : Pay(i)) \/ UNCHANGED vars
  PROVE  Kept(None)
<1>1. links \in Seq(Link)
  BY DEF Inv, TableType
<1>2. CASE UNCHANGED vars
  BY <1>2, InteractiveAssumption DEF Kept, vars, table, counts, request
<1>3. ASSUME NEW i \in DOMAIN links, Pay(i)
      PROVE  /\ DOMAIN links' = DOMAIN links /\ Len(links') = Len(links)
             /\ \A j \in DOMAIN links : links'[j].run = links[j].run
  <2>1. links[i] \in Link /\ links' = [links EXCEPT ![i] = [links[i] EXCEPT !.paid = TRUE]]
    BY <1>1, <1>3 DEF Pay
  <2>2. [links[i] EXCEPT !.paid = TRUE].run = links[i].run
    BY <2>1 DEF Link
  <2> QED
    BY <1>1, <2>1, <2>2
<1>4. (\E i \in DOMAIN links : Pay(i)) => UNCHANGED <<row, lock, launches, pc>>
  BY DEF Pay, table, counts, request
<1> QED
  BY <1>2, <1>3, <1>4, InteractiveAssumption DEF Kept

LEMMA NumberedInit == Init => Numbered
BY DEF Init, NoRow, Numbered

LEMMA Steps ==
  Inv /\ Numbered /\ [Next]_vars =>
    /\ Numbered'
    /\ StaleCommit \/ RowStep
    /\ StaleCommit \/ LinkStep
<1> SUFFICES ASSUME Inv, Numbered, [Next]_vars
             PROVE  Numbered' /\ (StaleCommit \/ RowStep) /\ (StaleCommit \/ LinkStep)
  OBVIOUS
<1>1. ASSUME NEW r \in Requests, Kept(r) PROVE Numbered' /\ RowStep /\ LinkStep
  BY <1>1, KeptPreserves
<1>2. ASSUME NEW r \in Requests,
             Launch(r) \/ OperatorTriage(r) \/ Sweep(r) \/ Verify(r)
               \/ \E i \in DOMAIN links : Deliver(r, i)
      PROVE  Numbered' /\ RowStep /\ LinkStep
  BY <1>1, <1>2, LaunchSteps, QuietKept
<1>3. ASSUME NEW r \in Requests, Step(r)
      PROVE  Numbered' /\ (StaleCommit \/ RowStep) /\ (StaleCommit \/ LinkStep)
  BY <1>1, <1>3, QuietKept, DecideSteps, ExecuteRefusedSteps, ExecutorSteps, CommitSteps
     DEF Step, Pipeline, Attribution
<1>4. ASSUME (\E i \in DOMAIN links : Pay(i)) \/ UNCHANGED vars
      PROVE  Numbered' /\ RowStep /\ LinkStep
  BY <1>4, PayOrStutter, KeptPreserves
<1> QED
  BY <1>2, <1>3, <1>4, ResetSteps DEF Next

(***************************************************************************)
(* Whoever launches, triages, verifies and resets, the case of a launch is *)
(* recovered once and stays so, but for a stale commit.                    *)
(***************************************************************************)
THEOREM CasesAreRecoveredOnce == Spec => RecoveredOnce
<1>1. Inv /\ Numbered /\ [Next]_vars => Numbered'
  BY Steps
<1>2. Inv /\ Numbered /\ [Next]_vars =>
        [row.state = "RECOVERED" /\ row'.run = row.run => row' = row \/ StaleCommit]_vars
  BY Steps DEF RowStep
<1> QED
  BY <1>1, <1>2, InvHolds, NumberedInit, PTL DEF Spec, RecoveredOnce

(***************************************************************************)
(* Whoever launches, triages, verifies and resets, every link leaves a     *)
(* trace when it is made, and only a stale commit wipes it out.            *)
(***************************************************************************)
THEOREM NoLinkIsForgotten == Spec => NoLinkForgotten
<1>1. Inv /\ Numbered /\ [Next]_vars => Numbered'
  BY Steps
<1>2. Inv /\ Numbered /\ [Next]_vars =>
        [\A i \in DOMAIN links' :
           (i \in DOMAIN links => Traced(i)) => Traced(i)' \/ StaleCommit]_vars
  BY Steps DEF LinkStep
<1> QED
  BY <1>1, <1>2, InvHolds, NumberedInit, PTL DEF Spec, NoLinkForgotten
=============================================================================
