-------------------------- MODULE ApartRunsProofs --------------------------
(***************************************************************************)
(* Proofs about the recovery pipeline for runs that keep apart: however    *)
(* many cases are processed at the same time by however many runs, no two  *)
(* runs are on the same case at once.  What RecoveryPipeline states of     *)
(* runs that do not overlap holds of these, and they implement             *)
(* RecoveryCase.  Nothing in the code keeps runs apart; the theorems say   *)
(* what that separation would buy.                                         *)
(***************************************************************************)
EXTENDS RecoveryPipelineProofs

(* A run that is idle, or a sweep between two of its cases, is on no case. *)
Working(w, c) == pc[w] \notin {"idle", "sweeping"} /\ cur[w] = c

Apart == \A c \in Cases : \A v, w \in Workers : Working(v, c) /\ Working(w, c) => v = w

-----------------------------------------------------------------------------
(***************************************************************************)
(* The inductive invariant.  CaseOK: what holds of the row r of a case,    *)
(* its links g at the gateway and the number f of lost runs, where held    *)
(* says that a run holds a link it has not recorded.  StageInv: what a run *)
(* may rely on at each of its stages, since nobody else is on its case.    *)
(* DraftInv: what it is going to commit.  SweepInv: the cases it has left. *)
(***************************************************************************)
Risk == {"C4", "C5"}
Early == {"FAILED_INGESTED", "CONTEXT_RETRIEVED", "ELIGIBILITY_CHECKED"}
Closing == {"ESCALATED", "TERMINAL_NO_ACTION", "ERROR_TERMINAL"}
Reached == Early \cup {"ACTION_APPROVED", "ACTION_EXECUTED"} \cup Closing
Decided == {"ELIGIBILITY_CHECKED", "ACTION_APPROVED", "ACTION_EXECUTED"}

MoneyOf(r) == [amount |-> r.amount, currency |-> r.currency]

Due(r) ==
  /\ r.state \notin Early
  /\ r.policy = "P_CREATE_LINK_DELAYED"
  /\ r.scheduled <= now

CaseOK(r, g, f, held) ==
  /\ r.state \in Reached
  /\ r.category \in {"NULL", r.cause}
  /\ r.state = "FAILED_INGESTED" => r.category = "NULL"
  /\ r.state \in Decided \/ g # <<>> => r.category = r.cause /\ r.cause \notin Risk
  /\ r.state \in Early => g = <<>>
  /\ r.state = "ACTION_EXECUTED" <=> r.link # 0
  /\ r.link # 0 => r.link \in 1 .. Len(g) /\ g[r.link] = MoneyOf(r)
  /\ r.state = "ACTION_APPROVED" => r.policy \in LinkPolicies
  /\ Len(g) <= 1 + f
  /\ r.state = "ACTION_APPROVED" /\ ~held => Len(g) <= f

CaseInv(c) == CaseOK(row[c], gateway[c], failures, Creators(c) # {})

Looking == {"enrich", "enriched", "classify", "classified", "assess", "count", "assessed"}
Classified == {"assess", "count", "assessed"}
Proposing == {"agent", "propose", "proposed"}
Executing == {"execute", "calling", "created"}
Holding == {"enriched", "classified", "count", "assessed", "proposed", "calling", "created"}

StageInv(w) ==
  LET r == row[cur[w]]
  IN  /\ pc[w] \in Holding => seen[w] = r
      /\ pc[w] \in Looking => r.state \notin Settled
      /\ pc[w] \in {"classify", "classified"} \cup Classified => r.state # "FAILED_INGESTED"
      /\ pc[w] \in Classified => r.category = r.cause
      /\ pc[w] = "enriched" => r.state = "FAILED_INGESTED"
      /\ pc[w] \in Proposing => r.state = "ELIGIBILITY_CHECKED"
      /\ pc[w] \in Executing =>
           IF delayed[w] THEN Due(r)
           ELSE r.state = "ACTION_APPROVED" /\ r.policy = "P_CREATE_LINK_IMMEDIATE"

(* The rows that enrichment, verdict and proposal make of a row r.         *)
EnrichmentOf(r, d) ==
  /\ d.state \in {"CONTEXT_RETRIEVED", "ERROR_TERMINAL"}
  /\ d.category = r.category /\ d.link = r.link

VerdictOn(r, d) ==
  /\ d = [r EXCEPT !.state = d.state]
  /\ TransitionAllowed(r.state, d.state)
  /\ d.state \in {"ELIGIBILITY_CHECKED", "ESCALATED", "TERMINAL_NO_ACTION"}
  /\ d.state = "ELIGIBILITY_CHECKED" => r.category \notin Risk

ProposalFor(r, d) ==
  /\ d = [r EXCEPT !.state = d.state, !.policy = d.policy, !.scheduled = d.scheduled]
  /\ d.state \in {"ACTION_APPROVED", "ESCALATED", "TERMINAL_NO_ACTION"}
  /\ d.state = "ACTION_APPROVED" <=> d.policy \in LinkPolicies

RecordOf(r, g, d) ==
  /\ d = [r EXCEPT !.link = Len(g), !.state = "ACTION_EXECUTED"]
  /\ g # <<>> /\ g[Len(g)] = MoneyOf(r)

DraftInv(w) ==
  LET r == row[cur[w]]
      d == draft[w]
  IN  /\ pc[w] = "enriched" => EnrichmentOf(r, d)
      /\ pc[w] = "classified" => d = [r EXCEPT !.category = r.cause]
      /\ pc[w] = "assessed" => VerdictOn(r, d)
      /\ pc[w] = "proposed" => ProposalFor(r, d)
      /\ pc[w] = "created" => RecordOf(r, gateway[cur[w]], d)

SweepInv(w) ==
  /\ delayed[w] => pc[w] \in {"sweeping"} \cup Executing
  /\ pc[w] = "sweeping" => delayed[w]
  /\ ~delayed[w] => sweep[w] = {}
  /\ \A c \in sweep[w] : Due(row[c])

RunInv(w) == StageInv(w) /\ DraftInv(w) /\ SweepInv(w)

ApartInv == (\A c \in Cases : CaseInv(c)) /\ (\A w \in Workers : RunInv(w))

-----------------------------------------------------------------------------
(***************************************************************************)
(* What becomes of a row that one run works on.                            *)
(***************************************************************************)

(* A commit of what was read a moment ago writes the draft.                *)
LEMMA FlushFresh ==
  ASSUME NEW old \in Row, NEW new \in Row
  PROVE  Flush(old, new, old) = new
<1>1. new = [state |-> new.state, policy |-> new.policy, category |-> new.category,
             cause |-> new.cause, amount |-> new.amount, currency |-> new.currency,
             link |-> new.link, scheduled |-> new.scheduled]
  BY DEF Row
<1>2. \A a, b : Column(a, b, a) = b
  BY DEF Column
<1> QED
  BY <1>1, <1>2 DEF Flush

LEMMA EnrichmentOK ==
  ASSUME NEW r, NEW g, NEW f \in Nat, NEW held, NEW d, CaseOK(r, g, f, held),
         r.state = "FAILED_INGESTED", EnrichmentOf(r, d)
  PROVE  CaseOK(d, g, f, held)
<1>1. Len(<<>>) = 0
  OBVIOUS
<1> QED
  BY <1>1 DEF CaseOK, EnrichmentOf, Early, Closing, Reached, Decided

LEMMA ClassificationOK ==
  ASSUME NEW r \in Row, NEW g, NEW f \in Nat, NEW held, NEW d, CaseOK(r, g, f, held),
         r.state # "FAILED_INGESTED", d = [r EXCEPT !.category = r.cause]
  PROVE  CaseOK(d, g, f, held)
<1>1. /\ d.state = r.state /\ d.category = r.cause /\ d.cause = r.cause
      /\ d.link = r.link /\ d.policy = r.policy /\ MoneyOf(d) = MoneyOf(r)
  BY DEF Row, MoneyOf
<1> QED
  BY <1>1 DEF CaseOK, Decided

LEMMA VerdictOK ==
  ASSUME NEW r \in Row, NEW g, NEW f \in Nat, NEW held, NEW d, CaseOK(r, g, f, held),
         r.category = r.cause, r.state \notin Settled, VerdictOn(r, d)
  PROVE  CaseOK(d, g, f, held)
<1>1. /\ d.category = r.category /\ d.cause = r.cause
      /\ d.link = r.link /\ d.policy = r.policy /\ MoneyOf(d) = MoneyOf(r)
  BY DEF Row, MoneyOf, VerdictOn
<1>2. d.state = "ELIGIBILITY_CHECKED" => r.state = "CONTEXT_RETRIEVED"
  BY DEF VerdictOn, TransitionAllowed, CanTransition, Transitions
<1>3. /\ d.state \in {"ELIGIBILITY_CHECKED", "ESCALATED", "TERMINAL_NO_ACTION"}
      /\ d.state = "ELIGIBILITY_CHECKED" => r.category \notin Risk
  BY DEF VerdictOn
<1>4. r.link = 0 /\ r.state # "ACTION_EXECUTED"
  BY DEF CaseOK, Settled
<1>5. d.state \in Early => g = <<>>
  BY <1>2, <1>3, <1>4 DEF CaseOK, Early
<1>6. d.state \in Decided \/ g # <<>> => d.category = d.cause /\ d.cause \notin Risk
  BY <1>1, <1>3 DEF CaseOK, Decided
<1>7. Len(g) <= 1 + f
  BY DEF CaseOK
<1> QED
  BY <1>1, <1>3, <1>4, <1>5, <1>6, <1>7 DEF CaseOK, Early, Closing, Reached

LEMMA ProposalOK ==
  ASSUME NEW r \in Row, NEW g, NEW f \in Nat, NEW held, NEW d, CaseOK(r, g, f, held),
         r.state = "ELIGIBILITY_CHECKED", ProposalFor(r, d)
  PROVE  CaseOK(d, g, f, held)
<1>1. /\ d.category = r.category /\ d.cause = r.cause
      /\ d.link = r.link /\ MoneyOf(d) = MoneyOf(r)
  BY DEF Row, MoneyOf, ProposalFor
<1>2. g = <<>> /\ Len(g) = 0
  BY DEF CaseOK, Early
<1>3. /\ d.state \in {"ACTION_APPROVED", "ESCALATED", "TERMINAL_NO_ACTION"}
      /\ d.state = "ACTION_APPROVED" => d.policy \in LinkPolicies
  BY DEF ProposalFor
<1> QED
  BY <1>1, <1>2, <1>3 DEF CaseOK, Early, Closing, Reached, Decided

(* An approved case that ends without a link.                              *)
LEMMA ClosingOK ==
  ASSUME NEW r \in Row, NEW g, NEW f \in Nat, NEW held, NEW s \in Closing, NEW d,
         CaseOK(r, g, f, held), r.state = "ACTION_APPROVED", d = [r EXCEPT !.state = s]
  PROVE  CaseOK(d, g, f, held)
<1>1. /\ d.state = s /\ d.category = r.category /\ d.cause = r.cause
      /\ d.link = r.link /\ d.policy = r.policy /\ MoneyOf(d) = MoneyOf(r)
  BY DEF Row, MoneyOf
<1> QED
  BY <1>1 DEF CaseOK, Early, Closing, Reached, Decided

(* The row while its run holds a link it has yet to record, made by the    *)
(* call that appended m to the links g.                                    *)
LEMMA HeldLinkOK ==
  ASSUME NEW r \in Row, NEW g \in Seq(Money), NEW f \in Nat, NEW m \in Money,
         CaseOK(r, g, f, FALSE), r.state = "ACTION_APPROVED", r.link = 0
  PROVE  CaseOK(r, Append(g, m), f, TRUE)
<1>1. Len(Append(g, m)) = Len(g) + 1 /\ Len(g) <= f
  BY DEF CaseOK
<1> QED
  BY <1>1 DEF CaseOK, Early, Decided

(* The failed call may have made a link nevertheless.                      *)
LEMMA FailedCallOK ==
  ASSUME NEW r \in Row, NEW g \in Seq(Money), NEW f \in Nat, NEW m \in Money,
         NEW h \in {g, Append(g, m)}, NEW d, CaseOK(r, g, f, FALSE),
         r.state = "ACTION_APPROVED", d = Halted(r)
  PROVE  CaseOK(d, h, f, FALSE)
<1>1. /\ d.state = "ERROR_TERMINAL" /\ d.category = r.category /\ d.cause = r.cause
      /\ d.link = r.link /\ d.policy = r.policy /\ MoneyOf(d) = MoneyOf(r)
  BY DEF Row, MoneyOf, Halted
<1>2. Len(h) <= Len(g) + 1 /\ Len(g) <= f /\ Len(g) \in Nat /\ Len(h) \in Nat
  BY DEF CaseOK
<1>3. r.link = 0
  BY DEF CaseOK
<1> QED
  BY <1>1, <1>2, <1>3 DEF CaseOK, Early, Closing, Reached, Decided

LEMMA RecordOK ==
  ASSUME NEW r \in Row, NEW g \in Seq(Money), NEW f \in Nat, NEW held, NEW d,
         CaseOK(r, g, f, held), r.state = "ACTION_APPROVED", RecordOf(r, g, d)
  PROVE  CaseOK(d, g, f, FALSE)
<1>1. /\ d.state = "ACTION_EXECUTED" /\ d.category = r.category /\ d.cause = r.cause
      /\ d.link = Len(g) /\ d.policy = r.policy /\ MoneyOf(d) = MoneyOf(r)
  BY DEF Row, MoneyOf, RecordOf
<1>2. g # <<>> /\ g[Len(g)] = MoneyOf(r) /\ Len(g) \in Nat \ {0}
  BY DEF RecordOf
<1>3. d.category = d.cause /\ d.cause \notin Risk /\ Len(g) <= 1 + f
  BY <1>1 DEF CaseOK, Decided
<1>4. d.link \in 1 .. Len(g) /\ g[d.link] = MoneyOf(d)
  BY <1>1, <1>2
<1> QED
  BY <1>1, <1>3, <1>4 DEF CaseOK, Early, Reached

(* A lost run takes with it at most the link it held.                      *)
LEMMA LossOK ==
  ASSUME NEW r, NEW g \in Seq(Money), NEW f \in Nat, NEW held, NEW kept, CaseOK(r, g, f, held)
  PROVE  CaseOK(r, g, f + 1, kept)
BY DEF CaseOK

-----------------------------------------------------------------------------
(***************************************************************************)
(* The case of a step.  Progress: how far one step may take a row.         *)
(***************************************************************************)
Follows(s, t) ==
  \/ s = t
  \/ s = "FAILED_INGESTED" /\ t \in {"CONTEXT_RETRIEVED", "ERROR_TERMINAL"}
  \/ s = "CONTEXT_RETRIEVED" /\ t \in {"ELIGIBILITY_CHECKED", "ESCALATED", "TERMINAL_NO_ACTION"}
  \/ s = "ELIGIBILITY_CHECKED" /\ t \in {"ACTION_APPROVED", "ESCALATED", "TERMINAL_NO_ACTION"}
  \/ s = "ACTION_APPROVED" /\ t \in {"ACTION_EXECUTED"} \cup Closing

Progress(r, s) ==
  /\ Follows(r.state, s.state)
  /\ r.state \notin Early => s.policy = r.policy /\ s.scheduled = r.scheduled

(* The transitions of the state machine a verdict can make. *)
LEMMA VerdictProgress ==
  ASSUME NEW r \in Row, NEW d, r.state \in Reached \ Settled, VerdictOn(r, d)
  PROVE  Progress(r, d)
<1>1. d.policy = r.policy /\ d.scheduled = r.scheduled
  BY DEF Row, VerdictOn
<1>2. d.state \in {"ELIGIBILITY_CHECKED", "ESCALATED", "TERMINAL_NO_ACTION"}
      /\ <<r.state, d.state>> \in Transitions /\ r.state # "ERROR_TERMINAL"
  BY DEF VerdictOn, TransitionAllowed, CanTransition, IsTerminal, TerminalStates
<1>3. /\ d.state = "ELIGIBILITY_CHECKED" => r.state = "CONTEXT_RETRIEVED"
      /\ r.state # "FAILED_INGESTED"
  BY <1>2 DEF Transitions
<1>4. r.state \in {"CONTEXT_RETRIEVED", "ELIGIBILITY_CHECKED", "ACTION_APPROVED"}
  BY <1>2, <1>3 DEF Reached, Early, Closing, Settled
<1> QED
  BY <1>1, <1>2, <1>3, <1>4 DEF Progress, Follows, Closing

(* A commit of a run writes what it drafted, which is in order.            *)
LEMMA CommitOK ==
  ASSUME Inv, ApartInv, NEW w \in Workers, CommitsDraft(w), NEW c, c = cur[w]
  PROVE  /\ c \in Cases /\ row' = [row EXCEPT ![c] = draft[w]]
         /\ CaseOK(draft[w], gateway[c], failures, Creators(c) # {})
         /\ Progress(row[c], draft[w])
<1> DEFINE r == row[c]
           d == draft[w]
           OK(x) == CaseOK(x, gateway[c], failures, Creators(c) # {})
<1>1. c \in Cases /\ r \in Row /\ d \in Row /\ failures \in Nat /\ row \in [Cases -> Row]
  BY DEF Inv, TypeInv, CaseType, RunType, OnCase, CommitsDraft
<1>2. OK(r) /\ RunInv(w) /\ seen[w] = r
  BY <1>1 DEF ApartInv, CaseInv, RunInv, StageInv, Holding, CommitsDraft
<1>3. row' = [row EXCEPT ![c] = d]
  BY <1>1, <1>2, FlushFresh DEF CommitsDraft, Commit
<1>4. CASE pc[w] = "enriched"
  <2>1. r.state = "FAILED_INGESTED" /\ EnrichmentOf(r, d)
    BY <1>2, <1>4 DEF RunInv, StageInv, DraftInv
  <2>2. OK(d)
    BY <1>1, <1>2, <2>1, EnrichmentOK
  <2>3. Progress(r, d)
    BY <2>1 DEF EnrichmentOf, Progress, Follows, Early
  <2> QED
    BY <1>1, <1>3, <2>2, <2>3
<1>5. CASE pc[w] = "classified"
  <2>1. r.state # "FAILED_INGESTED" /\ d = [r EXCEPT !.category = r.cause]
    BY <1>2, <1>5 DEF RunInv, StageInv, DraftInv
  <2>2. OK(d)
    BY <1>1, <1>2, <2>1, ClassificationOK
  <2>3. Progress(r, d)
    BY <1>1, <2>1 DEF Row, Progress, Follows
  <2> QED
    BY <1>1, <1>3, <2>2, <2>3
<1>6. CASE pc[w] = "assessed"
  <2>1. r.category = r.cause /\ r.state \notin Settled /\ VerdictOn(r, d)
    BY <1>2, <1>6 DEF RunInv, StageInv, DraftInv, Looking, Classified
  <2>2. OK(d)
    BY <1>1, <1>2, <2>1, VerdictOK
  <2>3. Progress(r, d)
    BY <1>1, <1>2, <2>1, VerdictProgress DEF CaseOK
  <2> QED
    BY <1>1, <1>3, <2>2, <2>3
<1>7. CASE pc[w] = "proposed"
  <2>1. r.state = "ELIGIBILITY_CHECKED" /\ ProposalFor(r, d)
    BY <1>2, <1>7 DEF RunInv, StageInv, DraftInv, Proposing
  <2>2. OK(d)
    BY <1>1, <1>2, <2>1, ProposalOK
  <2>3. Progress(r, d)
    <3>1. d.state \in {"ACTION_APPROVED", "ESCALATED", "TERMINAL_NO_ACTION"}
      BY <2>1 DEF ProposalFor
    <3> QED
      BY <2>1, <3>1 DEF Progress, Follows, Early
  <2> QED
    BY <1>1, <1>3, <2>2, <2>3
<1> QED
  BY <1>4, <1>5, <1>6, <1>7 DEF CommitsDraft

LEMMA OnlyLinkCreatedHolds ==
  ASSUME Inv, NEW w \in Workers, RunStep(w), pc'[w] = "created"
  PROVE  LinkCreated(w)
<1>1. ~ExecuteBegins(w)
  BY DEF Inv, TypeInv, RunType, ExecuteBegins, Goto
<1> QED
  BY <1>1, OnlyExecuteEnters DEF Inv, InExecutor

(* A run takes or drops an unrecorded link of the case it is on only.      *)
LEMMA HoldersElsewhere ==
  ASSUME Inv, NEW w \in Workers, RunStep(w), NEW c,
         c # cur[w] \/ (pc[w] # "created" /\ ~LinkCreated(w))
  PROVE  Creators(c)' = Creators(c)
<1>1. OthersUntouched(w)
  BY RunStepIsLocal DEF Inv, ExecutorInv
<1>2. pc'[w] = "created" => LinkCreated(w) /\ cur'[w] = cur[w]
  BY OnlyLinkCreatedHolds DEF LinkCreated
<1> QED
  BY <1>1, <1>2 DEF Creators, OthersUntouched

LEMMA CaseKept ==
  ASSUME NEW c \in Cases, CaseInv(c), row'[c] = row[c], gateway'[c] = gateway[c],
         failures' = failures, Creators(c)' = Creators(c)
  PROVE  CaseInv(c)' /\ Progress(row[c], row'[c])
BY DEF CaseInv, Progress, Follows

(* Which steps change a row, a list of links or the count of lost runs.    *)
LEMMA RunStepKinds ==
  ASSUME Inv, NEW w \in Workers, RunStep(w)
  PROVE  \/ CommitsDraft(w) /\ ~LinkCreated(w) /\ UNCHANGED <<gateway, failures>>
         \/ ExecuteRefused(w)
         \/ LinkCreated(w)
         \/ LinkCallFails(w)
         \/ LinkRecorded(w)
         \/ Fail(w)
         \/ pc[w] # "created" /\ ~LinkCreated(w) /\ UNCHANGED <<row, gateway, failures>>
<1>1. ASSUME Triage(w) \/ Agent(w)
      PROVE  \/ CommitsDraft(w) /\ UNCHANGED <<gateway, failures>>
             \/ pc[w] # "created" /\ UNCHANGED <<row, gateway, failures>>
  BY <1>1 DEF Triage, SkipEnrichment, Enrich, EnrichCommit, Classify, ClassifyCommit, Assess,
     Judge, JudgeRaises, AssessCommit, Agent, AgentReads, AgentGivesUp, Propose, ProposeCommit,
     CommitsDraft, Commit, caseVars
<1>2. ASSUME Trigger(w) \/ NextDue(w) \/ ExecuteNothing(w) \/ ExecuteBegins(w) \/ AdapterRaises(w)
      PROVE  pc[w] # "created" /\ UNCHANGED <<row, gateway, failures>>
  BY <1>2 DEF Trigger, WebhookTriggers, OperatorTriggers, Start, StartSweep, NextDue, MayLock,
     ExecuteNothing, ExecuteBegins, AdapterRaises, caseVars
<1> QED
  BY <1>1, <1>2 DEF RunStep, Step, Execute, CommitsDraft

(* What a run finds at the gateway call: an approved case without a link,  *)
(* whose row nobody else holds.                                            *)
LEMMA InCall ==
  ASSUME Inv, ApartInv, NEW w \in Workers, InExecutor(w), NEW c, c = cur[w]
  PROVE  /\ c \in Cases /\ seen[w] = row[c] /\ row[c] \in Row
         /\ row[c].state = "ACTION_APPROVED" /\ row[c].link = 0
         /\ row \in [Cases -> Row] /\ gateway \in [Cases -> Seq(Money)]
         /\ gateway[c] \in Seq(Money) /\ MoneyOf(row[c]) \in Money /\ failures \in Nat
         /\ CaseOK(row[c], gateway[c], failures, Creators(c) # {})
         /\ Creators(c) \subseteq {w}
<1>1. c \in Cases
  BY DEF Inv, TypeInv, RunType, OnCase, InExecutor
<1>2. row[c] \in Row /\ MoneyOf(row[c]) \in Money
  BY <1>1 DEF Inv, TypeInv, CaseType, MoneyOf, Row, Money
<1>3. lock[c] = w /\ seen[w] = row[c] /\ row[c].state = "ACTION_APPROVED" /\ row[c].link = 0
  BY DEF Inv, ExecutorInv, LockedRowIsStable
<1>4. Creators(c) \subseteq {w}
  BY <1>3 DEF Creators, Inv, ExecutorInv, LockedRowIsStable, InExecutor
<1> QED
  BY <1>1, <1>2, <1>3, <1>4 DEF ApartInv, CaseInv, Inv, TypeInv, CaseType

LEMMA LinkCreatedOK ==
  ASSUME Inv, ApartInv, NEW w \in Workers, RunStep(w), LinkCreated(w), NEW c, c = cur[w]
  PROVE  CaseInv(c)' /\ Progress(row[c], row'[c])
<1> DEFINE m == MoneyOf(row[c])
<1>1. InExecutor(w) /\ pc[w] = "calling" /\ UNCHANGED <<row, failures>> /\ cur' = cur
  BY DEF LinkCreated, InExecutor
<1>2. Creators(c) = {}
  BY <1>1, InCall DEF Creators
<1>3. CaseOK(row[c], gateway[c], failures, FALSE)
  BY <1>1, <1>2, InCall
<1>4. gateway'[c] = Append(gateway[c], m)
  BY <1>1, InCall DEF LinkCreated, NewLink, MoneyOf
<1>5. CaseOK(row[c], Append(gateway[c], m), failures, TRUE)
  BY <1>1, <1>3, InCall, HeldLinkOK
<1>6. (Creators(c)' # {}) = TRUE
  BY <1>1 DEF LinkCreated, Goto, Creators, Inv, TypeInv, RunType
<1>7. CaseInv(c)'
  BY <1>1, <1>4, <1>5, <1>6 DEF CaseInv
<1> QED
  BY <1>1, <1>7 DEF Progress, Follows

LEMMA HaltedRow ==
  ASSUME NEW r \in Row
  PROVE  /\ Halted(r) \in Row /\ Halted(r).state = "ERROR_TERMINAL"
         /\ Halted(r).policy = r.policy /\ Halted(r).scheduled = r.scheduled
BY DEF Halted, Row, CaseState, TerminalStates

LEMMA LinkCallFailsOK ==
  ASSUME Inv, ApartInv, NEW w \in Workers, RunStep(w), LinkCallFails(w), NEW c, c = cur[w]
  PROVE  /\ CaseInv(c)' /\ Progress(row[c], row'[c])
         /\ row'[c].state = "ERROR_TERMINAL"
<1> DEFINE m == MoneyOf(row[c])
<1>1. InExecutor(w) /\ pc[w] = "calling" /\ failures' = failures
  BY DEF LinkCallFails, InExecutor
<1>2. Creators(c) = {} /\ ~LinkCreated(w)
  <2>1. pc'[w] \in {"idle", "sweeping"}
    BY LeaveIsLocal DEF LinkCallFails, Inv
  <2> QED
    BY <1>1, <2>1, InCall DEF Creators, LinkCreated, Goto, Inv, TypeInv, RunType
<1>3. CaseOK(row[c], gateway[c], failures, FALSE)
  BY <1>1, <1>2, InCall
<1>4. gateway'[c] \in {gateway[c], Append(gateway[c], m)}
  BY <1>1, InCall DEF LinkCallFails, NewLink, MoneyOf
<1>5. Halted(row[c]) \in Row /\ Halted(row[c]).state = "ERROR_TERMINAL"
  BY <1>1, InCall, HaltedRow
<1>6. row'[c] = Halted(row[c])
  BY <1>1, <1>5, InCall, FlushFresh DEF LinkCallFails
<1>7. CaseOK(row'[c], gateway'[c], failures, FALSE)
  <2>1. /\ row[c] \in Row /\ row[c].state = "ACTION_APPROVED" /\ gateway[c] \in Seq(Money)
        /\ m \in Money /\ failures \in Nat
    BY <1>1, InCall
  <2> HIDE DEF m
  <2> QED
    BY <1>3, <1>4, <1>6, <2>1, FailedCallOK
<1>8. Creators(c)' = {}
  BY <1>1, <1>2, HoldersElsewhere
<1>9. CaseInv(c)'
  BY <1>1, <1>7, <1>8 DEF CaseInv
<1>10. Progress(row[c], row'[c])
  <2>1. Halted(row[c]).policy = row[c].policy /\ Halted(row[c]).scheduled = row[c].scheduled
    BY <1>1, InCall, HaltedRow
  <2> QED
    BY <1>1, <1>5, <1>6, <2>1, InCall DEF Progress, Follows, Closing
<1> QED
  BY <1>5, <1>6, <1>9, <1>10

LEMMA LinkRecordedOK ==
  ASSUME Inv, ApartInv, NEW w \in Workers, RunStep(w), LinkRecorded(w), NEW c, c = cur[w]
  PROVE  CaseInv(c)' /\ Progress(row[c], row'[c])
<1> DEFINE d == draft[w]
<1>1. InExecutor(w) /\ pc[w] = "created" /\ UNCHANGED <<gateway, failures>>
  BY DEF LinkRecorded, InExecutor
<1>2. d \in Row /\ RecordOf(row[c], gateway[c], d)
  BY <1>1 DEF ApartInv, RunInv, DraftInv, Inv, TypeInv, RunType
<1>3. row'[c] = d
  BY <1>1, <1>2, InCall, FlushFresh DEF LinkRecorded
<1>4. CaseOK(d, gateway[c], failures, FALSE)
  BY <1>1, <1>2, InCall, RecordOK
<1>5. Creators(c)' = {}
  <2>1. pc'[w] # "created" /\ OthersUntouched(w)
    BY LeaveIsLocal DEF LinkRecorded, Inv
  <2> QED
    BY <1>1, <2>1, InCall DEF Creators, OthersUntouched
<1>6. CaseInv(c)'
  BY <1>1, <1>3, <1>4, <1>5 DEF CaseInv
<1>7. Progress(row[c], d)
  <2>1. d.state = "ACTION_EXECUTED" /\ d.policy = row[c].policy /\ d.scheduled = row[c].scheduled
    BY <1>1, <1>2, InCall DEF RecordOf, Row
  <2> QED
    BY <1>1, <2>1, InCall DEF Progress, Follows
<1> QED
  BY <1>3, <1>6, <1>7

LEMMA ExecuteRefusedOK ==
  ASSUME Inv, ApartInv, NEW w \in Workers, RunStep(w), ExecuteRefused(w), NEW c, c = cur[w]
  PROVE  CaseInv(c)' /\ Progress(row[c], row'[c])
<1> DEFINE r == row[c]
<1>1. /\ c \in Cases /\ r \in Row /\ row \in [Cases -> Row] /\ failures \in Nat
      /\ r.state = "ACTION_APPROVED" /\ UNCHANGED <<gateway, failures>>
  BY DEF ExecuteRefused, MayLock, Executable, Inv, TypeInv, CaseType, RunType, OnCase
<1>2. PICK s \in {"ESCALATED", "TERMINAL_NO_ACTION"} : row' = [row EXCEPT ![c].state = s]
  BY DEF ExecuteRefused
<1>3. row'[c] = [r EXCEPT !.state = s]
  BY <1>1, <1>2
<1>4. CaseOK(row'[c], gateway[c], failures, Creators(c) # {})
  BY <1>1, <1>3, ClosingOK DEF ApartInv, CaseInv, Closing
<1>5. Creators(c)' = Creators(c)
  <2>1. pc'[w] \in {"idle", "sweeping"} /\ pc[w] = "execute"
    BY LeaveIsLocal DEF ExecuteRefused, MayLock, Inv
  <2>2. ~LinkCreated(w)
    BY <2>1 DEF LinkCreated
  <2> QED
    BY <2>1, <2>2, HoldersElsewhere
<1>6. CaseInv(c)'
  BY <1>1, <1>4, <1>5 DEF CaseInv
<1>7. Progress(r, row'[c])
  BY <1>1, <1>3 DEF Progress, Follows, Closing, Row
<1> QED
  BY <1>6, <1>7

(* The steps of one run keep every case in order.                          *)
LEMMA Elsewhere ==
  ASSUME Inv, NEW w \in Workers, RunStep(w), NEW c \in Cases, ~Working(w, c)
  PROVE  row'[c] = row[c] /\ gateway'[c] = gateway[c]
<1>1. row \in [Cases -> Row] /\ gateway \in [Cases -> Seq(Money)]
  BY DEF Inv, TypeInv, CaseType
<1>2. CASE CommitsDraft(w) /\ gateway' = gateway
  BY <1>1, <1>2 DEF CommitsDraft, Commit, Working
<1>3. CASE ExecuteRefused(w) \/ LinkRecorded(w) \/ LinkCreated(w) \/ LinkCallFails(w)
  <2>1. c # cur[w] /\ (gateway' = gateway \/ NewLink(w))
    BY <1>3 DEF ExecuteRefused, MayLock, LinkRecorded, LinkCreated, LinkCallFails, Working
  <2>2. gateway'[c] = gateway[c]
    BY <1>1, <2>1 DEF NewLink
  <2>3. row'[c] = row[c]
    BY <1>1, <1>3, <2>1 DEF ExecuteRefused, LinkRecorded, LinkCreated, LinkCallFails
  <2> QED
    BY <2>2, <2>3
<1>4. CASE Fail(w)
  BY <1>4 DEF Fail
<1> QED
  BY <1>2, <1>3, <1>4, RunStepKinds

LEMMA CaseStep ==
  ASSUME Inv, ApartInv, NEW w \in Workers, RunStep(w), NEW c \in Cases
  PROVE  CaseInv(c)' /\ Progress(row[c], row'[c])
<1>1. CaseInv(c) /\ row \in [Cases -> Row] /\ gateway[c] \in Seq(Money) /\ failures \in Nat
  BY DEF ApartInv, Inv, TypeInv, CaseType
<1>2. CASE Fail(w)
  <2>1. UNCHANGED <<row, gateway>> /\ failures' = failures + 1
    BY <1>2 DEF Fail
  <2>2. CaseOK(row[c], gateway[c], failures + 1, Creators(c)' # {})
    BY <1>1, LossOK DEF CaseInv
  <2> QED
    BY <2>1, <2>2 DEF CaseInv, Progress, Follows
<1>3. CASE c = cur[w] /\ (LinkCreated(w) \/ LinkCallFails(w) \/ LinkRecorded(w) \/ ExecuteRefused(w))
  BY <1>3, LinkCreatedOK, LinkCallFailsOK, LinkRecordedOK, ExecuteRefusedOK
<1>4. CASE c = cur[w] /\ CommitsDraft(w) /\ ~LinkCreated(w) /\ UNCHANGED <<gateway, failures>>
  <2>1. /\ row' = [row EXCEPT ![c] = draft[w]]
        /\ CaseOK(draft[w], gateway[c], failures, Creators(c) # {})
        /\ Progress(row[c], draft[w])
    BY <1>4, CommitOK
  <2>2. Creators(c)' = Creators(c)
    BY <1>4, HoldersElsewhere DEF CommitsDraft
  <2>3. row'[c] = draft[w]
    BY <1>1, <2>1
  <2> QED
    BY <1>4, <2>1, <2>2, <2>3 DEF CaseInv
<1>5. CASE c # cur[w] /\ ~Fail(w)
  <2>1. row'[c] = row[c] /\ gateway'[c] = gateway[c]
    BY <1>5, Elsewhere DEF Working
  <2>2. failures' = failures
    BY <1>5, RunStepKinds DEF ExecuteRefused, LinkCreated, LinkCallFails, LinkRecorded
  <2>3. Creators(c)' = Creators(c)
    BY <1>5, HoldersElsewhere
  <2> QED
    BY <1>1, <2>1, <2>2, <2>3, CaseKept
<1>6. CASE pc[w] # "created" /\ ~LinkCreated(w) /\ UNCHANGED <<row, gateway, failures>>
  <2>1. Creators(c)' = Creators(c)
    BY <1>6, HoldersElsewhere
  <2> QED
    BY <1>1, <1>6, <2>1, CaseKept
<1> QED
  BY <1>2, <1>3, <1>4, <1>5, <1>6, RunStepKinds

-----------------------------------------------------------------------------
(***************************************************************************)
(* The run of a step, and the others.                                      *)
(***************************************************************************)
OthersSweepUntouched(w) ==
  \A v \in Workers \ {w} : delayed'[v] = delayed[v] /\ sweep'[v] = sweep[v]

LEMMA SweepIsLocal ==
  ASSUME TypeInv, NEW w \in Workers, RunStep(w)
  PROVE  OthersSweepUntouched(w) /\ now' = now
<1> USE DEF OthersSweepUntouched
<1>1. ASSUME Finish(w) PROVE OthersSweepUntouched(w)
  BY <1>1 DEF TypeInv, RunType, Finish
<1>2. ASSUME NEW next, Proceed(w, next) PROVE OthersSweepUntouched(w)
  BY <1>2 DEF Proceed
<1>3. ASSUME Leave(w) PROVE OthersSweepUntouched(w)
  BY <1>1, <1>2, <1>3 DEF Leave
<1>4. CASE Trigger(w) \/ NextDue(w)
  BY <1>4 DEF TypeInv, RunType, Trigger, WebhookTriggers, OperatorTriggers, Start, StartSweep,
     NextDue
<1>5. CASE Triage(w)
  BY <1>1, <1>2, <1>5 DEF Triage, SkipEnrichment, Enrich, EnrichCommit, Classify, ClassifyCommit,
     Assess, Judge, JudgeRaises, AssessCommit, Commit
<1>6. CASE Agent(w)
  BY <1>1, <1>2, <1>6 DEF Agent, AgentReads, AgentGivesUp, Propose, ProposeCommit, Commit
<1>7. CASE Execute(w)
  BY <1>3, <1>7 DEF Execute, ExecuteNothing, ExecuteRefused, ExecuteBegins, AdapterRaises,
     LinkCreated, LinkCallFails, LinkRecorded
<1>8. CASE Fail(w)
  BY <1>1, <1>8 DEF Fail
<1> QED
  BY <1>4, <1>5, <1>6, <1>7, <1>8 DEF RunStep, Step

(* What is due stays due: a row past ELIGIBILITY_CHECKED keeps its policy. *)
LEMMA DueStays ==
  ASSUME NEW r, NEW s, Progress(r, s), Due(r), NEW n \in Nat, now \in Nat, now <= n, r.scheduled \in Nat
  PROVE  s.state \notin Early /\ s.policy = "P_CREATE_LINK_DELAYED" /\ s.scheduled <= n
BY DEF Progress, Follows, Due, Early, Closing

LEMMA OtherRuns ==
  ASSUME Inv, ApartInv, Apart, NEW w \in Workers, RunStep(w), NEW v \in Workers \ {w}
  PROVE  RunInv(v)'
<1>1. /\ pc'[v] = pc[v] /\ cur'[v] = cur[v] /\ seen'[v] = seen[v] /\ draft'[v] = draft[v]
      /\ delayed'[v] = delayed[v] /\ sweep'[v] = sweep[v] /\ now' = now
  BY RunStepIsLocal, SweepIsLocal DEF Inv, ExecutorInv, OthersUntouched, OthersSweepUntouched
<1>2. StageInv(v) /\ DraftInv(v) /\ SweepInv(v)
  BY DEF ApartInv, RunInv
<1>3. ASSUME pc[v] \notin {"idle", "sweeping"}
      PROVE  row'[cur[v]] = row[cur[v]] /\ gateway'[cur[v]] = gateway[cur[v]]
  <2>1. cur[v] \in Cases
    BY <1>3 DEF Inv, TypeInv, RunType, OnCase
  <2>2. ~Working(w, cur[v])
    BY <1>3, <2>1 DEF Apart, Working
  <2> QED
    BY <2>1, <2>2, Elsewhere
<1>4. StageInv(v)'
  BY <1>1, <1>2, <1>3 DEF StageInv, Holding, Looking, Classified, Proposing, Executing, Due
<1>5. DraftInv(v)'
  BY <1>1, <1>2, <1>3 DEF DraftInv
<1>6. SweepInv(v)'
  <2>1. ASSUME NEW c \in sweep[v] PROVE Due(row[c])'
    <3>1. c \in Cases /\ Due(row[c]) /\ row[c].scheduled \in Nat /\ now \in Nat
      BY <1>2, <2>1 DEF SweepInv, Inv, TypeInv, CaseType, RunType, Row
    <3>2. Progress(row[c], row'[c])
      BY <3>1, CaseStep
    <3> QED
      BY <1>1, <3>1, <3>2, DueStays DEF Due
  <2> QED
    BY <1>1, <1>2, <2>1 DEF SweepInv
<1> QED
  BY <1>4, <1>5, <1>6 DEF RunInv

LEMMA FinishedRun ==
  ASSUME Inv, NEW w \in Workers, Finish(w)
  PROVE  RunInv(w)'
<1>1. pc'[w] = "idle" /\ delayed'[w] = FALSE /\ sweep'[w] = {}
  BY DEF Inv, TypeInv, RunType, Finish, Goto
<1> QED
  BY <1>1 DEF RunInv, StageInv, DraftInv, SweepInv, Holding, Looking, Classified, Proposing,
     Executing

(* On a run that executes nothing, no sweep is pending. *)
LEMMA NotSweeping ==
  ASSUME ApartInv, NEW w \in Workers, pc[w] \notin {"sweeping"} \cup Executing
  PROVE  ~delayed[w] /\ sweep[w] = {}
BY DEF ApartInv, RunInv, SweepInv

(* The next stage finds the row as the one before has left it.             *)
LEMMA NextStage ==
  ASSUME Inv, ApartInv, NEW w \in Workers, pc[w] \notin {"sweeping"} \cup Executing,
         NEW next \in {"classify", "assess", "agent", "execute"}, Proceed(w, next),
         NEW s, s = row'[cur[w]],
         next \in {"classify", "assess"} => s.state \notin Settled \cup {"FAILED_INGESTED"},
         next = "assess" => s.category = s.cause,
         next = "agent" => s.state = "ELIGIBILITY_CHECKED",
         next = "execute" => s.state = "ACTION_APPROVED" /\ s.policy = "P_CREATE_LINK_IMMEDIATE"
  PROVE  RunInv(w)'
<1>1. /\ pc'[w] = next /\ cur'[w] = cur[w] /\ row'[cur'[w]] = s
      /\ delayed'[w] = FALSE /\ sweep'[w] = {}
  BY NotSweeping DEF Inv, TypeInv, RunType, Proceed, Goto
<1>2. StageInv(w)'
  BY <1>1 DEF StageInv, Holding, Looking, Classified, Proposing, Executing
<1>3. DraftInv(w)'
  BY <1>1 DEF DraftInv
<1>4. SweepInv(w)'
  BY <1>1 DEF SweepInv, Executing
<1> QED
  BY <1>2, <1>3, <1>4 DEF RunInv

(* What a sweep has left stays due, whatever the step does to a row. *)
LEMMA SweepStaysDue ==
  ASSUME Inv, ApartInv, NEW w \in Workers, RunStep(w), NEW c \in sweep[w]
  PROVE  Due(row[c])'
<1>1. c \in Cases /\ Due(row[c]) /\ row[c].scheduled \in Nat /\ now \in Nat
  BY DEF ApartInv, RunInv, SweepInv, Inv, TypeInv, CaseType, RunType, Row
<1>2. Progress(row[c], row'[c]) /\ now' = now
  BY <1>1, CaseStep, SweepIsLocal DEF Inv
<1> QED
  BY <1>1, <1>2, DueStays DEF Due

LEMMA LeftRun ==
  ASSUME Inv, ApartInv, NEW w \in Workers, RunStep(w), Leave(w)
  PROVE  RunInv(w)'
<1>1. CASE sweep[w] = {}
  BY <1>1, FinishedRun DEF Leave
<1>2. CASE sweep[w] # {}
  <2>1. pc'[w] = "sweeping" /\ delayed'[w] = delayed[w] /\ sweep'[w] = sweep[w]
    BY <1>2 DEF Leave, Proceed, Goto, Inv, TypeInv, RunType
  <2>2. delayed[w]
    BY <1>2 DEF ApartInv, RunInv, SweepInv
  <2>3. SweepInv(w)'
    BY <2>1, <2>2, SweepStaysDue DEF SweepInv
  <2>4. StageInv(w)' /\ DraftInv(w)'
    BY <2>1 DEF StageInv, DraftInv, Holding, Looking, Classified, Proposing, Executing
  <2> QED
    BY <2>3, <2>4 DEF RunInv
<1> QED
  BY <1>1, <1>2

(* A step within a stage: the row, the case and the sweep stay as they are.*)
LEMMA WithinStage ==
  ASSUME Inv, ApartInv, NEW w \in Workers, pc[w] \notin {"idle", "sweeping"} \cup Executing,
         NEW next \in {"enriched", "classified", "count", "assessed", "propose", "proposed"},
         pc'[w] = next, UNCHANGED <<row, gateway, cur, delayed, sweep>>,
         next \in Holding => seen'[w] = row[cur[w]],
         next = "enriched" => pc[w] = "enrich" /\ row[cur[w]].state = "FAILED_INGESTED"
                              /\ EnrichmentOf(row[cur[w]], draft'[w]),
         next = "classified" => pc[w] = "classify"
                                /\ draft'[w] = [row[cur[w]] EXCEPT !.category = row[cur[w]].cause],
         next = "count" => pc[w] = "assess",
         next = "assessed" => pc[w] = "count" /\ VerdictOn(row[cur[w]], draft'[w]),
         next = "propose" => pc[w] = "agent",
         next = "proposed" => pc[w] = "propose" /\ ProposalFor(row[cur[w]], draft'[w])
  PROVE  RunInv(w)'
<1>1. StageInv(w) /\ ~delayed[w] /\ sweep[w] = {}
  BY NotSweeping DEF ApartInv, RunInv
<1>2. StageInv(w)'
  BY <1>1 DEF StageInv, Holding, Looking, Classified, Proposing, Executing
<1>3. DraftInv(w)'
  BY DEF DraftInv
<1>4. SweepInv(w)'
  BY <1>1 DEF SweepInv
<1> QED
  BY <1>2, <1>3, <1>4 DEF RunInv

LEMMA TriggeredRun ==
  ASSUME Inv, ApartInv, NEW w \in Workers, Trigger(w)
  PROVE  RunInv(w)'
<1>1. ASSUME NEW c \in Cases, NEW b, Start(w, c, b) PROVE RunInv(w)'
  <2>1. /\ pc'[w] = "enrich" /\ row'[cur'[w]].state \notin Settled
        /\ ~delayed'[w] /\ sweep'[w] = {}
    BY <1>1, NotSweeping DEF Start, Goto, caseVars, Inv, TypeInv, RunType, Executing
  <2> QED
    BY <2>1 DEF RunInv, StageInv, DraftInv, SweepInv, Holding, Looking, Classified, Proposing,
       Executing
<1>2. CASE StartSweep(w)
  <2>1. pc'[w] = "sweeping" /\ delayed'[w] = TRUE /\ sweep'[w] = DueCases /\ UNCHANGED <<row, now>>
    BY <1>2 DEF StartSweep, Goto, caseVars, Inv, TypeInv, RunType
  <2>2. \A c \in DueCases : Due(row[c])
    BY DEF DueCases, IsDue, Due, Early
  <2> QED
    BY <2>1, <2>2 DEF RunInv, StageInv, DraftInv, SweepInv, Holding, Looking, Classified,
       Proposing, Executing, Due
<1> QED
  BY <1>1, <1>2 DEF Trigger, WebhookTriggers, OperatorTriggers

LEMMA NextDueRun ==
  ASSUME Inv, ApartInv, NEW w \in Workers, NextDue(w)
  PROVE  RunInv(w)'
<1>1. PICK c \in sweep[w] : /\ cur' = [cur EXCEPT ![w] = c]
                            /\ sweep' = [sweep EXCEPT ![w] = @ \ {c}]
  BY DEF NextDue
<1>2. SweepInv(w) /\ pc[w] = "sweeping"
  BY DEF NextDue, ApartInv, RunInv
<1>3. /\ pc'[w] = "execute" /\ cur'[w] = c /\ sweep'[w] = sweep[w] \ {c}
      /\ delayed'[w] = TRUE /\ UNCHANGED <<row, now>>
  BY <1>1, <1>2 DEF NextDue, SweepInv, Goto, caseVars, Inv, TypeInv, RunType
<1>4. \A d \in sweep[w] : Due(row[d])
  BY <1>2 DEF SweepInv
<1> QED
  BY <1>3, <1>4 DEF RunInv, StageInv, DraftInv, SweepInv, Holding, Looking, Classified, Proposing,
     Executing, Due

LEMMA EnrichRun ==
  ASSUME Inv, ApartInv, NEW w \in Workers, Enrich(w)
  PROVE  RunInv(w)'
<1> DEFINE r == row[cur[w]]
<1>1. r \in Row /\ pc[w] = "enrich" /\ r.state = "FAILED_INGESTED"
  BY DEF Enrich, Inv, TypeInv, CaseType, RunType, OnCase
<1>2. pc'[w] = "enriched" /\ seen'[w] = r /\ UNCHANGED <<row, gateway, cur, delayed, sweep>>
  BY DEF Enrich, Goto, Read, caseVars, Inv, TypeInv, RunType
<1>3. EnrichmentOf(r, draft'[w])
  <2>1. ASSUME NEW f \in GatewayFacts PROVE EnrichmentOf(r, Enriched(r, f))
    BY <1>1 DEF EnrichmentOf, Enriched, Row
  <2>2. ASSUME NEW s \in {"CONTEXT_RETRIEVED", "ERROR_TERMINAL"}
        PROVE  EnrichmentOf(r, [r EXCEPT !.state = s])
    BY <1>1 DEF EnrichmentOf, Row
  <2>3. \E d : Modify(w, d) /\ EnrichmentOf(r, d)
    BY <2>1, <2>2 DEF Enrich
  <2> QED
    BY <2>3 DEF Modify, Inv, TypeInv, RunType
<1> HIDE DEF r
<1> QED
  BY <1>1, <1>2, <1>3, WithinStage DEF r, Executing

(* A verdict on a case without risk, or none that leads to the agent.      *)
LEMMA JudgeRun ==
  ASSUME Inv, ApartInv, NEW w \in Workers, Judge(w)
  PROVE  RunInv(w)'
<1> DEFINE r == row[cur[w]]
<1>1. pc[w] = "count" /\ r \in Row /\ seen[w] = r
  <2>1. pc[w] = "count" /\ r \in Row
    BY DEF Judge, Inv, TypeInv, CaseType, RunType, OnCase
  <2> QED
    BY <2>1 DEF ApartInv, RunInv, StageInv, Holding
<1>2. pc'[w] = "assessed" /\ seen' = seen /\ UNCHANGED <<row, gateway, cur, delayed, sweep>>
  BY DEF Judge, Goto, caseVars, Inv, TypeInv, RunType
<1>3. draft'[w] = [r EXCEPT !.state = Verdict(w)]
  BY <1>1 DEF Judge, Modify, Inv, TypeInv, RunType
<1>4. Verdict(w) \in {"ELIGIBILITY_CHECKED", "ESCALATED", "TERMINAL_NO_ACTION"}
  BY DEF Verdict
<1>5. Verdict(w) = "ELIGIBILITY_CHECKED" => r.category \notin Risk
  BY <1>1 DEF Verdict, Evaluate, Context, Risk
<1>6. draft'[w].state = Verdict(w)
  BY <1>1, <1>3 DEF Row
<1>7. VerdictOn(r, draft'[w])
  BY <1>1, <1>3, <1>4, <1>5, <1>6 DEF VerdictOn, Judge
<1> HIDE DEF r
<1> QED
  BY <1>1, <1>2, <1>7, WithinStage DEF r, Executing

LEMMA TriageRun ==
  ASSUME Inv, ApartInv, NEW w \in Workers, Triage(w)
  PROVE  RunInv(w)'
<1> DEFINE c == cur[w]
           r == row[c]
           s == row'[c]
<1>1. c \in Cases /\ r \in Row /\ draft[w] \in Row /\ RunInv(w)
      /\ pc[w] \notin {"idle", "sweeping"} \cup Executing
  BY DEF Inv, TypeInv, CaseType, RunType, OnCase, ApartInv, Executing, Triage, SkipEnrichment,
     Enrich, EnrichCommit, Classify, ClassifyCommit, Assess, Judge, JudgeRaises, AssessCommit
<1>2. ASSUME CommitsDraft(w) PROVE s = draft[w]
  <2>1. row' = [row EXCEPT ![c] = draft[w]]
    BY <1>2, CommitOK
  <2> QED
    BY <1>1, <2>1 DEF Inv, TypeInv, CaseType
<1>3. CASE SkipEnrichment(w)
  <2>1. s = r /\ r.state \notin Settled \cup {"FAILED_INGESTED"} /\ Proceed(w, "classify")
    BY <1>1, <1>3 DEF SkipEnrichment, caseVars, RunInv, StageInv, Looking
  <2> QED
    BY <1>1, <2>1, NextStage
<1>4. CASE EnrichCommit(w)
  <2>1. s = draft[w] /\ EnrichmentOf(r, draft[w])
    BY <1>1, <1>2, <1>4 DEF EnrichCommit, CommitsDraft, RunInv, DraftInv
  <2>2. CASE draft[w].state = "ERROR_TERMINAL"
    BY <1>4, <2>2, FinishedRun DEF EnrichCommit
  <2>3. CASE draft[w].state # "ERROR_TERMINAL"
    <3>1. Proceed(w, "classify") /\ s.state = "CONTEXT_RETRIEVED"
      BY <1>4, <2>1, <2>3 DEF EnrichCommit, EnrichmentOf
    <3> QED
      BY <1>1, <3>1, NextStage DEF Settled
  <2> QED
    BY <2>2, <2>3
<1>5. CASE Classify(w)
  <2>1. /\ pc[w] = "classify" /\ pc'[w] = "classified" /\ seen'[w] = r
        /\ draft'[w] = [r EXCEPT !.category = r.cause]
        /\ UNCHANGED <<row, gateway, cur, delayed, sweep>>
    BY <1>5 DEF Classify, Read, Modify, Goto, caseVars, Inv, TypeInv, RunType
  <2> QED
    BY <1>1, <2>1, WithinStage
<1>6. CASE ClassifyCommit(w)
  <2>1. s = draft[w] /\ draft[w] = [r EXCEPT !.category = r.cause]
        /\ r.state \notin Settled \cup {"FAILED_INGESTED"} /\ Proceed(w, "assess")
    BY <1>1, <1>2, <1>6
       DEF ClassifyCommit, CommitsDraft, RunInv, StageInv, DraftInv, Looking, Classified
  <2>2. s.state = r.state /\ s.category = s.cause
    BY <1>1, <2>1 DEF Row
  <2> QED
    BY <1>1, <2>1, <2>2, NextStage
<1>7. CASE Assess(w)
  <2>1. /\ pc[w] = "assess" /\ pc'[w] = "count" /\ seen'[w] = r
        /\ UNCHANGED <<row, gateway, cur, delayed, sweep>>
    BY <1>7 DEF Assess, Read, Goto, caseVars, Inv, TypeInv, RunType
  <2> QED
    BY <1>1, <2>1, WithinStage
<1>8. CASE AssessCommit(w)
  <2>1. s = draft[w]
    BY <1>2, <1>8 DEF AssessCommit, CommitsDraft
  <2>2. CASE draft[w].state = "ELIGIBILITY_CHECKED"
    <3>1. Proceed(w, "agent") /\ s.state = "ELIGIBILITY_CHECKED"
      BY <1>8, <2>1, <2>2 DEF AssessCommit
    <3> QED
      BY <1>1, <3>1, NextStage
  <2>3. CASE draft[w].state # "ELIGIBILITY_CHECKED"
    BY <1>8, <2>3, FinishedRun DEF AssessCommit
  <2> QED
    BY <2>2, <2>3
<1> QED
  BY <1>3, <1>4, <1>5, <1>6, <1>7, <1>8, EnrichRun, JudgeRun, FinishedRun
  DEF Triage, JudgeRaises

LEMMA AgentRun ==
  ASSUME Inv, ApartInv, NEW w \in Workers, Agent(w)
  PROVE  RunInv(w)'
<1> DEFINE c == cur[w]
           r == row[c]
           s == row'[c]
<1>1. CASE AgentReads(w)
  <2>1. /\ pc[w] = "agent" /\ pc'[w] = "propose"
        /\ UNCHANGED <<row, gateway, cur, delayed, sweep>>
    BY <1>1 DEF AgentReads, Goto, caseVars, Inv, TypeInv, RunType
  <2> QED
    BY <2>1, WithinStage DEF Holding, Executing
<1>2. CASE AgentGivesUp(w)
  BY <1>2, FinishedRun DEF AgentGivesUp
<1>3. ASSUME NEW p \in Proposals, Propose(w, p) PROVE RunInv(w)'
  <2> DEFINE v == Authorization(w, p)
             d == Authorized(r, v)
  <2>1. /\ pc[w] = "propose" /\ pc'[w] = "proposed" /\ r \in Row
        /\ seen'[w] = r /\ draft'[w] = d /\ UNCHANGED <<row, gateway, cur, delayed, sweep>>
    BY <1>3 DEF Propose, Read, Modify, Goto, caseVars, Inv, TypeInv, CaseType, RunType, OnCase
  <2>2. r.state = "ELIGIBILITY_CHECKED"
    BY <2>1 DEF ApartInv, RunInv, StageInv, Proposing
  <2>3. v.policy \in Policies
    BY ValidateTyped DEF Authorization
  <2>4. ProposalFor(r, d)
    <3> HIDE DEF v
    <3>1. d.policy = v.policy
      BY <2>1 DEF Authorized, Row
    <3>2. d.state = CASE v.policy = "P_NO_ACTION"     -> "TERMINAL_NO_ACTION"
                      [] v.policy = "P_ESCALATE_ONLY" -> "ESCALATED"
                      [] OTHER -> "ACTION_APPROVED"
      BY <2>1, <2>2 DEF Authorized, Row
    <3>3. d = [r EXCEPT !.state = d.state, !.policy = d.policy, !.scheduled = d.scheduled]
      BY <2>1 DEF Authorized, Row
    <3> QED
      BY <2>3, <3>1, <3>2, <3>3 DEF ProposalFor, Policies, LinkPolicies
  <2> QED
    BY <2>1, <2>4, WithinStage DEF Executing
<1>4. CASE ProposeCommit(w)
  <2>1. /\ c \in Cases /\ row' = [row EXCEPT ![c] = draft[w]] /\ row \in [Cases -> Row]
        /\ ProposalFor(r, draft[w])
    BY <1>4, CommitOK
       DEF ProposeCommit, CommitsDraft, ApartInv, RunInv, DraftInv, Inv, TypeInv, CaseType
  <2>2. s = draft[w]
    BY <2>1
  <2>3. CASE draft[w].policy = "P_CREATE_LINK_IMMEDIATE"
    <3>1. Proceed(w, "execute") /\ s.policy = "P_CREATE_LINK_IMMEDIATE" /\ s.state = "ACTION_APPROVED"
      BY <1>4, <2>1, <2>2, <2>3 DEF ProposeCommit, ProposalFor, LinkPolicies
    <3> QED
      BY <1>4, <3>1, NextStage DEF ProposeCommit, Executing
  <2>4. CASE draft[w].policy # "P_CREATE_LINK_IMMEDIATE"
    BY <1>4, <2>4, FinishedRun DEF ProposeCommit
  <2> QED
    BY <2>3, <2>4
<1> QED
  BY <1>1, <1>2, <1>3, <1>4 DEF Agent

LEMMA ExecuteRun ==
  ASSUME Inv, ApartInv, NEW w \in Workers, RunStep(w), Execute(w)
  PROVE  RunInv(w)'
<1> DEFINE c == cur[w]
           r == row[c]
<1>1. CASE ExecuteBegins(w)
  <2>1. /\ pc[w] = "execute" /\ pc'[w] = "calling" /\ seen'[w] = r
        /\ UNCHANGED <<row, now, cur, delayed, sweep>>
    BY <1>1 DEF ExecuteBegins, MayLock, Read, Goto, Inv, TypeInv, RunType
  <2>2. StageInv(w)' /\ DraftInv(w)' /\ SweepInv(w)'
    BY <2>1 DEF ApartInv, RunInv, StageInv, DraftInv, SweepInv, Holding, Looking, Classified,
       Proposing, Executing, Due
  <2> QED
    BY <2>2 DEF RunInv
<1>2. CASE LinkCreated(w)
  <2>1. /\ pc[w] = "calling" /\ pc'[w] = "created" /\ InExecutor(w)
        /\ draft'[w] = [seen[w] EXCEPT !.link = Len(gateway[c]) + 1, !.state = "ACTION_EXECUTED"]
        /\ UNCHANGED <<row, seen, now, cur, delayed, sweep>>
    BY <1>2 DEF LinkCreated, Modify, Goto, InExecutor, Inv, TypeInv, RunType
  <2>2. seen[w] = r /\ gateway[c] \in Seq(Money) /\ MoneyOf(r) \in Money
    BY <2>1, InCall
  <2>3. gateway'[c] = Append(gateway[c], MoneyOf(r))
    BY <1>2, <2>1, InCall DEF LinkCreated, NewLink, MoneyOf
  <2>4. /\ Len(gateway'[c]) = Len(gateway[c]) + 1 /\ gateway'[c] # <<>>
        /\ gateway'[c][Len(gateway'[c])] = MoneyOf(r)
    <3> DEFINE m == MoneyOf(r)
               g == gateway[c]
    <3>1. Len(Append(g, m)) = Len(g) + 1 /\ Append(g, m)[Len(g) + 1] = m /\ Append(g, m) # <<>>
      <4> HIDE DEF m, g
      <4> QED
        BY <2>2 DEF m, g
    <3> QED
      BY <2>3, <3>1
  <2>5. RecordOf(r, gateway'[c], draft'[w])
    BY <2>1, <2>2, <2>4 DEF RecordOf
  <2>6. StageInv(w)' /\ SweepInv(w)'
    BY <2>1, <2>2 DEF ApartInv, RunInv, StageInv, SweepInv, Holding, Looking, Classified,
       Proposing, Executing, Due
  <2>7. DraftInv(w)'
    BY <2>1, <2>5 DEF DraftInv
  <2> QED
    BY <2>6, <2>7 DEF RunInv
<1> QED
  BY <1>1, <1>2, LeftRun DEF Execute, ExecuteNothing, ExecuteRefused, AdapterRaises,
     LinkCallFails, LinkRecorded

-----------------------------------------------------------------------------
(***************************************************************************)
(* ApartInv is inductive for runs that keep apart.                         *)
(***************************************************************************)
LEMMA ApartInvInit == Init => ApartInv
<1> SUFFICES ASSUME Init PROVE ApartInv
  OBVIOUS
<1>1. ASSUME NEW c \in Cases PROVE CaseInv(c)
  <2>1. PICK f \in IngestedFacts : row[c] = NewRow(f)
    BY DEF Init
  <2>2. row[c].state = "FAILED_INGESTED" /\ row[c].category = "NULL" /\ row[c].link = 0
    BY <2>1 DEF NewRow
  <2>3. gateway[c] = <<>> /\ Len(<<>>) = 0 /\ failures = 0
    BY DEF Init
  <2> QED
    BY <2>2, <2>3 DEF CaseInv, CaseOK, Reached, Early, Decided
<1>2. ASSUME NEW w \in Workers PROVE RunInv(w)
  BY DEF Init, RunInv, StageInv, DraftInv, SweepInv, Holding, Looking, Classified, Proposing,
     Executing
<1> QED
  BY <1>1, <1>2 DEF ApartInv

LEMMA ApartInvStep == Inv /\ ApartInv /\ Apart /\ [Next]_vars => ApartInv'
<1> SUFFICES ASSUME Inv, ApartInv, Apart, [Next]_vars PROVE ApartInv'
  OBVIOUS
<1>1. ASSUME NEW w \in Workers, RunStep(w) PROVE ApartInv'
  <2>1. RunInv(w)'
    BY <1>1, TriggeredRun, NextDueRun, TriageRun, AgentRun, ExecuteRun, FinishedRun
    DEF RunStep, Step, Fail
  <2>2. \A v \in Workers \ {w} : RunInv(v)'
    BY <1>1, OtherRuns
  <2> QED
    BY <1>1, <2>1, <2>2, CaseStep DEF ApartInv
<1>2. ASSUME now' \in {now, now + 1},
             UNCHANGED <<row, lock, gateway, failures, pc, cur, sweep, delayed, seen, draft>>
      PROVE  ApartInv'
  <2>1. ASSUME NEW c \in Cases, Due(row[c]) PROVE Due(row[c])'
    <3>1. row[c].scheduled \in Nat /\ now \in Nat
      BY DEF Inv, TypeInv, CaseType, Row
    <3> QED
      BY <1>2, <2>1, <3>1 DEF Due
  <2>2. ASSUME NEW c \in Cases PROVE CaseInv(c)'
    BY <1>2, <2>2 DEF ApartInv, CaseInv, Creators
  <2>3. ASSUME NEW w \in Workers PROVE RunInv(w)'
    <3>1. StageInv(w) /\ DraftInv(w) /\ SweepInv(w)
      BY <2>3 DEF ApartInv, RunInv
    <3>2. pc[w] \in Executing => cur[w] \in Cases
      BY DEF Executing, Inv, TypeInv, RunType, OnCase
    <3>3. StageInv(w)'
      BY <1>2, <2>1, <3>1, <3>2 DEF StageInv
    <3>4. DraftInv(w)'
      BY <1>2, <3>1 DEF DraftInv
    <3>5. SweepInv(w)'
      BY <1>2, <2>1, <3>1 DEF SweepInv, Inv, TypeInv, RunType
    <3> QED
      BY <3>3, <3>4, <3>5 DEF RunInv
  <2> QED
    BY <2>2, <2>3 DEF ApartInv
<1> QED
  BY <1>1, <1>2 DEF Next, RunStep, Tick, vars, caseVars, runVars

LEMMA ApartHolds == Spec /\ []Apart => [](Inv /\ ApartInv)
BY InvHolds, ApartInvInit, ApartInvStep, PTL DEF Spec

(* One worker keeps apart from itself. *)
LEMMA OneRunIsApart ==
  ASSUME \A v, w \in Workers : v = w
  PROVE  Apart
BY DEF Apart

(***************************************************************************)
(* As long as no two runs are on one case at once, the customer is asked   *)
(* for exactly the amount and the currency on record, also when the        *)
(* gateway corrected the webhook's on the way and runs died in between.    *)
(***************************************************************************)
THEOREM ApartRunsMatchCase == Spec /\ []Apart => []LinkMatchesCase
<1>1. ApartInv => LinkMatchesCase
  BY DEF ApartInv, CaseInv, CaseOK, LinkMatchesCase, MoneyOf
<1> QED
  BY <1>1, ApartHolds, PTL

(***************************************************************************)
(* As long as no two runs are on one case at once, no link exists for a    *)
(* case classified C4 or C5, although the executor's own validation does   *)
(* not know the category.                                                  *)
(***************************************************************************)
THEOREM ApartRunsAvoidRisk == Spec /\ []Apart => []NoLinkForRisk
<1>1. ApartInv => NoLinkForRisk
  BY DEF ApartInv, CaseInv, CaseOK, NoLinkForRisk, Risk
<1> QED
  BY <1>1, ApartHolds, PTL

(***************************************************************************)
(* As long as no two runs are on one case at once, a case gets a further   *)
(* link at the gateway only through a run that died holding the unrecorded *)
(* one: failed and unknown calls, repeated triggers and sweeps never lead  *)
(* to a second link.                                                       *)
(***************************************************************************)
THEOREM ApartRunsLinkOnce == Spec /\ []Apart => []OneLinkPerRunLost
<1>1. ApartInv => OneLinkPerRunLost
  BY DEF ApartInv, CaseInv, CaseOK, OneLinkPerRunLost
<1> QED
  BY <1>1, ApartHolds, PTL

(* A step is a step of one run, or it leaves the cases alone. *)
LEMMA AllProgress ==
  ASSUME Inv, ApartInv, [Next]_vars, NEW c \in Cases
  PROVE  Progress(row[c], row'[c])
<1>1. UNCHANGED row => Progress(row[c], row'[c])
  BY DEF Progress, Follows
<1> QED
  BY <1>1, NextIsRunStep, CaseStep

(* Progress is forward. *)
LEMMA ProgressIsForward ==
  ASSUME NEW r, NEW s, r.state \in Reached, Progress(r, s)
  PROVE  /\ Stage(r.state) <= Stage(s.state)
         /\ IsTerminal(r.state) => s.state = r.state
BY DEF Progress, Follows, Reached, Early, Closing, Stage, IsTerminal, TerminalStates

(***************************************************************************)
(* As long as no two runs are on one case at once, a case never moves      *)
(* backwards and never leaves a terminal state.                            *)
(***************************************************************************)
THEOREM ApartRunsGoForward == Spec /\ []Apart => ForwardOnly
<1> DEFINE Forward == \A c \in Cases :
                        /\ Stage(row[c].state) <= Stage(row'[c].state)
                        /\ IsTerminal(row[c].state) => row'[c].state = row[c].state
<1>1. Inv /\ ApartInv /\ [Next]_vars => [Forward]_row
  BY AllProgress, ProgressIsForward DEF ApartInv, CaseInv, CaseOK
<1> QED
  BY <1>1, ApartHolds, PTL DEF Spec, ForwardOnly

(***************************************************************************)
(* As long as no two runs are on one case at once, a delayed link is not   *)
(* created before its time, whichever run creates it.                      *)
(***************************************************************************)
THEOREM ApartRunsHonourDelay == Spec /\ []Apart => DelayIsHonoured
<1> DEFINE Honoured == \A c \in Cases :
                         /\ gateway'[c] # gateway[c]
                         /\ row[c].policy = "P_CREATE_LINK_DELAYED"
                         => row[c].scheduled <= now
<1>1. Inv /\ ApartInv /\ [Next]_vars => [Honoured]_gateway
  <2> SUFFICES ASSUME Inv, ApartInv, [Next]_vars, gateway' # gateway,
                      NEW c \in Cases, gateway'[c] # gateway[c],
                      row[c].policy = "P_CREATE_LINK_DELAYED"
               PROVE  row[c].scheduled <= now
    OBVIOUS
  <2>1. PICK w \in Workers : RunStep(w)
    BY NextIsRunStep
  <2>2. cur[w] = c /\ pc[w] \in {"calling", "created"}
    <3>1. Working(w, c)
      BY <2>1, Elsewhere
    <3>2. pc[w] = "calling"
      BY <2>1, RunStepKinds
      DEF ExecuteRefused, LinkCreated, LinkCallFails, LinkRecorded, Fail
    <3> QED
      BY <3>1, <3>2 DEF Working
  <2>3. StageInv(w)
    BY DEF ApartInv, RunInv
  <2> QED
    BY <2>2, <2>3 DEF StageInv, Executing, Due
<1> QED
  BY <1>1, ApartHolds, PTL DEF Spec, DelayIsHonoured

-----------------------------------------------------------------------------
(***************************************************************************)
(* Runs that keep apart implement RecoveryCase: every step is a step of    *)
(* the promise, or leaves the phase and the links of every case as they    *)
(* are.                                                                    *)
(***************************************************************************)
Phase == [c \in Cases |-> PhaseOf(row[c].state)]
Linked == {c \in Cases : gateway[c] # <<>>}
Unpaid == [c \in Cases |-> None]

LEMMA PhasesReached ==
  /\ \A s \in Early : PhaseOf(s) = "undecided"
  /\ PhaseOf("ACTION_APPROVED") = "approved"
  /\ PhaseOf("ACTION_EXECUTED") = "linked"
  /\ \A s \in Closing : PhaseOf(s) = "closed"
BY DEF PhaseOf, Stage, Early, Closing

(* A step that changes no links is seen as the decision it records.        *)
LEMMA MoveSeen ==
  ASSUME ApartInv, ApartInv', NEW c \in Cases, Progress(row[c], row'[c]),
         \A d \in Cases \ {c} : row'[d] = row[d], gateway' = gateway
  PROVE  \/ Promise!Approve(c) \/ Promise!RecordLink(c) \/ Promise!Close(c)
         \/ UNCHANGED <<Phase, Linked, Unpaid>>
<1> DEFINE s == row[c].state
           t == row'[c].state
<1>1. UNCHANGED <<Linked, Unpaid>>
  BY DEF Linked, Unpaid
<1>2. Phase' = [Phase EXCEPT ![c] = PhaseOf(t)] /\ Phase[c] = PhaseOf(s)
  BY DEF Phase
<1>3. CASE PhaseOf(s) = PhaseOf(t)
  BY <1>1, <1>2, <1>3 DEF Phase
<1>4. CASE s \in Early /\ t = "ACTION_APPROVED"
  <2>1. Promise!Approve(c)
    BY <1>1, <1>2, <1>4, PhasesReached DEF Promise!Approve, Promise!Move, Phase, Linked, Unpaid
  <2> QED
    BY <2>1
<1>5. CASE s \in Early \cup {"ACTION_APPROVED"} /\ t \in Closing
  <2>1. Promise!Close(c)
    BY <1>1, <1>2, <1>5, PhasesReached
    DEF Promise!Close, Promise!Move, Promise!Open, Phase, Linked, Unpaid
  <2> QED
    BY <2>1
<1>6. CASE s = "ACTION_APPROVED" /\ t = "ACTION_EXECUTED"
  <2>1. gateway[c] # <<>>
    <3>1. CaseOK(row'[c], gateway[c], failures', (Creators(c) # {})')
      BY DEF ApartInv, CaseInv
    <3>2. row'[c].link \in 1 .. Len(gateway[c])
      BY <1>6, <3>1 DEF CaseOK
    <3> QED
      BY <3>2
  <2>2. Promise!RecordLink(c)
    BY <1>1, <1>2, <1>6, <2>1, PhasesReached
    DEF Promise!RecordLink, Promise!Move, Phase, Linked, Unpaid
  <2> QED
    BY <2>2
<1>7. PhaseOf(s) = PhaseOf(t) \/ (s \in Early /\ t = "ACTION_APPROVED")
      \/ (s \in Early \cup {"ACTION_APPROVED"} /\ t \in Closing)
      \/ (s = "ACTION_APPROVED" /\ t = "ACTION_EXECUTED")
  BY PhasesReached DEF Progress, Follows, Early, Closing
<1> QED
  BY <1>3, <1>4, <1>5, <1>6, <1>7

(* The call of the gateway makes the link, or ends the case with it or not.*)
LEMMA CallSeen ==
  ASSUME Inv, ApartInv, NEW w \in Workers, RunStep(w), NEW c, c = cur[w],
         LinkCreated(w) \/ LinkCallFails(w)
  PROVE  c \in Cases /\ (Promise!MakeLink(c) \/ Promise!Close(c))
<1>1. InExecutor(w)
  BY DEF LinkCreated, LinkCallFails, InExecutor
<1>2. c \in Cases /\ row[c].state = "ACTION_APPROVED" /\ gateway \in [Cases -> Seq(Money)]
      /\ gateway[c] \in Seq(Money) /\ MoneyOf(row[c]) \in Money /\ seen[w] = row[c]
  BY <1>1, InCall
<1>3. \A d \in Cases \ {c} : row'[d] = row[d] /\ gateway'[d] = gateway[d]
  BY Elsewhere DEF Working
<1>4. Phase' = [Phase EXCEPT ![c] = PhaseOf(row'[c].state)] /\ Phase[c] = "approved"
  BY <1>2, <1>3, PhasesReached DEF Phase
<1>5. ASSUME NewLink(w) PROVE Linked' = Linked \cup {c}
  <2> DEFINE m == MoneyOf(row[c])
             g == gateway[c]
  <2>1. gateway'[c] = Append(g, m)
    BY <1>2, <1>5 DEF NewLink, MoneyOf
  <2>2. Append(g, m) # <<>>
    <3>1. Append(g, m) \in Seq(Money) /\ Len(Append(g, m)) # 0
      BY <1>2
    <3>2. \A h \in Seq(Money) : Len(h) # 0 => h # <<>>
      OBVIOUS
    <3> QED
      BY <3>1, <3>2
  <2> QED
    BY <1>2, <1>3, <2>1, <2>2 DEF Linked
<1>6. CASE LinkCreated(w)
  <2>1. NewLink(w) /\ row' = row
    BY <1>6 DEF LinkCreated
  <2>2. Promise!MakeLink(c)
    BY <1>4, <1>5, <2>1 DEF Promise!MakeLink, Phase, Linked
  <2> QED
    BY <1>2, <2>2
<1>7. CASE LinkCallFails(w)
  <2>1. row'[c].state = "ERROR_TERMINAL"
    BY <1>7, LinkCallFailsOK
  <2>2. PhaseOf(row'[c].state) = "closed"
    BY <2>1, PhasesReached DEF Closing
  <2>3. Linked' = Linked \/ Linked' = Linked \cup {c}
    BY <1>5, <1>7 DEF LinkCallFails, Linked
  <2>4. Promise!Close(c)
    BY <1>4, <2>2, <2>3 DEF Promise!Close, Promise!Move, Promise!Open, Phase, Linked
  <2> QED
    BY <1>2, <2>4
<1> QED
  BY <1>6, <1>7

LEMMA StepSeen ==
  Inv /\ ApartInv /\ ApartInv' /\ [Next]_vars => [Promise!Next]_(Promise!promise)
<1> SUFFICES ASSUME Inv, ApartInv, ApartInv', [Next]_vars
             PROVE  Promise!Next \/ UNCHANGED <<Phase, Linked, Unpaid>>
  BY DEF Promise!promise, Phase, Linked, Unpaid
<1>1. ASSUME UNCHANGED <<row, gateway>> PROVE UNCHANGED <<Phase, Linked, Unpaid>>
  BY <1>1 DEF Phase, Linked, Unpaid
<1>2. ASSUME NEW w \in Workers, RunStep(w)
      PROVE  Promise!Next \/ UNCHANGED <<Phase, Linked, Unpaid>>
  <2>1. CASE LinkCreated(w) \/ LinkCallFails(w)
    BY <1>2, <2>1, CallSeen DEF Promise!Next
  <2>2. CASE ~LinkCreated(w) /\ ~LinkCallFails(w)
    <3>1. gateway' = gateway
      BY <1>2, <2>2, RunStepKinds DEF ExecuteRefused, LinkRecorded, Fail
    <3>2. ASSUME NEW c \in Cases, Working(w, c)
          PROVE  Promise!Next \/ UNCHANGED <<Phase, Linked, Unpaid>>
      <4>1. \A d \in Cases \ {c} : row'[d] = row[d]
        BY <1>2, <3>2, Elsewhere DEF Working
      <4>2. Progress(row[c], row'[c])
        BY <1>2, <3>2, CaseStep
      <4> QED
        BY <3>1, <3>2, <4>1, <4>2, MoveSeen DEF Promise!Next
    <3>3. CASE \A c \in Cases : ~Working(w, c)
      <4>1. row' = row
        <5>1. \A c \in Cases : row'[c] = row[c]
          BY <1>2, <3>3, Elsewhere
        <5>2. row \in [Cases -> Row] /\ row' \in [Cases -> Row]
          BY TypeInvStep DEF Inv, TypeInv, CaseType
        <5> QED
          BY <5>1, <5>2
      <4> QED
        BY <1>1, <3>1, <4>1
    <3> QED
      BY <3>2, <3>3
  <2> QED
    BY <2>1, <2>2
<1> QED
  BY <1>1, <1>2, NextIsRunStep

(***************************************************************************)
(* The pipeline, with any number of cases processed at the same time, lost *)
(* runs, failed calls, repeated triggers and sweeps, implements            *)
(* RecoveryCase as long as no two runs are on one case at once.            *)
(***************************************************************************)
THEOREM ApartRunsKeepPromise == Spec /\ []Apart => KeepsPromise
<1>1. Init => Promise!Init
  <2> SUFFICES ASSUME Init PROVE Promise!Init
    OBVIOUS
  <2>1. \A c \in Cases : row[c].state = "FAILED_INGESTED" /\ gateway[c] = <<>>
    BY DEF Init, NewRow
  <2>2. Phase \in [Cases -> {"absent", "undecided"}] /\ Linked = {}
    BY <2>1, PhasesReached DEF Phase, Linked, Early
  <2> QED
    BY <2>2 DEF Promise!Init, Phase, Linked
<1>2. Inv /\ ApartInv /\ ApartInv' /\ [Next]_vars => [Promise!Next]_(Promise!promise)
  BY StepSeen
<1> QED
  BY <1>1, <1>2, ApartHolds, PTL DEF Spec, KeepsPromise, Promise!Spec

-----------------------------------------------------------------------------
(***************************************************************************)
(* The limit on a customer's links is counted over other cases, so that it *)
(* takes more: no two runs at all at once.                                 *)
(***************************************************************************)
Alone == \A v, w \in Workers : pc[v] # "idle" /\ pc[w] # "idle" => v = w

Limit(c) == HasCustomer(c) => Attempts(c) < MaxAttempts

Entitled(w) ==
  \/ pc[w] = "assessed" /\ draft[w].state = "ELIGIBILITY_CHECKED"
  \/ pc[w] \in Proposing
  \/ pc[w] \in Executing /\ ~delayed[w]

LimitInv == \A w \in Workers : Entitled(w) => Limit(cur[w])

LEMMA AloneIsApart == Alone => Apart
BY DEF Alone, Apart, Working

LEMMA AttemptsTyped ==
  ASSUME IsFiniteSet(Cases), NEW c
  PROVE  Attempts(c) \in Nat
<1> DEFINE S == {d \in Cases \ {c} : /\ CustomerOf[d] = CustomerOf[c]
                                    /\ CreatedAt[d] >= now - Day
                                    /\ row[d].link # 0}
<1>1. IsFiniteSet(S)
  <2>1. S \subseteq Cases
    OBVIOUS
  <2> QED
    BY <2>1, FS_Subset
<1>2. Cardinality(S) \in Nat
  BY <1>1, FS_CardinalityType
<1> QED
  BY <1>2 DEF Attempts

(* Time only takes other cases of the customer out of the count.           *)
LEMMA LimitStays ==
  ASSUME IsFiniteSet(Cases), TypeInv, NEW c, Limit(c),
         \A d \in Cases \ {c} : row'[d].link = row[d].link, now' \in {now, now + 1}
  PROVE  Limit(c)'
<1> DEFINE S == {d \in Cases \ {c} : /\ CustomerOf[d] = CustomerOf[c]
                                    /\ CreatedAt[d] >= now - Day
                                    /\ row[d].link # 0}
           T == {d \in Cases \ {c} : /\ CustomerOf[d] = CustomerOf[c]
                                    /\ CreatedAt[d] >= now' - Day
                                    /\ row'[d].link # 0}
<1>1. T \subseteq S
  <2> SUFFICES ASSUME NEW d \in T PROVE d \in S
    OBVIOUS
  <2>1. CreatedAt[d] \in Nat /\ now \in Nat /\ Day \in Nat
    BY PipelineAssumption DEF TypeInv, CaseType
  <2>2. CreatedAt[d] >= now - Day
    BY <2>1
  <2> QED
    BY <2>2
<1>2. IsFiniteSet(S)
  <2>1. S \subseteq Cases
    OBVIOUS
  <2> QED
    BY <2>1, FS_Subset
<1>3. Cardinality(T) <= Cardinality(S) /\ Cardinality(S) \in Nat /\ Cardinality(T) \in Nat
  BY <1>1, <1>2, FS_Subset, FS_CardinalityType
<1>4. Attempts(c) = Cardinality(S) /\ Attempts(c)' = Cardinality(T)
  BY DEF Attempts
<1> HIDE DEF S, T
<1> QED
  BY <1>3, <1>4, LimitAssumption DEF Limit, HasCustomer

(* Where a run becomes entitled to an immediate link.                      *)
LEMMA EntitledStep ==
  ASSUME IsFiniteSet(Cases), Inv, ApartInv, NEW w \in Workers, RunStep(w), Entitled(w)'
  PROVE  /\ cur'[w] = cur[w] /\ pc[w] \notin {"idle", "sweeping"}
         /\ Entitled(w) \/ Limit(cur[w])
<1>1. ~Finish(w) /\ ~Leave(w) /\ ~Trigger(w)
  <2>1. Finish(w) \/ Leave(w) => pc'[w] \in {"idle", "sweeping"}
    BY LeaveIsLocal DEF Finish, Goto, Inv, TypeInv, RunType
  <2>2. Trigger(w) => pc'[w] \in {"enrich", "sweeping"}
    BY DEF Trigger, WebhookTriggers, OperatorTriggers, Start, StartSweep, Goto, Inv, TypeInv, RunType
  <2> QED
    BY <2>1, <2>2 DEF Entitled, Proposing, Executing
<1>2. ~NextDue(w)
  <2>1. NextDue(w) => pc'[w] = "execute" /\ delayed'[w]
    BY DEF NextDue, Goto, ApartInv, RunInv, SweepInv, Inv, TypeInv, RunType
  <2> QED
    BY <2>1 DEF Entitled, Proposing
<1>3. ASSUME NEW next, Goto(w, next), pc'[w] # next PROVE FALSE
  BY <1>3 DEF Goto, Inv, TypeInv, RunType
<1>4. CASE Triage(w)
  <2>1. CASE Judge(w)
    <3>1. cur' = cur /\ pc[w] = "count" /\ pc'[w] = "assessed" /\ seen[w] \in Row
      BY <2>1 DEF Judge, Goto, Inv, TypeInv, RunType
    <3>2. Verdict(w) = "ELIGIBILITY_CHECKED"
      BY <2>1, <3>1 DEF Judge, Modify, Entitled, Proposing, Executing, Inv, TypeInv, RunType, Row
    <3>3. ~CooldownReached(HasCustomer(cur[w]), Attempts(cur[w]))
      BY <3>2 DEF Verdict, Evaluate
    <3>4. Attempts(cur[w]) \in Nat
      BY AttemptsTyped
    <3> QED
      BY <3>1, <3>3, <3>4, LimitAssumption DEF CooldownReached, Limit
  <2>2. CASE AssessCommit(w)
    <3>1. Proceed(w, "agent") /\ pc[w] = "assessed" /\ draft[w].state = "ELIGIBILITY_CHECKED"
      BY <1>1, <2>2 DEF AssessCommit
    <3> QED
      BY <3>1 DEF Proceed, Entitled
  <2>3. CASE ~Judge(w) /\ ~AssessCommit(w)
    <3>1. pc'[w] \in {"enriched", "classify", "classified", "assess", "count"}
      BY <1>1, <1>3, <1>4, <2>3
      DEF Triage, SkipEnrichment, Enrich, EnrichCommit, Classify, ClassifyCommit, Assess,
          JudgeRaises, Proceed
    <3> QED
      BY <3>1 DEF Entitled, Proposing, Executing
  <2> QED
    BY <2>1, <2>2, <2>3
<1>5. CASE Agent(w)
  <2>1. pc[w] \in Proposing /\ cur' = cur
    BY <1>1, <1>5 DEF Agent, AgentReads, AgentGivesUp, Propose, ProposeCommit, Proceed, Proposing
  <2> QED
    BY <2>1 DEF Entitled, Proposing
<1>6. CASE Execute(w)
  <2>1. pc[w] \in Executing /\ cur' = cur /\ delayed' = delayed /\ pc'[w] \in Executing
    BY <1>1, <1>3, <1>6
    DEF Execute, ExecuteNothing, ExecuteRefused, ExecuteBegins, AdapterRaises, LinkCreated,
        LinkCallFails, LinkRecorded, MayLock, Executing
  <2> QED
    BY <2>1 DEF Entitled, Executing, Proposing
<1> QED
  BY <1>1, <1>2, <1>4, <1>5, <1>6 DEF RunStep, Step, Fail

LEMMA LimitInvStep ==
  ASSUME IsFiniteSet(Cases)
  PROVE  Inv /\ ApartInv /\ Alone /\ LimitInv /\ [Next]_vars => LimitInv'
<1> SUFFICES ASSUME Inv, ApartInv, Alone, LimitInv, [Next]_vars PROVE LimitInv'
  OBVIOUS
<1>1. ASSUME NEW w \in Workers, RunStep(w), NEW v \in Workers, Entitled(v)'
      PROVE  Limit(cur[v])'
  <2>1. now' = now
    BY <1>1, SweepIsLocal DEF Inv
  <2>2. CASE v = w
    <3>1. cur'[w] = cur[w] /\ pc[w] \notin {"idle", "sweeping"} /\ Limit(cur[w])
      BY <1>1, <2>2, EntitledStep DEF LimitInv
    <3>2. \A d \in Cases \ {cur[w]} : row'[d].link = row[d].link
      BY <1>1, Elsewhere DEF Working
    <3>3. PICK c : c = cur[w]
      OBVIOUS
    <3>4. Limit(c)'
      BY <2>1, <3>1, <3>2, <3>3, LimitStays DEF Inv
    <3> QED
      BY <2>2, <3>1, <3>3, <3>4 DEF Limit, HasCustomer, Attempts
  <2>3. CASE v # w
    <3>1. /\ pc'[v] = pc[v] /\ cur'[v] = cur[v] /\ draft'[v] = draft[v]
          /\ delayed'[v] = delayed[v]
      BY <1>1, <2>3, RunStepIsLocal, SweepIsLocal
      DEF Inv, ExecutorInv, OthersUntouched, OthersSweepUntouched
    <3>2. Entitled(v)
      BY <1>1, <3>1 DEF Entitled
    <3>3. pc[v] # "idle"
      BY <3>2 DEF Entitled, Proposing, Executing
    <3>4. \A d \in Cases : row'[d].link = row[d].link
      BY <1>1, <2>3, <3>3, Elsewhere DEF Alone, Working
    <3>5. PICK c : c = cur[v]
      OBVIOUS
    <3>6. Limit(c)'
      BY <2>1, <3>2, <3>4, <3>5, LimitStays DEF Inv, LimitInv
    <3> QED
      BY <3>1, <3>5, <3>6 DEF Limit, HasCustomer, Attempts
  <2> QED
    BY <2>2, <2>3
<1>2. ASSUME now' \in {now, now + 1}, UNCHANGED <<row, pc, cur, delayed, draft>>,
             NEW v \in Workers, Entitled(v)'
      PROVE  Limit(cur[v])'
  <2>1. Limit(cur[v])
    BY <1>2 DEF Entitled, LimitInv
  <2>2. PICK c : c = cur[v]
    OBVIOUS
  <2>3. Limit(c)'
    BY <1>2, <2>1, <2>2, LimitStays DEF Inv
  <2> QED
    BY <1>2, <2>2, <2>3 DEF Limit, HasCustomer, Attempts
<1> QED
  BY <1>1, <1>2 DEF Next, RunStep, Tick, vars, caseVars, runVars, LimitInv

(***************************************************************************)
(* As long as no two runs overlap, an immediate link is created only for a *)
(* customer with fewer than MaxAttempts other linked cases of the last 24  *)
(* hours, however long before they were counted.                           *)
(***************************************************************************)
THEOREM LoneRunsKeepLimit ==
  ASSUME IsFiniteSet(Cases)
  PROVE  Spec /\ []Alone => ImmediateLinkWithinLimit
<1> DEFINE Within == \A c \in Cases :
                       /\ gateway'[c] # gateway[c]
                       /\ row[c].policy = "P_CREATE_LINK_IMMEDIATE"
                       /\ HasCustomer(c)
                       => Attempts(c) < MaxAttempts
<1>1. Init => LimitInv
  BY DEF Init, LimitInv, Entitled, Proposing, Executing
<1>2. Inv /\ ApartInv /\ Alone /\ LimitInv /\ [Next]_vars => LimitInv'
  BY LimitInvStep
<1>3. Inv /\ ApartInv /\ LimitInv /\ [Next]_vars => [Within]_gateway
  <2> SUFFICES ASSUME Inv, ApartInv, LimitInv, [Next]_vars, gateway' # gateway,
                      NEW c \in Cases, gateway'[c] # gateway[c],
                      row[c].policy = "P_CREATE_LINK_IMMEDIATE", HasCustomer(c)
               PROVE  Attempts(c) < MaxAttempts
    OBVIOUS
  <2>1. PICK w \in Workers : RunStep(w)
    BY NextIsRunStep
  <2>2. cur[w] = c /\ pc[w] = "calling"
    BY <2>1, Elsewhere, RunStepKinds
    DEF Working, ExecuteRefused, LinkCreated, LinkCallFails, LinkRecorded, Fail
  <2>3. StageInv(w)
    BY DEF ApartInv, RunInv
  <2>4. ~delayed[w]
    BY <2>2, <2>3 DEF StageInv, Executing, Due
  <2> QED
    BY <2>2, <2>4 DEF LimitInv, Entitled, Executing, Limit
<1>4. Alone => Apart
  BY AloneIsApart
<1> QED
  BY <1>1, <1>2, <1>3, <1>4, ApartHolds, PTL DEF Spec, ImmediateLinkWithinLimit
=============================================================================
