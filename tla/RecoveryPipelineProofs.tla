----------------------- MODULE RecoveryPipelineProofs -----------------------
(***************************************************************************)
(* Proofs about RecoveryPipeline, for any number of cases and workers and  *)
(* any values of the other constants.                                      *)
(***************************************************************************)
EXTENDS RecoveryPipeline, FiniteSetTheorems, TLAPS

-----------------------------------------------------------------------------
(***************************************************************************)
(* Types.  A worker that is not idle or between two due cases is on a case *)
(* (OnCase): without it the reads of a row have no type.                   *)
(***************************************************************************)
OnCase == \A w \in Workers : pc[w] \notin {"idle", "sweeping"} => cur[w] \in Cases

CaseType ==
  /\ row \in [Cases -> Row]
  /\ lock \in [Cases -> Workers \cup {None}]
  /\ gateway \in [Cases -> Seq(Money)]
  /\ audited \in [Cases -> Nat]
  /\ now \in Nat
  /\ failures \in Nat

RunType ==
  /\ pc \in [Workers -> PC]
  /\ cur \in [Workers -> Cases \cup {None}]
  /\ fetch \in [Workers -> BOOLEAN]
  /\ sweep \in [Workers -> SUBSET Cases]
  /\ delayed \in [Workers -> BOOLEAN]
  /\ seen \in [Workers -> Row]
  /\ draft \in [Workers -> Row]
  /\ quote \in [Workers -> Money]
  /\ OnCase

TypeInv == CaseType /\ RunType

LEMMA TypeInvImpliesTypeOK == TypeInv => TypeOK
BY DEF TypeInv, CaseType, RunType, TypeOK

(* The two rows the model makes up are rows. *)
LEMMA BlankTyped == Blank \in Row /\ NoQuote \in Money
BY DEF Blank, NoQuote, NewRow, Row, Money, CaseState, TerminalStates, Currencies,
       Categories, Policies, LinkPolicies

(* A fact of the webhook makes a row. *)
LEMMA NewRowTyped == ASSUME NEW f \in Facts PROVE NewRow(f) \in Row
BY DEF Facts, NewRow, Row, CaseState, TerminalStates, Currencies, Categories

(* A commit leaves a row in the table: each column is an old or a new one. *)
LEMMA FlushTyped ==
  ASSUME NEW old \in Row, NEW new \in Row, NEW stored \in Row
  PROVE  Flush(old, new, stored) \in Row
BY DEF Flush, Column, Row

(* What the guardrails rule is a decision with a policy. *)
LEMMA ValidateTyped ==
  ASSUME NEW x, NEW requested, NEW amount, NEW currency, NEW hasCustomer, NEW attempts
  PROVE  /\ Validate(x, requested, amount, currency, hasCustomer, attempts).policy \in Policies
         /\ Validate(x, requested, amount, currency, hasCustomer, attempts).decision
              \in {"APPROVE", "REJECT", "ESCALATE", "DOWNGRADE"}
BY DEF Validate, Ruling, Policies, LinkPolicies

(* Storing a ruling leaves a row. *)
LEMMA AuthorizedTyped ==
  ASSUME NEW r \in Row, NEW v, v.policy \in Policies, now \in Nat, Delay \in Nat
  PROVE  Authorized(r, v) \in Row
<1> DEFINE next == CASE v.policy = "P_NO_ACTION"     -> "TERMINAL_NO_ACTION"
                     [] v.policy = "P_ESCALATE_ONLY" -> "ESCALATED"
                     [] OTHER -> IF r.state \in {"ELIGIBILITY_CHECKED", "CONTEXT_RETRIEVED"}
                                   THEN "ACTION_APPROVED" ELSE r.state
           due == IF v.policy = "P_CREATE_LINK_DELAYED" THEN now + Delay ELSE r.scheduled
<1>1. next \in CaseState
  BY DEF Row, CaseState, TerminalStates
<1>2. due \in Nat
  BY DEF Row
<1>3. Authorized(r, v) = [r EXCEPT !.state = next, !.policy = v.policy, !.scheduled = due]
  BY DEF Authorized
<1> HIDE DEF next, due
<1> QED
  BY <1>1, <1>2, <1>3 DEF Row

LEMMA FinishTyped ==
  ASSUME RunType, NEW w \in Workers, Finish(w)
  PROVE  RunType'
BY BlankTyped DEF RunType, OnCase, Finish, Goto, PC

LEMMA ProceedTyped ==
  ASSUME RunType, NEW w \in Workers, NEW next \in PC,
         next = "sweeping" \/ cur[w] \in Cases, Proceed(w, next)
  PROVE  RunType'
BY BlankTyped DEF RunType, OnCase, Proceed, Goto

LEMMA LeaveTyped ==
  ASSUME RunType, NEW w \in Workers, Leave(w)
  PROVE  RunType'
BY FinishTyped, ProceedTyped DEF Leave, PC

LEMMA CommitTyped ==
  ASSUME TypeInv, NEW w \in Workers, cur[w] \in Cases, Commit(w)
  PROVE  CaseType'
BY FlushTyped DEF TypeInv, CaseType, RunType, Commit

-----------------------------------------------------------------------------
(***************************************************************************)
(* The steps of one run, group by group.                                   *)
(***************************************************************************)
LEMMA TriggerTyped ==
  ASSUME TypeInv, NEW w \in Workers, Trigger(w)
  PROVE  TypeInv'
<1>1. ASSUME NEW c \in Cases, NEW b \in BOOLEAN, Start(w, c, b)
      PROVE  TypeInv'
  BY <1>1 DEF TypeInv, CaseType, RunType, OnCase, Start, Goto, PC, caseVars
<1>2. CASE StartSweep(w)
  BY <1>2 DEF TypeInv, CaseType, RunType, OnCase, StartSweep, DueCases, Goto, PC, caseVars
<1> QED
  BY <1>1, <1>2 DEF Trigger, WebhookTriggers, OperatorTriggers

LEMMA EnrichTyped ==
  ASSUME TypeInv, NEW w \in Workers, Enrich(w)
  PROVE  TypeInv'
<1> USE PipelineAssumption
<1>1. cur[w] \in Cases
  BY DEF TypeInv, RunType, OnCase, Enrich
<1>2. row[cur[w]] \in Row
  BY <1>1 DEF TypeInv, CaseType
<1>3. ASSUME NEW f \in GatewayFacts
      PROVE  Enriched(row[cur[w]], f) \in Row
  BY <1>2 DEF Enriched, Row, Facts, CaseState
<1>4. \A s \in CaseState : [row[cur[w]] EXCEPT !.state = s] \in Row
  BY <1>2 DEF Row
<1>5. {"ERROR_TERMINAL", "CONTEXT_RETRIEVED"} \subseteq CaseState
  BY DEF CaseState, TerminalStates
<1>6. \E r \in Row : Modify(w, r)
  BY <1>3, <1>4, <1>5 DEF Enrich
<1>7. CaseType'
  BY DEF TypeInv, CaseType, Enrich, caseVars
<1>8. RunType'
  BY <1>1, <1>2, <1>6 DEF TypeInv, RunType, OnCase, Enrich, Read, Modify, Goto, PC
<1> QED
  BY <1>7, <1>8 DEF TypeInv

LEMMA TriageTyped ==
  ASSUME TypeInv, NEW w \in Workers, Triage(w)
  PROVE  TypeInv'
<1>1. CASE SkipEnrichment(w)
  <2>1. CaseType'
    BY <1>1 DEF TypeInv, CaseType, SkipEnrichment, caseVars
  <2>2. RunType'
    BY <1>1, ProceedTyped DEF TypeInv, RunType, OnCase, SkipEnrichment, PC
  <2> QED
    BY <2>1, <2>2 DEF TypeInv
<1>2. CASE Enrich(w)
  BY <1>2, EnrichTyped
<1>3. ASSUME cur[w] \in Cases, NEW next \in PC, Commit(w),
             Finish(w) \/ Proceed(w, next)
      PROVE  TypeInv'
  <2>1. RunType'
    BY <1>3, FinishTyped, ProceedTyped DEF TypeInv
  <2> QED
    BY <1>3, <2>1, CommitTyped DEF TypeInv
<1>4. CASE EnrichCommit(w)
  BY <1>3, <1>4 DEF TypeInv, RunType, OnCase, EnrichCommit, PC
<1>5. CASE ClassifyCommit(w)
  BY <1>3, <1>5 DEF TypeInv, RunType, OnCase, ClassifyCommit, PC
<1>6. CASE AssessCommit(w)
  BY <1>3, <1>6 DEF TypeInv, RunType, OnCase, AssessCommit, PC
<1>7. CASE Classify(w)
  <2>1. cur[w] \in Cases /\ row[cur[w]] \in Row
    BY <1>7 DEF TypeInv, CaseType, RunType, OnCase, Classify
  <2>2. [row[cur[w]] EXCEPT !.category = row[cur[w]].cause] \in Row
    BY <2>1 DEF Row
  <2>3. CaseType'
    BY <1>7 DEF TypeInv, CaseType, Classify, caseVars
  <2>4. RunType'
    BY <1>7, <2>1, <2>2 DEF TypeInv, RunType, OnCase, Classify, Read, Modify, Goto, PC
  <2> QED
    BY <2>3, <2>4 DEF TypeInv
<1>8. CASE Assess(w)
  BY <1>8 DEF TypeInv, CaseType, RunType, OnCase, Assess, Read, Goto, PC, caseVars
<1>9. CASE Judge(w)
  <2>1. Verdict(w) \in CaseState
    BY DEF Verdict, CaseState, TerminalStates
  <2>2. [seen[w] EXCEPT !.state = Verdict(w)] \in Row
    BY <2>1 DEF TypeInv, RunType, Row
  <2>3. CaseType'
    BY <1>9 DEF TypeInv, CaseType, Judge, caseVars
  <2>4. RunType'
    BY <1>9, <2>2 DEF TypeInv, RunType, OnCase, Judge, Modify, Goto, PC
  <2> QED
    BY <2>3, <2>4 DEF TypeInv
<1>10. CASE JudgeRaises(w)
  BY <1>10, FinishTyped DEF TypeInv, CaseType, JudgeRaises, caseVars
<1> QED
  BY <1>1, <1>2, <1>4, <1>5, <1>6, <1>7, <1>8, <1>9, <1>10 DEF Triage

LEMMA AgentTyped ==
  ASSUME TypeInv, NEW w \in Workers, Agent(w)
  PROVE  TypeInv'
<1> USE PipelineAssumption
<1>1. CASE AgentReads(w)
  <2>1. cur[w] \in Cases /\ row[cur[w]] \in Row
    BY <1>1 DEF TypeInv, CaseType, RunType, OnCase, AgentReads
  <2>2. [amount |-> row[cur[w]].amount, currency |-> row[cur[w]].currency] \in Money
    BY <2>1 DEF Row, Money
  <2>3. CaseType'
    BY <1>1 DEF TypeInv, CaseType, AgentReads, caseVars
  <2>4. RunType'
    BY <1>1, <2>1, <2>2 DEF TypeInv, RunType, OnCase, AgentReads, Goto, PC
  <2> QED
    BY <2>3, <2>4 DEF TypeInv
<1>2. CASE AgentGivesUp(w)
  BY <1>2, FinishTyped DEF TypeInv, CaseType, AgentGivesUp, caseVars
<1>3. ASSUME NEW p \in Proposals, Propose(w, p)
      PROVE  TypeInv'
  <2>1. cur[w] \in Cases /\ row[cur[w]] \in Row
    BY <1>3 DEF TypeInv, CaseType, RunType, OnCase, Propose
  <2>2. Authorization(w, p).policy \in Policies
    BY ValidateTyped DEF Authorization
  <2>3. Authorized(row[cur[w]], Authorization(w, p)) \in Row
    BY <2>1, <2>2, AuthorizedTyped DEF TypeInv, CaseType
  <2>4. CaseType'
    BY <1>3 DEF TypeInv, CaseType, Propose, caseVars
  <2>5. RunType'
    BY <1>3, <2>1, <2>3 DEF TypeInv, RunType, OnCase, Propose, Read, Modify, Goto, PC
  <2> QED
    BY <2>4, <2>5 DEF TypeInv
<1>4. CASE ProposeCommit(w)
  <2>1. cur[w] \in Cases
    BY <1>4 DEF TypeInv, RunType, OnCase, ProposeCommit
  <2>2. RunType'
    BY <1>4, <2>1, FinishTyped, ProceedTyped DEF TypeInv, ProposeCommit, PC
  <2> QED
    BY <1>4, <2>1, <2>2, CommitTyped DEF TypeInv, ProposeCommit
<1> QED
  BY <1>1, <1>2, <1>3, <1>4 DEF Agent

LEMMA ExecuteTyped ==
  ASSUME TypeInv, NEW w \in Workers, Execute(w)
  PROVE  TypeInv'
<1>1. cur[w] \in Cases /\ row[cur[w]] \in Row /\ seen[w] \in Row /\ draft[w] \in Row
  BY DEF TypeInv, CaseType, RunType, OnCase, Execute, ExecuteNothing, ExecuteRefused,
         ExecuteBegins, AdapterRaises, LinkCreated, LinkCallFails, LinkRecorded, MayLock
<1>2. Leave(w) => RunType'
  BY LeaveTyped DEF TypeInv
<1>3. UNCHANGED gateway \/ NewLink(w) => gateway' \in [Cases -> Seq(Money)]
  <2>1. [amount |-> seen[w].amount, currency |-> seen[w].currency] \in Money
    BY <1>1 DEF Row, Money
  <2>2. \A m \in Money : Append(gateway[cur[w]], m) \in Seq(Money)
    <3>1. gateway[cur[w]] \in Seq(Money)
      BY <1>1 DEF TypeInv, CaseType
    <3> QED
      BY <3>1
  <2> QED
    BY <1>1, <2>1, <2>2 DEF TypeInv, CaseType, NewLink
<1>4. Unlock(w) => lock' \in [Cases -> Workers \cup {None}]
  BY <1>1 DEF TypeInv, CaseType, Unlock
<1>5. CASE ExecuteNothing(w)
  BY <1>2, <1>5 DEF TypeInv, CaseType, ExecuteNothing, caseVars
<1>6. CASE ExecuteRefused(w)
  <2>1. ASSUME NEW s \in {"ESCALATED", "TERMINAL_NO_ACTION"}
        PROVE  [row EXCEPT ![cur[w]].state = s] \in [Cases -> Row]
    <3>1. [row[cur[w]] EXCEPT !.state = s] \in Row
      BY <1>1 DEF Row, CaseState, TerminalStates
    <3> QED
      BY <1>1, <3>1 DEF TypeInv, CaseType
  <2>2. row' \in [Cases -> Row]
    BY <1>6, <2>1 DEF ExecuteRefused
  <2> QED
    BY <1>2, <1>6, <2>2 DEF TypeInv, CaseType, ExecuteRefused
<1>7. CASE ExecuteBegins(w)
  BY <1>1, <1>7 DEF TypeInv, CaseType, RunType, OnCase, ExecuteBegins, Read, Goto, PC
<1>8. CASE AdapterRaises(w)
  BY <1>2, <1>4, <1>8 DEF TypeInv, CaseType, AdapterRaises
<1>9. CASE LinkCreated(w)
  <2>1. [seen[w] EXCEPT !.link = Len(gateway[cur[w]]) + 1,
                        !.state = "ACTION_EXECUTED"] \in Row
    <3>1. Len(gateway[cur[w]]) + 1 \in Nat
      BY <1>1 DEF TypeInv, CaseType
    <3> QED
      BY <1>1, <3>1 DEF Row, CaseState
  <2>2. CaseType'
    BY <1>3, <1>9 DEF TypeInv, CaseType, LinkCreated
  <2>3. RunType'
    BY <1>1, <1>9, <2>1 DEF TypeInv, RunType, OnCase, LinkCreated, Modify, Goto, PC
  <2> QED
    BY <2>2, <2>3 DEF TypeInv
<1>10. CASE LinkCallFails(w)
  <2>1. Halted(seen[w]) \in Row
    BY <1>1 DEF Halted, Row, CaseState, TerminalStates
  <2>2. row' \in [Cases -> Row]
    BY <1>1, <1>10, <2>1, FlushTyped DEF TypeInv, CaseType, LinkCallFails
  <2>3. audited' \in [Cases -> Nat]
    BY <1>1, <1>10 DEF TypeInv, CaseType, LinkCallFails, AuditFailure
  <2> QED
    BY <1>2, <1>3, <1>4, <1>10, <2>2, <2>3 DEF TypeInv, CaseType, LinkCallFails
<1>11. CASE LinkRecorded(w)
  <2>1. row' \in [Cases -> Row]
    BY <1>1, <1>11, FlushTyped DEF TypeInv, CaseType, LinkRecorded
  <2> QED
    BY <1>2, <1>4, <1>11, <2>1 DEF TypeInv, CaseType, LinkRecorded
<1> QED
  BY <1>5, <1>6, <1>7, <1>8, <1>9, <1>10, <1>11 DEF Execute

(* TypeInv is inductive. *)
LEMMA TypeInvStep == TypeInv /\ [Next]_vars => TypeInv'
<1> SUFFICES ASSUME TypeInv, [Next]_vars PROVE TypeInv'
  OBVIOUS
<1>1. ASSUME NEW w \in Workers, NextDue(w)
      PROVE  TypeInv'
  BY <1>1 DEF TypeInv, CaseType, RunType, OnCase, NextDue, Goto, PC, caseVars
<1>2. ASSUME NEW w \in Workers, Fail(w)
      PROVE  TypeInv'
  <2>1. CaseType'
    BY <1>2 DEF TypeInv, CaseType, Fail
  <2> QED
    BY <1>2, <2>1, FinishTyped DEF TypeInv, Fail
<1>3. CASE Tick
  BY <1>3 DEF TypeInv, CaseType, RunType, OnCase, Tick, caseVars, runVars
<1>4. CASE UNCHANGED vars
  BY <1>4 DEF TypeInv, CaseType, RunType, OnCase, vars, caseVars, runVars
<1> QED
  BY <1>1, <1>2, <1>3, <1>4, TriggerTyped, TriageTyped, AgentTyped, ExecuteTyped
  DEF Next, Step

LEMMA TypeInvInit == Init => TypeInv
<1> SUFFICES ASSUME Init PROVE TypeInv
  OBVIOUS
<1>1. row \in [Cases -> Row]
  BY NewRowTyped, PipelineAssumption DEF Init
<1> QED
  BY <1>1, BlankTyped DEF Init, TypeInv, CaseType, RunType, OnCase, PC

(* Every variable keeps its type, for any number of cases and workers. *)
THEOREM TypesHold == Spec => []TypeOK
<1>1. Spec => []TypeInv
  BY TypeInvInit, TypeInvStep, PTL DEF Spec
<1> QED
  BY <1>1, TypeInvImpliesTypeOK, PTL

-----------------------------------------------------------------------------
(***************************************************************************)
(* The executor's critical section.  A step of one run changes neither the *)
(* memory of another run nor a row that another run has locked; that is    *)
(* what makes LockedRowIsStable inductive, and everything said of links    *)
(* rests on it.                                                            *)
(***************************************************************************)
OthersUntouched(w) ==
  \A v \in Workers \ {w} :
    /\ pc'[v] = pc[v] /\ cur'[v] = cur[v]
    /\ seen'[v] = seen[v] /\ draft'[v] = draft[v]

OthersRowsUntouched(w) ==
  \A c \in Cases : lock[c] \notin {None, w} => row'[c] = row[c] /\ lock'[c] = lock[c]

RunStep(w) == Trigger(w) \/ Step(w) \/ Fail(w)

(* What the executor has checked of the row it locked. *)
ApprovedIsValid ==
  \A w \in Workers : InExecutor(w) =>
    seen[w].policy \in LinkPolicies /\ seen[w].amount <= HighValue

(* Nothing but the executor drafts a change of the link. *)
DraftsKeepLink ==
  \A w \in Workers : pc[w] \in {"enriched", "classified", "assessed", "proposed"} =>
    draft[w].link = seen[w].link

ExecutorInv ==
  /\ LockedRowIsStable
  /\ ApprovedIsValid
  /\ DraftsKeepLink
  /\ LinksWithinGuardrails

LEMMA LeaveIsLocal ==
  ASSUME TypeInv, NEW w \in Workers, Leave(w)
  PROVE  OthersUntouched(w) /\ pc'[w] \in {"idle", "sweeping"}
BY DEF TypeInv, RunType, Leave, Finish, Proceed, Goto, OthersUntouched

LEMMA CommitIsLocal ==
  ASSUME TypeInv, NEW w \in Workers, cur[w] \in Cases, Commit(w)
  PROVE  OthersRowsUntouched(w)
BY DEF TypeInv, CaseType, Commit, OthersRowsUntouched

LEMMA TriageIsLocal ==
  ASSUME TypeInv, NEW w \in Workers, Triage(w)
  PROVE  OthersUntouched(w) /\ OthersRowsUntouched(w) /\ ~InExecutor(w)'
<1>1. cur[w] \in Cases
  BY DEF TypeInv, RunType, OnCase, Triage, SkipEnrichment, Enrich, EnrichCommit, Classify,
         ClassifyCommit, Assess, Judge, JudgeRaises, AssessCommit
<1>2. ASSUME NEW next \in PC \ {"calling", "created"}, Finish(w) \/ Proceed(w, next)
      PROVE  OthersUntouched(w) /\ ~InExecutor(w)'
  BY <1>2 DEF TypeInv, RunType, Finish, Proceed, Goto, OthersUntouched, InExecutor, PC
<1>3. CASE EnrichCommit(w) \/ ClassifyCommit(w) \/ AssessCommit(w)
  BY <1>1, <1>2, <1>3, CommitIsLocal DEF EnrichCommit, ClassifyCommit, AssessCommit, PC
<1>4. CASE SkipEnrichment(w) \/ JudgeRaises(w)
  BY <1>2, <1>4 DEF SkipEnrichment, JudgeRaises, OthersRowsUntouched, caseVars, PC
<1>5. CASE Enrich(w)
  <2>1. \E r : Modify(w, r)
    BY <1>5 DEF Enrich
  <2> QED
    BY <1>5, <2>1 DEF TypeInv, RunType, Enrich, Read, Modify, Goto, OthersUntouched,
                      OthersRowsUntouched, InExecutor, caseVars
<1>6. CASE Classify(w)
  BY <1>6 DEF TypeInv, RunType, Classify, Read, Modify, Goto, OthersUntouched,
              OthersRowsUntouched, InExecutor, caseVars
<1>7. CASE Assess(w)
  BY <1>7 DEF TypeInv, RunType, Assess, Read, Goto, OthersUntouched,
              OthersRowsUntouched, InExecutor, caseVars
<1>8. CASE Judge(w)
  BY <1>8 DEF TypeInv, RunType, Judge, Modify, Goto, OthersUntouched,
              OthersRowsUntouched, InExecutor, caseVars
<1> QED
  BY <1>3, <1>4, <1>5, <1>6, <1>7, <1>8 DEF Triage

LEMMA AgentIsLocal ==
  ASSUME TypeInv, NEW w \in Workers, Agent(w)
  PROVE  OthersUntouched(w) /\ OthersRowsUntouched(w) /\ ~InExecutor(w)'
<1>1. CASE AgentReads(w)
  BY <1>1 DEF TypeInv, RunType, AgentReads, Goto, OthersUntouched, OthersRowsUntouched,
              InExecutor, caseVars
<1>2. CASE AgentGivesUp(w)
  BY <1>2 DEF TypeInv, RunType, AgentGivesUp, Finish, Goto, OthersUntouched,
              OthersRowsUntouched, InExecutor, caseVars
<1>3. ASSUME NEW p \in Proposals, Propose(w, p)
      PROVE  OthersUntouched(w) /\ OthersRowsUntouched(w) /\ ~InExecutor(w)'
  BY <1>3 DEF TypeInv, RunType, Propose, Read, Modify, Goto, OthersUntouched,
              OthersRowsUntouched, InExecutor, caseVars
<1>4. CASE ProposeCommit(w)
  <2>1. cur[w] \in Cases
    BY <1>4 DEF TypeInv, RunType, OnCase, ProposeCommit
  <2>2. OthersUntouched(w) /\ ~InExecutor(w)'
    BY <1>4 DEF TypeInv, RunType, ProposeCommit, Finish, Proceed, Goto, OthersUntouched,
                InExecutor
  <2> QED
    BY <1>4, <2>1, <2>2, CommitIsLocal DEF ProposeCommit
<1> QED
  BY <1>1, <1>2, <1>3, <1>4 DEF Agent

(* Inside the executor a run changes only the row whose lock it holds, or  *)
(* takes: MayLock finds it free.                                           *)
LEMMA ExecuteIsLocal ==
  ASSUME TypeInv, LockedRowIsStable, NEW w \in Workers, Execute(w)
  PROVE  OthersUntouched(w) /\ OthersRowsUntouched(w)
<1>1. CASE ExecuteNothing(w)
  BY <1>1, LeaveIsLocal DEF ExecuteNothing, OthersRowsUntouched, caseVars
<1>2. CASE ExecuteRefused(w)
  BY <1>2, LeaveIsLocal DEF TypeInv, CaseType, ExecuteRefused, MayLock, OthersRowsUntouched
<1>3. CASE ExecuteBegins(w)
  BY <1>3 DEF TypeInv, CaseType, RunType, ExecuteBegins, MayLock, Read, Goto,
              OthersUntouched, OthersRowsUntouched
<1>4. ASSUME InExecutor(w)
      PROVE  cur[w] \in Cases /\ lock[cur[w]] = w
  BY <1>4 DEF LockedRowIsStable, InExecutor, TypeInv, RunType, OnCase
<1>5. CASE AdapterRaises(w)
  BY <1>4, <1>5, LeaveIsLocal
  DEF TypeInv, CaseType, AdapterRaises, Unlock, OthersRowsUntouched, InExecutor
<1>6. CASE LinkCreated(w)
  BY <1>6 DEF TypeInv, RunType, LinkCreated, Modify, Goto, OthersUntouched, OthersRowsUntouched
<1>7. CASE LinkCallFails(w)
  BY <1>4, <1>7, LeaveIsLocal
  DEF TypeInv, CaseType, LinkCallFails, Unlock, OthersRowsUntouched, InExecutor
<1>8. CASE LinkRecorded(w)
  BY <1>4, <1>8, LeaveIsLocal
  DEF TypeInv, CaseType, LinkRecorded, Unlock, OthersRowsUntouched, InExecutor
<1> QED
  BY <1>1, <1>2, <1>3, <1>5, <1>6, <1>7, <1>8 DEF Execute

LEMMA RunStepIsLocal ==
  ASSUME TypeInv, LockedRowIsStable, NEW w \in Workers, RunStep(w)
  PROVE  OthersUntouched(w) /\ OthersRowsUntouched(w)
<1>1. CASE Trigger(w)
  BY <1>1 DEF TypeInv, RunType, Trigger, WebhookTriggers, OperatorTriggers, Start,
              StartSweep, Goto, OthersUntouched, OthersRowsUntouched, caseVars
<1>2. CASE NextDue(w)
  BY <1>2 DEF TypeInv, RunType, NextDue, Goto, OthersUntouched, OthersRowsUntouched, caseVars
<1>3. CASE Fail(w)
  BY <1>3 DEF TypeInv, RunType, CaseType, Fail, Finish, Goto, OthersUntouched,
              OthersRowsUntouched
<1> QED
  BY <1>1, <1>2, <1>3, TriageIsLocal, AgentIsLocal, ExecuteIsLocal DEF RunStep, Step

(* Only the executor brings a run into its critical section.               *)
LEMMA OnlyExecuteEnters ==
  ASSUME TypeInv, NEW w \in Workers, RunStep(w), InExecutor(w)'
  PROVE  ExecuteBegins(w) \/ LinkCreated(w)
<1>1. ~Trigger(w) /\ ~NextDue(w)
  BY DEF TypeInv, RunType, Trigger, WebhookTriggers, OperatorTriggers, Start, StartSweep,
         NextDue, Goto, InExecutor
<1>2. ~Fail(w)
  BY DEF TypeInv, RunType, Fail, Finish, Goto, InExecutor
<1>3. ~Leave(w)
  BY LeaveIsLocal DEF InExecutor
<1>4. Execute(w)
  BY <1>1, <1>2, TriageIsLocal, AgentIsLocal DEF RunStep, Step
<1> QED
  BY <1>3, <1>4 DEF Execute, ExecuteNothing, ExecuteRefused, AdapterRaises, LinkCallFails,
                    LinkRecorded

LEMMA LockedStep ==
  ASSUME TypeInv, LockedRowIsStable, NEW w \in Workers, RunStep(w)
  PROVE  LockedRowIsStable'
<1> SUFFICES ASSUME NEW v \in Workers, InExecutor(v)'
             PROVE  /\ lock'[cur'[v]] = v
                    /\ row'[cur'[v]] = seen'[v]
                    /\ seen'[v].link = 0
                    /\ seen'[v].state = "ACTION_APPROVED"
  BY DEF LockedRowIsStable
<1>1. CASE v # w
  <2>1. InExecutor(v) /\ cur'[v] = cur[v] /\ seen'[v] = seen[v]
    BY <1>1, RunStepIsLocal DEF OthersUntouched, InExecutor
  <2>2. cur[v] \in Cases /\ lock[cur[v]] = v
    BY <2>1 DEF LockedRowIsStable, InExecutor, TypeInv, RunType, OnCase
  <2>3. row'[cur[v]] = row[cur[v]] /\ lock'[cur[v]] = v
    BY <1>1, <2>2, RunStepIsLocal, PipelineAssumption DEF OthersRowsUntouched
  <2> QED
    BY <2>1, <2>3 DEF LockedRowIsStable
<1>2. CASE v = w /\ ExecuteBegins(w)
  <2>1. cur[w] \in Cases
    BY <1>2 DEF ExecuteBegins, MayLock, TypeInv, RunType, OnCase
  <2> QED
    BY <1>2, <2>1 DEF TypeInv, CaseType, RunType, ExecuteBegins, Executable, Read
<1>3. CASE v = w /\ LinkCreated(w)
  BY <1>3 DEF LinkCreated, LockedRowIsStable, InExecutor
<1> QED
  BY <1>1, <1>2, <1>3, OnlyExecuteEnters

(* What the final validation approves is at most HighValue. *)
LEMMA PreWriteBoundsAmount ==
  ASSUME NEW r \in Row, r.policy \in LinkPolicies, PreWrite(r).decision = "APPROVE"
  PROVE  r.amount <= HighValue
<1> SUFFICES ASSUME ~(r.amount <= HighValue) PROVE FALSE
  OBVIOUS
<1>1. r.amount > HighValue
  BY LimitAssumption DEF Row
<1>2. PreWrite(r) \in {Ruling("REJECT", "P_NO_ACTION"), Ruling("ESCALATE", "P_ESCALATE_ONLY")}
  BY <1>1 DEF PreWrite, Validate
<1> QED
  BY <1>2 DEF Ruling

LEMMA ValidStep ==
  ASSUME TypeInv, LockedRowIsStable, ApprovedIsValid, NEW w \in Workers, RunStep(w)
  PROVE  ApprovedIsValid'
<1> SUFFICES ASSUME NEW v \in Workers, InExecutor(v)'
             PROVE  seen'[v].policy \in LinkPolicies /\ seen'[v].amount <= HighValue
  BY DEF ApprovedIsValid
<1>1. CASE v # w
  BY <1>1, RunStepIsLocal DEF OthersUntouched, InExecutor, ApprovedIsValid
<1>2. CASE v = w /\ ExecuteBegins(w)
  <2>1. row[cur[w]] \in Row /\ seen'[w] = row[cur[w]]
    BY <1>2 DEF ExecuteBegins, MayLock, Read, TypeInv, CaseType, RunType, OnCase
  <2>2. row[cur[w]].policy \in LinkPolicies
    BY <1>2 DEF ExecuteBegins, Executable, LinkPolicies
  <2> QED
    BY <1>2, <2>1, <2>2, PreWriteBoundsAmount DEF ExecuteBegins
<1>3. CASE v = w /\ LinkCreated(w)
  BY <1>3 DEF LinkCreated, ApprovedIsValid, InExecutor
<1> QED
  BY <1>1, <1>2, <1>3, OnlyExecuteEnters

LEMMA DraftStep ==
  ASSUME TypeInv, LockedRowIsStable, DraftsKeepLink, NEW w \in Workers, RunStep(w)
  PROVE  DraftsKeepLink'
<1> DEFINE Drafting == {"enriched", "classified", "assessed", "proposed"}
<1> SUFFICES ASSUME NEW v \in Workers, pc'[v] \in Drafting
             PROVE  draft'[v].link = seen'[v].link
  BY DEF DraftsKeepLink
<1>1. CASE v # w
  BY <1>1, RunStepIsLocal DEF OthersUntouched, DraftsKeepLink
<1>2. CASE v = w
  <2>1. ASSUME NEW r \in Row, NEW s \in Row, s.link = r.link,
               seen'[w] = r, Modify(w, s)
        PROVE  draft'[w].link = seen'[w].link
    BY <2>1 DEF Modify, TypeInv, RunType
  <2>2. ~Trigger(w) /\ ~NextDue(w) /\ ~Fail(w)
    BY <1>2 DEF TypeInv, RunType, Trigger, WebhookTriggers, OperatorTriggers, Start,
                StartSweep, NextDue, Fail, Finish, Goto
  <2>3. ~Execute(w)
    <3>1. ~Leave(w)
      BY <1>2, LeaveIsLocal
    <3> QED
      BY <1>2, <3>1 DEF TypeInv, RunType, Execute, ExecuteNothing, ExecuteRefused,
         ExecuteBegins, AdapterRaises, LinkCreated, LinkCallFails, LinkRecorded, Goto
  <2>4. CASE Enrich(w)
    <3>1. cur[w] \in Cases /\ row[cur[w]] \in Row /\ seen'[w] = row[cur[w]]
      BY <2>4 DEF TypeInv, CaseType, RunType, OnCase, Enrich, Read
    <3>2. \E s : s.link = row[cur[w]].link /\ Modify(w, s)
      BY <2>4, <3>1 DEF Enrich, Enriched, Row
    <3> QED
      BY <1>2, <3>1, <3>2 DEF Modify, TypeInv, RunType
  <2>5. CASE Classify(w)
    <3>1. cur[w] \in Cases /\ row[cur[w]] \in Row /\ seen'[w] = row[cur[w]]
      BY <2>5 DEF TypeInv, CaseType, RunType, OnCase, Classify, Read
    <3> QED
      BY <1>2, <2>5, <3>1 DEF Classify, Modify, TypeInv, RunType, Row
  <2>6. CASE Judge(w)
    BY <1>2, <2>6 DEF Judge, Modify, TypeInv, RunType, Row
  <2>7. CASE \E p \in Proposals : Propose(w, p)
    <3>1. cur[w] \in Cases /\ row[cur[w]] \in Row /\ seen'[w] = row[cur[w]]
      BY <2>7 DEF TypeInv, CaseType, RunType, OnCase, Propose, Read
    <3>2. \A x : Authorized(row[cur[w]], x).link = row[cur[w]].link
      BY <3>1 DEF Authorized, Row
    <3> QED
      BY <1>2, <2>7, <3>1, <3>2 DEF Propose, Modify, TypeInv, RunType
  <2>8. ASSUME NEW next, Finish(w) \/ Proceed(w, next), next \notin Drafting
        PROVE  FALSE
    BY <1>2, <2>8 DEF TypeInv, RunType, Finish, Proceed, Goto
  <2>9. CASE Triage(w)
    BY <1>2, <2>4, <2>5, <2>6, <2>8, <2>9
    DEF Triage, SkipEnrichment, EnrichCommit, ClassifyCommit, Assess, JudgeRaises,
        AssessCommit, TypeInv, RunType, Goto
  <2>10. CASE Agent(w)
    BY <1>2, <2>7, <2>8, <2>10
    DEF Agent, AgentReads, AgentGivesUp, ProposeCommit, TypeInv, RunType, Goto
  <2> QED
    BY <2>2, <2>3, <2>9, <2>10 DEF RunStep, Step
<1> QED
  BY <1>1, <1>2

(* The gateway is called by the executor only, for a row that it owns.     *)
LEMMA OnlyExecutorCalls ==
  ASSUME TypeInv, ExecutorInv, NEW w \in Workers, RunStep(w), gateway' # gateway
  PROVE  /\ cur[w] \in Cases /\ NewLink(w)
         /\ row[cur[w]] = seen[w] /\ seen[w] \in Row
         /\ seen[w].state = "ACTION_APPROVED" /\ seen[w].link = 0
         /\ seen[w].policy \in LinkPolicies
         /\ seen[w].amount \in 1 .. HighValue /\ seen[w].currency = "INR"
<1>1. ~Trigger(w) /\ ~NextDue(w) /\ ~Fail(w) /\ ~Agent(w)
  BY DEF Trigger, WebhookTriggers, OperatorTriggers, Start, StartSweep, NextDue, Fail,
         Agent, AgentReads, AgentGivesUp, Propose, ProposeCommit, Commit, caseVars
<1>2. ~Triage(w)
  BY DEF Triage, SkipEnrichment, Enrich, EnrichCommit, Classify, ClassifyCommit, Assess,
         Judge, JudgeRaises, AssessCommit, Commit, caseVars
<1>3. LinkCreated(w) \/ LinkCallFails(w)
  BY <1>1, <1>2 DEF RunStep, Step, Execute, ExecuteNothing, ExecuteRefused, ExecuteBegins,
                    AdapterRaises, LinkRecorded, caseVars
<1>4. InExecutor(w) /\ NewLink(w) /\ GatewayAccepts(seen[w].amount, seen[w].currency)
  BY <1>3 DEF LinkCreated, LinkCallFails, InExecutor
<1>5. cur[w] \in Cases /\ seen[w] \in Row
  BY <1>4 DEF TypeInv, RunType, OnCase, InExecutor
<1>6. seen[w].amount \in 1 .. HighValue /\ seen[w].currency = "INR"
  BY <1>4, <1>5, LimitAssumption
  DEF ExecutorInv, ApprovedIsValid, GatewayAccepts, GatewayCurrencies, Row
<1> QED
  BY <1>4, <1>5, <1>6 DEF ExecutorInv, LockedRowIsStable, ApprovedIsValid

LEMMA GuardrailStep ==
  ASSUME TypeInv, ExecutorInv, NEW w \in Workers, RunStep(w)
  PROVE  LinksWithinGuardrails'
<1>1. CASE gateway' = gateway
  BY <1>1 DEF ExecutorInv, LinksWithinGuardrails
<1>2. CASE gateway' # gateway
  <2> SUFFICES ASSUME NEW c \in Cases, NEW i \in 1 .. Len(gateway'[c])
               PROVE  /\ gateway'[c][i].amount \in 1 .. HighValue
                      /\ gateway'[c][i].currency = "INR"
    BY DEF LinksWithinGuardrails
  <2> DEFINE m == [amount |-> seen[w].amount, currency |-> seen[w].currency]
  <2>1. gateway[c] \in Seq(Money)
    BY DEF TypeInv, CaseType
  <2>2. gateway'[c] \in {gateway[c], Append(gateway[c], m)}
    BY <1>2, OnlyExecutorCalls DEF NewLink, TypeInv, CaseType
  <2>3. m.amount \in 1 .. HighValue /\ m.currency = "INR"
    BY <1>2, OnlyExecutorCalls
  <2>4. CASE i \in 1 .. Len(gateway[c])
    <3>1. gateway'[c][i] = gateway[c][i]
      BY <2>1, <2>2, <2>4
    <3> QED
      BY <2>4, <3>1 DEF ExecutorInv, LinksWithinGuardrails
  <2>5. CASE i \notin 1 .. Len(gateway[c])
    <3>1. gateway'[c][i] = m
      BY <2>1, <2>2, <2>5
    <3> QED
      BY <2>3, <3>1
  <2> QED
    BY <2>4, <2>5
<1> QED
  BY <1>1, <1>2

Inv == TypeInv /\ ExecutorInv

LEMMA InvInit == Init => Inv
<1> SUFFICES ASSUME Init PROVE ExecutorInv
  BY TypeInvInit DEF Inv
<1> QED
  BY DEF Init, ExecutorInv, LockedRowIsStable, ApprovedIsValid, DraftsKeepLink,
         LinksWithinGuardrails, InExecutor

(* A step is a step of one run, or it leaves all cases and runs alone.     *)
LEMMA NextIsRunStep ==
  ASSUME [Next]_vars
  PROVE  \/ \E w \in Workers : RunStep(w)
         \/ UNCHANGED <<row, lock, gateway, pc, cur, seen, draft>>
BY DEF Next, RunStep, Tick, vars, caseVars, runVars

LEMMA InvStep == Inv /\ [Next]_vars => Inv'
<1> SUFFICES ASSUME Inv, [Next]_vars PROVE Inv'
  OBVIOUS
<1>1. TypeInv'
  BY TypeInvStep DEF Inv
<1>2. ASSUME NEW w \in Workers, RunStep(w)
      PROVE  ExecutorInv'
  BY <1>2, LockedStep, ValidStep, DraftStep, GuardrailStep DEF Inv, ExecutorInv
<1>3. ASSUME UNCHANGED <<row, lock, gateway, pc, cur, seen, draft>>
      PROVE  ExecutorInv'
  BY <1>3 DEF Inv, ExecutorInv, LockedRowIsStable, ApprovedIsValid, DraftsKeepLink,
              LinksWithinGuardrails, InExecutor
<1> QED
  BY <1>1, <1>2, <1>3, NextIsRunStep DEF Inv

LEMMA InvHolds == Spec => []Inv
BY InvInit, InvStep, PTL DEF Spec

(***************************************************************************)
(* A run in the executor's critical section works on the committed row:    *)
(* nothing another run commits gets past the row lock.                     *)
(***************************************************************************)
THEOREM ExecutorOwnsRow == Spec => []LockedRowIsStable
<1>1. Inv => LockedRowIsStable
  BY DEF Inv, ExecutorInv
<1> QED
  BY <1>1, InvHolds, PTL

(***************************************************************************)
(* Whatever overlapping runs and stale commits do, the gateway is asked    *)
(* only for positive amounts in INR up to the automation ceiling.          *)
(***************************************************************************)
THEOREM GuardrailsBindGateway == Spec => []LinksWithinGuardrails
<1>1. Inv => LinksWithinGuardrails
  BY DEF Inv, ExecutorInv
<1> QED
  BY <1>1, InvHolds, PTL

(***************************************************************************)
(* A link is made only for a case that is approved for one at that moment  *)
(* and has none on record.                                                 *)
(***************************************************************************)
THEOREM LinksAreApproved == Spec => LinkNeedsApproval
<1> DEFINE Approved ==
      \A c \in Cases : gateway'[c] # gateway[c] =>
        /\ row[c].state = "ACTION_APPROVED"
        /\ row[c].policy \in LinkPolicies
        /\ row[c].link = 0
<1>1. Inv /\ [Next]_vars => [Approved]_gateway
  <2> SUFFICES ASSUME Inv, [Next]_vars, gateway' # gateway,
                      NEW c \in Cases, gateway'[c] # gateway[c]
               PROVE  /\ row[c].state = "ACTION_APPROVED"
                      /\ row[c].policy \in LinkPolicies
                      /\ row[c].link = 0
    OBVIOUS
  <2>1. PICK w \in Workers : RunStep(w)
    BY NextIsRunStep
  <2>2. cur[w] = c
    BY <2>1, OnlyExecutorCalls DEF Inv, NewLink, TypeInv, CaseType
  <2> QED
    BY <2>1, <2>2, OnlyExecutorCalls DEF Inv
<1> QED
  BY <1>1, InvHolds, PTL DEF Spec, LinkNeedsApproval

(***************************************************************************)
(* A link on record is never replaced or erased: a commit outside the      *)
(* executor does not touch the column, and the executor found it empty.    *)
(***************************************************************************)
CommitsDraft(w) ==
  /\ pc[w] \in {"enriched", "classified", "assessed", "proposed"}
  /\ Commit(w)

LEMMA RunKeepsLinks ==
  ASSUME Inv, NEW w \in Workers, RunStep(w), NEW c \in Cases, row[c].link # 0
  PROVE  row'[c].link = row[c].link
<1>1. row[c] \in Row /\ seen[w] \in Row /\ draft[w] \in Row
  BY DEF Inv, TypeInv, CaseType, RunType
<1>2. CASE CommitsDraft(w)
  <2>1. cur[w] \in Cases /\ draft[w].link = seen[w].link
    BY <1>2 DEF CommitsDraft, Inv, TypeInv, RunType, OnCase, ExecutorInv, DraftsKeepLink
  <2> QED
    BY <1>1, <1>2, <2>1 DEF CommitsDraft, Commit, Flush, Column, Inv, TypeInv, CaseType
<1>3. CASE ExecuteRefused(w)
  <2>1. cur[w] \in Cases
    BY <1>3 DEF ExecuteRefused, MayLock, Inv, TypeInv, RunType, OnCase
  <2> QED
    BY <1>1, <1>3, <2>1 DEF ExecuteRefused, Inv, TypeInv, CaseType, Row
<1>4. CASE LinkCallFails(w)
  <2>1. cur[w] \in Cases /\ Halted(seen[w]).link = seen[w].link
    BY <1>1, <1>4 DEF LinkCallFails, Halted, Row, Inv, TypeInv, RunType, OnCase
  <2> QED
    BY <1>1, <1>4, <2>1 DEF LinkCallFails, Flush, Column, Inv, TypeInv, CaseType
<1>5. CASE LinkRecorded(w)
  <2>1. cur[w] \in Cases /\ row[cur[w]].link = 0
    BY <1>5 DEF LinkRecorded, Inv, TypeInv, RunType, OnCase, ExecutorInv,
                LockedRowIsStable, InExecutor
  <2> QED
    BY <1>5, <2>1 DEF LinkRecorded, Inv, TypeInv, CaseType
<1>6. Triage(w) => row' = row \/ CommitsDraft(w)
  BY DEF Triage, SkipEnrichment, Enrich, EnrichCommit, Classify, ClassifyCommit, Assess,
         Judge, JudgeRaises, AssessCommit, CommitsDraft, caseVars
<1>7. Agent(w) => row' = row \/ CommitsDraft(w)
  BY DEF Agent, AgentReads, AgentGivesUp, Propose, ProposeCommit,
         CommitsDraft, caseVars
<1>8. Execute(w) => row' = row \/ ExecuteRefused(w) \/ LinkCallFails(w) \/ LinkRecorded(w)
  BY DEF Execute, ExecuteNothing, ExecuteBegins, AdapterRaises, LinkCreated, caseVars
<1>9. Trigger(w) \/ NextDue(w) \/ Fail(w) => row' = row
  BY DEF Trigger, WebhookTriggers, OperatorTriggers, Start, StartSweep, NextDue, Fail, caseVars
<1> QED
  BY <1>2, <1>3, <1>4, <1>5, <1>6, <1>7, <1>8, <1>9 DEF RunStep, Step

THEOREM LinksAreKept == Spec => LinkIsForever
<1> DEFINE Kept == \A c \in Cases : row[c].link # 0 => row'[c].link = row[c].link
<1>1. Inv /\ [Next]_vars => [Kept]_row
  BY NextIsRunStep, RunKeepsLinks
<1> QED
  BY <1>1, InvHolds, PTL DEF Spec, LinkIsForever

-----------------------------------------------------------------------------
(***************************************************************************)
(* The account of the links at the gateway.  What the executor holds of a  *)
(* case is one link at most, since it holds the row lock (OneCreator), and *)
(* the link it is going to record is never NULL (NumbersLink).             *)
(***************************************************************************)
Creators(c) == {w \in Workers : pc[w] = "created" /\ cur[w] = c}

OnRecord(c) == IF row[c].link = 0 THEN 0 ELSE 1

Unrecorded(c) == IF Creators(c) = {} THEN 0 ELSE 1

Balanced(c) == Len(gateway[c]) <= OnRecord(c) + Unrecorded(c) + audited[c] + failures

NumbersLink == \A w \in Workers : pc[w] = "created" => draft[w].link # 0

AccountInv == NumbersLink /\ \A c \in Cases : Balanced(c)

LEMMA OneCreator ==
  ASSUME LockedRowIsStable, NEW c
  PROVE  Cardinality(Creators(c)) = Unrecorded(c)
<1>1. \A w \in Creators(c) : w = lock[c]
  BY DEF LockedRowIsStable, InExecutor, Creators
<1>2. Creators(c) = {} \/ Creators(c) = {lock[c]}
  BY <1>1
<1> QED
  BY <1>2, FS_EmptySet, FS_Singleton DEF Unrecorded

LEMMA NumbersLinkStep ==
  ASSUME Inv, NumbersLink, NEW w \in Workers, RunStep(w)
  PROVE  NumbersLink'
<1> SUFFICES ASSUME NEW v \in Workers, pc'[v] = "created"
             PROVE  draft'[v].link # 0
  BY DEF NumbersLink
<1>1. CASE v # w
  BY <1>1, RunStepIsLocal DEF Inv, ExecutorInv, OthersUntouched, NumbersLink
<1>2. CASE v = w
  <2>1. LinkCreated(w)
    <3>1. ~ExecuteBegins(w)
      BY <1>2 DEF Inv, TypeInv, RunType, ExecuteBegins, Goto
    <3> QED
      BY <1>2, <3>1, OnlyExecuteEnters DEF Inv, InExecutor
  <2>2. cur[w] \in Cases /\ seen[w] \in Row
    BY <2>1 DEF LinkCreated, Inv, TypeInv, RunType, OnCase
  <2>3. Len(gateway[cur[w]]) \in Nat
    BY <2>2 DEF Inv, TypeInv, CaseType
  <2> QED
    BY <1>2, <2>1, <2>2, <2>3 DEF LinkCreated, Modify, Inv, TypeInv, RunType, Row
<1> QED
  BY <1>1, <1>2

(* No step but the recording of the link, or the end of the run, takes the *)
(* unrecorded link of a run away.                                          *)
LEMMA HolderStays ==
  ASSUME Inv, NEW w \in Workers, RunStep(w), ~LinkRecorded(w), ~Fail(w)
  PROVE  \A c : Creators(c) \subseteq Creators(c)'
<1>1. pc[w] # "created"
  BY DEF RunStep, Trigger, WebhookTriggers, OperatorTriggers, Start, StartSweep, Step, NextDue,
     Triage, SkipEnrichment, Enrich, EnrichCommit, Classify, ClassifyCommit, Assess, Judge,
     JudgeRaises, AssessCommit, Agent, AgentReads, AgentGivesUp, Propose, ProposeCommit, Execute,
     ExecuteNothing, ExecuteRefused, ExecuteBegins, AdapterRaises, LinkCreated, LinkCallFails,
     MayLock
<1>2. OthersUntouched(w)
  BY RunStepIsLocal DEF Inv, ExecutorInv
<1> QED
  BY <1>1, <1>2 DEF Creators, OthersUntouched

(* Steps that neither call the gateway nor end with a link unrecorded.     *)
LEMMA QuietStep ==
  ASSUME NEW w, RunStep(w), ~LinkCreated(w), ~LinkCallFails(w), ~Fail(w)
  PROVE  UNCHANGED <<gateway, audited, failures>>
BY DEF RunStep, Trigger, WebhookTriggers, OperatorTriggers, Start, StartSweep, Step, NextDue,
   Triage, SkipEnrichment, Enrich, EnrichCommit, Classify, ClassifyCommit, Assess, Judge,
   JudgeRaises, AssessCommit, Agent, AgentReads, AgentGivesUp, Propose, ProposeCommit, Commit,
   Execute, ExecuteNothing, ExecuteRefused, ExecuteBegins, AdapterRaises, LinkRecorded, caseVars

LEMMA BalancedStep ==
  ASSUME Inv, Inv', NumbersLink, NEW w \in Workers, RunStep(w), NEW c \in Cases, Balanced(c)
  PROVE  Balanced(c)'
<1>1. /\ Len(gateway[c]) \in Nat /\ audited[c] \in Nat /\ failures \in Nat
      /\ Len(gateway'[c]) \in Nat /\ audited'[c] \in Nat /\ failures' \in Nat
  BY DEF Inv, TypeInv, CaseType
<1>2. OnRecord(c) \in 0 .. OnRecord(c)' /\ OnRecord(c)' \in {0, 1}
  BY RunKeepsLinks DEF OnRecord
<1>3. Unrecorded(c) \in {0, 1} /\ Unrecorded(c)' \in {0, 1}
  BY DEF Unrecorded
<1>4. ASSUME ~LinkRecorded(w), ~Fail(w)
      PROVE  Unrecorded(c) <= Unrecorded(c)'
  BY <1>4, HolderStays DEF Unrecorded
<1>5. CASE LinkCreated(w)
  <2>1. UNCHANGED <<audited, failures>> /\ ~LinkRecorded(w) /\ ~Fail(w)
    BY <1>1, <1>5 DEF LinkCreated, LinkRecorded, Fail
  <2>2. CASE cur[w] = c
    <3>1. Len(gateway'[c]) = Len(gateway[c]) + 1
      <4>1. gateway[c] \in Seq(Money) /\ gateway \in [Cases -> Seq(Money)]
        BY DEF Inv, TypeInv, CaseType
      <4> QED
        BY <1>5, <2>2, <4>1 DEF LinkCreated, NewLink
    <3>2. Creators(c) = {}
      BY <1>5, <2>2 DEF LinkCreated, Creators, Inv, ExecutorInv, LockedRowIsStable, InExecutor
    <3>3. w \in Creators(c)'
      BY <1>5, <2>2 DEF LinkCreated, Goto, Creators, Inv, TypeInv, RunType
    <3> QED
      BY <1>1, <1>2, <2>1, <3>1, <3>2, <3>3 DEF Balanced, Unrecorded
  <2>3. CASE cur[w] # c
    <3>1. gateway'[c] = gateway[c]
      BY <1>5, <2>3 DEF LinkCreated, NewLink, Inv, TypeInv, CaseType
    <3> QED
      BY <1>1, <1>2, <1>3, <1>4, <2>1, <3>1 DEF Balanced
  <2> QED
    BY <2>2, <2>3
<1>6. CASE LinkCallFails(w)
  <2>1. failures' = failures /\ ~LinkRecorded(w) /\ ~Fail(w)
    BY <1>1, <1>6 DEF LinkCallFails, LinkRecorded, Fail
  <2>2. gateway[c] \in Seq(Money) /\ gateway \in [Cases -> Seq(Money)] /\ audited \in [Cases -> Nat]
    BY DEF Inv, TypeInv, CaseType
  <2>3. CASE cur[w] = c
    <3>1. Len(gateway'[c]) <= Len(gateway[c]) + 1
      BY <1>6, <2>2, <2>3 DEF LinkCallFails, NewLink
    <3>2. audited'[c] = audited[c] + 1
      BY <1>6, <2>2, <2>3 DEF LinkCallFails, AuditFailure
    <3>3. Unrecorded(c) <= Unrecorded(c)'
      BY <1>4, <2>1
    <3>4. OnRecord(c) <= OnRecord(c)'
      BY <1>2
    <3> QED
      BY <1>1, <1>2, <1>3, <2>1, <3>1, <3>2, <3>3, <3>4, SMTT(30) DEF Balanced
  <2>4. CASE cur[w] # c
    <3>1. gateway'[c] = gateway[c] /\ audited'[c] = audited[c]
      BY <1>6, <2>2, <2>4 DEF LinkCallFails, NewLink, AuditFailure
    <3> QED
      BY <1>1, <1>2, <1>3, <1>4, <2>1, <3>1 DEF Balanced
  <2> QED
    BY <2>3, <2>4
<1>7. CASE LinkRecorded(w)
  <2>1. UNCHANGED <<gateway, audited, failures>>
    BY <1>7 DEF LinkRecorded
  <2>2. CASE cur[w] = c
    <3>1. row'[c].link # 0 /\ row[c].link = 0
      <4>1. InExecutor(w) /\ draft[w].link # 0
        BY <1>7 DEF LinkRecorded, InExecutor, NumbersLink
      <4>2. row[c] = seen[w] /\ seen[w].link = 0
        BY <2>2, <4>1 DEF Inv, ExecutorInv, LockedRowIsStable
      <4>3. row' = [row EXCEPT ![c] = Flush(seen[w], draft[w], row[c])]
        BY <1>7, <2>2 DEF LinkRecorded
      <4>4. row'[c].link = draft[w].link
        BY <4>1, <4>2, <4>3 DEF Flush, Column, Inv, TypeInv, CaseType
      <4> QED
        BY <4>1, <4>2, <4>4
    <3> QED
      BY <1>1, <1>3, <2>1, <3>1 DEF Balanced, OnRecord
  <2>3. CASE cur[w] # c
    <3>1. Creators(c) \subseteq Creators(c)'
      BY <2>3, RunStepIsLocal DEF Inv, ExecutorInv, Creators, OthersUntouched
    <3> QED
      BY <1>1, <1>2, <1>3, <2>1, <3>1 DEF Balanced, Unrecorded
  <2> QED
    BY <2>2, <2>3
<1>8. CASE Fail(w)
  BY <1>1, <1>2, <1>3, <1>8 DEF Fail, Balanced
<1>9. CASE ~LinkCreated(w) /\ ~LinkCallFails(w) /\ ~LinkRecorded(w) /\ ~Fail(w)
  <2>1. UNCHANGED <<gateway, audited, failures>>
    BY <1>9, QuietStep
  <2> QED
    BY <1>1, <1>2, <1>3, <1>4, <1>9, <2>1 DEF Balanced
<1> QED
  BY <1>5, <1>6, <1>7, <1>8, <1>9

LEMMA AccountStep == Inv /\ AccountInv /\ [Next]_vars => AccountInv'
<1> SUFFICES ASSUME Inv, AccountInv, [Next]_vars PROVE AccountInv'
  OBVIOUS
<1>1. Inv'
  BY InvStep
<1>2. ASSUME NEW w \in Workers, RunStep(w) PROVE AccountInv'
  BY <1>1, <1>2, NumbersLinkStep, BalancedStep DEF AccountInv
<1>3. CASE Tick \/ UNCHANGED vars
  BY <1>3 DEF Tick, vars, caseVars, runVars, AccountInv, NumbersLink, Balanced, OnRecord,
     Unrecorded, Creators
<1> QED
  BY <1>2, <1>3 DEF Next, RunStep

LEMMA AccountInit == Init => AccountInv
BY DEF Init, AccountInv, NumbersLink, Balanced, OnRecord, Unrecorded

(***************************************************************************)
(* No link at the gateway goes unnoticed, with any number of overlapping   *)
(* runs: each one is on record, about to be recorded by the run that holds *)
(* the row, covered by an audited failed call, or lost with a run that     *)
(* died.                                                                   *)
(***************************************************************************)
THEOREM LinksAreAccounted == Spec => []LinksAccounted
<1>1. Inv /\ AccountInv => LinksAccounted
  <2> SUFFICES ASSUME Inv, AccountInv, NEW c \in Cases
               PROVE  Len(gateway[c]) <= OnRecord(c) + Cardinality(Creators(c))
                                         + audited[c] + failures
    BY DEF LinksAccounted, OnRecord, Creators
  <2> QED
    BY OneCreator DEF Inv, ExecutorInv, AccountInv, Balanced
<1> QED
  BY <1>1, InvHolds, AccountInit, AccountStep, PTL DEF Spec
=============================================================================
