----------------------------- MODULE Evaluation -----------------------------
(***************************************************************************)
(* The offline evaluation: the naive baseline (eval/baseline.py) and the    *)
(* agent (eval/agent_evaluator.py), whose proposals come from the mock      *)
(* provider or from a language model (eval/llm_provider.py), played against *)
(* simulated customers (eval/simulator.py).                                 *)
(*                                                                         *)
(* An evaluation is a program that runs by itself and goes through the      *)
(* dataset case by case.  The engines read the clock for every case; the    *)
(* cases of the dataset were all created at one moment.                     *)
(***************************************************************************)
EXTENDS Integers, Sequences, FiniteSets, Functions, PolicyGuardrail

CONSTANTS Dataset,      \* a sequence of EvaluationCases
          Draws,        \* draws_per_case
          Lucks,        \* tables of draws, by <<case, seed>>; one is that of the hash
          Decider,      \* the evaluations that are run, in turn: each
                        \* "baseline", "mock" or "model"
          Answers       \* what a language model may propose

Ids == DOMAIN Dataset
Seeds == 0 .. Draws - 1

(* A case of the dataset; its chances and the draws they are compared with  *)
(* are in units of one part of the whole.                                   *)
EvaluationCases ==
  [amount : Nat \ {0}, currency : Currencies, category : Categories, attempted : BOOLEAN,
   failed : Nat, chance : [Policies -> Nat]]

(* What the schema lets pass (AgentDecision).                               *)
Proposals ==
  [category : Categories, policy : Policies,
   amount : {"same", "less", "absent"}, currency : {"same", "other", "absent"}]

ASSUME EvaluationAssumption ==
  /\ Draws \in Nat \ {0}
  /\ Decider \in Seq({"baseline", "mock", "model"})
  /\ Dataset \in Seq(EvaluationCases)
  /\ Lucks \subseteq [Ids \X Seeds -> Nat]
  /\ Answers \subseteq Proposals

Evaluations == DOMAIN Decider

VARIABLES luck,   \* the draws that the hash of case and seed gives: never changes
          aged,   \* 72 hours have passed since the dataset was generated
          run     \* run[e]: how far evaluation e is, and its books

vars == <<luck, aged, run>>

NoBooks == [cases |-> 0, draws |-> 0, recovered |-> 0, opportunity |-> 0, revenue |-> 0]

Init ==
  /\ luck \in Lucks
  /\ aged = FALSE
  /\ run = [e \in Evaluations |->
       [status |-> "idle", records |-> <<>>, overall |-> NoBooks,
        category |-> [c \in Categories |-> NoBooks]]]

-----------------------------------------------------------------------------
(* CustomerResponseSimulator.simulate: the draw depends on the case and the *)
(* seed alone, the chance on the policy.                                    *)
SimulateByPolicy(i, policy, seed) ==   \* wrong: each policy draws for itself
  luck[<<i, (seed + IF policy \in LinkPolicies THEN 1 ELSE 0) % Draws>>]
    < Dataset[i].chance[policy]

Simulate(i, policy, seed) == luck[<<i, seed>>] < Dataset[i].chance[policy]

(* What both engines are told about a case: an earlier attempt counts as a  *)
(* link, failures of the last 24 hours count as attempts.                   *)
Context(i, category) ==
  [amount |-> Dataset[i].amount, currency |-> Dataset[i].currency,
   category |-> category, link |-> Dataset[i].attempted, stale |-> aged]

Eligible(i) == Evaluate(Context(i, Dataset[i].category), TRUE, Dataset[i].failed) = "ELIGIBLE"

-----------------------------------------------------------------------------
(* The providers.  A proposal is [category, policy, amount, currency].      *)
Propose(i, policy) ==
  [category |-> Dataset[i].category, policy |-> policy,
   amount |-> Dataset[i].amount, currency |-> Dataset[i].currency]

MockDecision(i) ==
  Propose(i, IF Dataset[i].amount > HighValue THEN "P_ESCALATE_ONLY"
             ELSE CASE Dataset[i].category \in {"C1", "C3"} -> "P_CREATE_LINK_DELAYED"
                    [] Dataset[i].category = "C2" -> "P_CREATE_LINK_IMMEDIATE"
                    [] Dataset[i].category = "C4" -> "P_ESCALATE_ONLY"
                    [] Dataset[i].category = "C5" -> "P_NO_ACTION")

(* LLMAgentDecisionProvider._safe_fallback: no key, a timeout, a network    *)
(* error, a status other than 200, an answer that is no JSON or is not of   *)
(* the schema.                                                              *)
SafeFallback(i) ==
  Propose(i, IF Dataset[i].amount > HighValue THEN "P_ESCALATE_ONLY" ELSE "P_NO_ACTION")

(* A proposal of the model; amount and currency are filled in where it      *)
(* names none.                                                              *)
Completed(i, answer) ==
  [answer EXCEPT !.amount   = CASE @ = "less" -> Dataset[i].amount - 1
                                [] @ \in {"same", "absent"} -> Dataset[i].amount,
                 !.currency = CASE @ = "other" -> "USD"
                                [] @ \in {"same", "absent"} -> Dataset[i].currency]

(* EvaluationSafetyValidator.validate_proposal.  The category is the one    *)
(* that the proposal names.  (A proposal that is no AgentDecision gets a    *)
(* record of its own, after which evaluate() fails on it; the providers     *)
(* return nothing else.)                                                    *)
VerdictUncounted(i, p) ==   \* wrong: the failures of the day are not passed on
  Validate(Context(i, p.category), p.policy, p.amount, p.currency, TRUE, 0)

Verdict(i, p) ==
  Validate(Context(i, p.category), p.policy, p.amount, p.currency, TRUE, Dataset[i].failed)

-----------------------------------------------------------------------------
Recovered(i, policy) == {s \in Seeds : Simulate(i, policy, s)}

(* The counters of evaluate(), which move with every draw. *)
Booked(books, i, policy) ==
  LET won == Cardinality(Recovered(i, policy))
  IN  [cases |-> books.cases + 1, draws |-> books.draws + Draws,
       recovered |-> books.recovered + won,
       opportunity |-> books.opportunity + Dataset[i].amount,
       revenue |-> books.revenue + won * Dataset[i].amount]

NextCase(e) == Len(run[e].records) + 1

(* The books of the category are those of the case, whatever the proposal   *)
(* says the category is.                                                    *)
CategoryAsProposed(i, p) == p.category   \* wrong: the proposal's category is credited

CategoryOf(i, p) == Dataset[i].category

(* One turn of the loop: decide, validate, draw, add up. *)
Entered(r, i, p, policy, approved) ==
  [r EXCEPT !.records = Append(@, [proposed |-> p, policy |-> policy,
                                   approved |-> approved, aged |-> aged,
                                   recovered |-> Recovered(i, policy)]),
            !.overall = Booked(@, i, policy),
            !.category[CategoryOf(i, p)] = Booked(@, i, policy)]

Working(e) == run[e].status = "running" /\ NextCase(e) \in Ids

(* Evaluations share nothing but the clock: they are taken in turn. *)
Begin(e) ==
  /\ run[e].status = "idle"
  /\ \A f \in 1 .. e - 1 : run[f].status \in {"done", "failed"}
  /\ run' = [run EXCEPT ![e].status = "running"]
  /\ UNCHANGED <<luck, aged>>

(* BaselinePolicy: an immediate link for every eligible case. *)
BaselineCase(e) ==
  LET i == NextCase(e)
      policy == IF Eligible(i) THEN "P_CREATE_LINK_IMMEDIATE" ELSE "P_NO_ACTION"
  IN  /\ Working(e) /\ Decider[e] = "baseline"
      /\ run' = [run EXCEPT ![e] = Entered(@, i, Propose(i, policy), policy, TRUE)]
      /\ UNCHANGED <<luck, aged>>

AgentCase(r, i, p) == Entered(r, i, p, Verdict(i, p).policy, Verdict(i, p).decision = "APPROVE")

MockCase(e) ==
  /\ Working(e) /\ Decider[e] = "mock"
  /\ run' = [run EXCEPT ![e] = AgentCase(@, NextCase(e), MockDecision(NextCase(e)))]
  /\ UNCHANGED <<luck, aged>>

ModelProposes(e) ==
  /\ Working(e) /\ Decider[e] = "model"
  /\ \E answer \in Answers :
       run' = [run EXCEPT ![e] = AgentCase(@, NextCase(e), Completed(NextCase(e), answer))]
  /\ UNCHANGED <<luck, aged>>

ModelFallsBack(e) ==
  /\ Working(e) /\ Decider[e] = "model"
  /\ run' = [run EXCEPT ![e] = AgentCase(@, NextCase(e), SafeFallback(NextCase(e)))]
  /\ UNCHANGED <<luck, aged>>

(* An answer of another shape (an empty list of candidates, JSON that is no *)
(* object) raises what decide() does not catch: there is no fallback, and   *)
(* the evaluation ends before results or report are written.                *)
ModelFails(e) ==
  /\ Working(e) /\ Decider[e] = "model"
  /\ run' = [run EXCEPT ![e].status = "failed"]
  /\ UNCHANGED <<luck, aged>>

LastOneLeft(e) == NextCase(e) + 1 \notin Ids   \* wrong: the last case is left out

NoneLeft(e) == NextCase(e) \notin Ids

Finish(e) ==
  /\ run[e].status = "running" /\ NoneLeft(e)
  /\ run' = [run EXCEPT ![e].status = "done"]
  /\ UNCHANGED <<luck, aged>>

(* Time passes, between two evaluations or within one. *)
Age ==
  /\ ~aged
  /\ aged' = TRUE
  /\ UNCHANGED <<luck, run>>

Next ==
  \/ \E e \in Evaluations : \/ Begin(e) \/ BaselineCase(e) \/ MockCase(e)
                            \/ ModelProposes(e) \/ ModelFallsBack(e) \/ ModelFails(e)
                            \/ Finish(e)
  \/ Age

Spec == Init /\ [][Next]_vars

-----------------------------------------------------------------------------
Books == [cases : Nat, draws : Nat, recovered : Nat, opportunity : Nat, revenue : Nat]

(* The variables stay within their types, every record is of a policy, and  *)
(* an evaluation that is done has gone through the whole dataset.           *)
TypeOK ==
  /\ luck \in Lucks
  /\ aged \in BOOLEAN
  /\ \A e \in Evaluations :
       LET r == run[e]
       IN  /\ r.status \in {"idle", "running", "done", "failed"}
           /\ r.overall \in Books
           /\ r.category \in [Categories -> Books]
           /\ Len(r.records) <= Len(Dataset)
           /\ r.status = "done" => Len(r.records) = Len(Dataset)
           /\ \A i \in DOMAIN r.records : r.records[i].policy \in Policies

(* The expected revenue of the report: the sum over all draws, floored once. *)
Expected(books) == books.revenue \div Draws

Total(e, field) == SumFunction([c \in Categories |-> run[e].category[c][field]])

(* The books balance after every case: the categories add up to the whole,  *)
(* no category recovers more than its own opportunity, and what flooring    *)
(* each category loses is less than a paisa apiece.                         *)
BooksBalance ==
  \A e \in Evaluations :
    /\ \A field \in DOMAIN NoBooks : Total(e, field) = run[e].overall[field]
    /\ \A c \in Categories :
         LET b == run[e].category[c]
         IN  b.recovered <= b.draws /\ Expected(b) <= b.opportunity
             /\ b.cases = Cardinality({i \in DOMAIN run[e].records : Dataset[i].category = c})
    /\ LET parts == SumFunction([c \in Categories |-> Expected(run[e].category[c])])
       IN  Expected(run[e].overall) - parts \in 0 .. Cardinality(Categories) - 1

(* The two evaluations meet the same customers (common random numbers): of  *)
(* two policies for a case, the one with the better chance recovers every   *)
(* draw that the other recovers, whichever evaluation applied it and        *)
(* whatever came before.                                                    *)
SameCustomers ==
  \A e, f \in Evaluations : \A i \in DOMAIN run[e].records \cap DOMAIN run[f].records :
    LET a == run[e].records[i] b == run[f].records[i]
    IN  Dataset[i].chance[a.policy] <= Dataset[i].chance[b.policy]
          => a.recovered \subseteq b.recovered

(* The eligibility engine, told the case's own category, would have found   *)
(* it eligible at the moment of the record.                                 *)
EligibleThen(i, r) ==
  Evaluate([Context(i, Dataset[i].category) EXCEPT !.stale = r.aged], TRUE, Dataset[i].failed)
    = "ELIGIBLE"

(* A model may call a case what it likes, but no proposal moves the limits:  *)
(* a link is granted only as approved, for the amount and currency of the    *)
(* case, not above the ceiling, not a second time, not after too many        *)
(* failures and not for a case too old.  Where the proposal names the case's *)
(* own category, as baseline and mock always do, the case is eligible.       *)
LimitsBindProposals ==
  \A e \in Evaluations : \A i \in DOMAIN run[e].records :
    LET r == run[e].records[i]
    IN  r.policy \in LinkPolicies =>
          /\ r.approved
          /\ r.proposed.amount = Dataset[i].amount
          /\ SameCurrency(r.proposed.currency, Dataset[i].currency)
          /\ Dataset[i].amount <= HighValue /\ ~Dataset[i].attempted
          /\ Dataset[i].failed < MaxAttempts /\ ~r.aged
          /\ Decider[e] # "model" \/ r.proposed.category = Dataset[i].category
               => EligibleThen(i, r)

(* "Agent proposals cannot bypass eligibility" (the report of every agent    *)
(* evaluation): whatever the proposal calls the case, a link is granted only *)
(* for a case that is eligible.  Does not hold: validate_proposal has the    *)
(* guardrails judge by the category that the proposal names.                 *)
LinksAreEligible ==
  \A e \in Evaluations : \A i \in DOMAIN run[e].records :
    run[e].records[i].policy \in LinkPolicies => EligibleThen(i, run[e].records[i])
=============================================================================
