---------------------------- MODULE EvaluationMC ----------------------------
(* A dataset of four cases, played with two draws each. *)
EXTENDS Evaluation, TLC

Chances(none, immediate, delayed, escalate) ==
  [p \in Policies |->
     CASE p = "P_NO_ACTION" -> none
       [] p = "P_CREATE_LINK_IMMEDIATE" -> immediate
       [] p = "P_CREATE_LINK_DELAYED" -> delayed
       [] p = "P_ESCALATE_ONLY" -> escalate]

Case(category, amount, attempted, failed, chance) ==
  [category |-> category, amount |-> amount, currency |-> "INR",
   attempted |-> attempted, failed |-> failed, chance |-> chance]

(* A plain case, one of risk, a customer who has failed before, and a dear  *)
(* case that was tried before.                                              *)
OneOfEach ==
  << Case("C1", 5, FALSE, 0, Chances(0, 1, 2, 1)),
     Case("C4", 3, FALSE, 0, Chances(0, 2, 1, 1)),
     Case("C2", 7, FALSE, 1, Chances(1, 2, 1, 1)),
     Case("C3", 25, TRUE, 0, Chances(0, 1, 2, 0)) >>

SomeLuck == { [d \in Ids \X Seeds |-> d[2] + x] : x \in {0, 1} }

OfEachKind == <<"mock", "baseline", "model">>

Proposed(category, policy, amount, currency) ==
  [category |-> category, policy |-> policy, amount |-> amount, currency |-> currency]

(* A link for what the model takes for C1 or for C4, for less, for another   *)
(* currency, or with amount and currency left out.                          *)
SomeAnswers ==
  { Proposed("C1", "P_CREATE_LINK_IMMEDIATE", "same", "same"),
    Proposed("C4", "P_CREATE_LINK_IMMEDIATE", "same", "same"),
    Proposed("C1", "P_CREATE_LINK_DELAYED", "absent", "absent"),
    Proposed("C1", "P_CREATE_LINK_IMMEDIATE", "less", "same"),
    Proposed("C1", "P_CREATE_LINK_IMMEDIATE", "same", "other") }
=============================================================================
