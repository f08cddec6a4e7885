---------------------------- MODULE StateMachine ----------------------------
(***************************************************************************)
(* The lifecycle graph of a recovery case: CaseState (domain/enums.py) and *)
(* RecoveryStateMachine (domain/state_machine.py).                         *)
(***************************************************************************)
EXTENDS Naturals

TerminalStates ==
  {"RECOVERED", "EXPIRED", "ESCALATED", "TERMINAL_NO_ACTION", "ERROR_TERMINAL"}

CaseState ==
  {"FAILED_INGESTED", "CONTEXT_RETRIEVED", "ELIGIBILITY_CHECKED", "AI_TRIAGED",
   "POLICY_VALIDATED", "ACTION_APPROVED", "ACTION_EXECUTED", "AWAITING_PAYMENT",
   "VERIFICATION"} \cup TerminalStates

(* _TRANSITIONS as a set of edges; a terminal state has none leaving it. *)
Transitions ==
       {"FAILED_INGESTED"} \X {"CONTEXT_RETRIEVED", "ERROR_TERMINAL"}
  \cup {"CONTEXT_RETRIEVED"} \X
         {"ELIGIBILITY_CHECKED", "TERMINAL_NO_ACTION", "ESCALATED", "ERROR_TERMINAL"}
  \cup {"ELIGIBILITY_CHECKED"} \X
         {"AI_TRIAGED", "TERMINAL_NO_ACTION", "ESCALATED", "ERROR_TERMINAL"}
  \cup {"AI_TRIAGED"} \X {"POLICY_VALIDATED", "ERROR_TERMINAL"}
  \cup {"POLICY_VALIDATED"} \X
         {"ACTION_APPROVED", "TERMINAL_NO_ACTION", "ESCALATED", "ERROR_TERMINAL"}
  \cup {"ACTION_APPROVED"} \X
         {"ACTION_EXECUTED", "TERMINAL_NO_ACTION", "ESCALATED", "ERROR_TERMINAL"}
  \cup {"ACTION_EXECUTED"} \X
         {"AWAITING_PAYMENT", "VERIFICATION", "RECOVERED", "ESCALATED", "ERROR_TERMINAL"}
  \cup {"AWAITING_PAYMENT"} \X
         {"VERIFICATION", "RECOVERED", "EXPIRED", "ESCALATED", "ERROR_TERMINAL"}
  \cup {"VERIFICATION"} \X {"RECOVERED", "EXPIRED", "ESCALATED", "ERROR_TERMINAL"}

IsTerminal(s) == s \in TerminalStates

CanTransition(s, t) == <<s, t>> \in Transitions

TransitionUnlessTerminal(s, t) == ~IsTerminal(s)   \* wrong: any way out will do

(* Whether transition() returns normally instead of raising. *)
TransitionAllowed(s, t) == ~IsTerminal(s) /\ CanTransition(s, t)

(* How far along its lifecycle a case in state s is; used to say that a     *)
(* case never moves backwards.                                             *)
Stage(s) ==
  CASE s = "FAILED_INGESTED"     -> 0
    [] s = "CONTEXT_RETRIEVED"   -> 1
    [] s = "ELIGIBILITY_CHECKED" -> 2
    [] s = "AI_TRIAGED"          -> 3
    [] s = "POLICY_VALIDATED"    -> 4
    [] s = "ACTION_APPROVED"     -> 5
    [] s = "ACTION_EXECUTED"     -> 6
    [] s = "AWAITING_PAYMENT"    -> 7
    [] s = "VERIFICATION"        -> 8
    [] OTHER                     -> 9

(* The phase of RecoveryCase that a case in state s is in. *)
PhaseOf(s) ==
  CASE Stage(s) < 5        -> "undecided"
    [] Stage(s) = 5        -> "approved"
    [] Stage(s) \in 6 .. 8 -> "linked"
    [] s = "RECOVERED"     -> "recovered"
    [] OTHER               -> "closed"
=============================================================================
