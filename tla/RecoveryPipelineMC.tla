------------------------- MODULE RecoveryPipelineMC -------------------------
(* Values of the constants of RecoveryPipeline for TLC. *)
EXTENDS RecoveryPipeline, TLC

CONSTANTS c1, c2, w1, w2, alice

OneCase == {c1}
TwoCases == {c1, c2}
OneWorker == {w1}
TwoWorkers == {w1, w2}
OneCustomer == {alice}

Symmetry == Permutations(TwoWorkers)

SameCustomer == [c \in Cases |-> alice]
ActiveMerchant == [c \in Cases |-> "active"]
FromTheStart == [c \in Cases |-> 0]

NoCustomer == [c \in Cases |-> None]

(* A second case that has no merchant and a later start.                   *)
MixedMerchants == [c \in Cases |-> IF c = c1 THEN "active" ELSE "none"]
Staggered == [c \in Cases |-> IF c = c1 THEN 0 ELSE 1]

Fact(amount, currency, cause) ==
  [amount |-> amount, currency |-> currency, cause |-> cause]

Small == {Fact(1, "INR", "C1")}

(* The guardrails approve both, and the adapter sends only the first.      *)
SentOrRefused == {Fact(1, "INR", "C1"), Fact(1, "inr", "C1")}
SmallOrLarge == {Fact(1, "INR", "C1"), Fact(3, "INR", "C1")}

(* One fact for each branch of the two decision engines and the adapter. *)
Varied ==
  {Fact(0, "INR", "C1"), Fact(1, "INR", "C1"), Fact(2, "INR", "C2"), Fact(3, "INR", "C1"),
   Fact(1, "INR", "C4"), Fact(1, "INR", "C5"),
   Fact(1, "inr", "C3"), Fact(1, " INR", "C1"), Fact(1, "USD", "C1")}

DelayedOrNot == {"P_CREATE_LINK_DELAYED", "P_ESCALATE_ONLY"}
=============================================================================
