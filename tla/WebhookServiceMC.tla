-------------------------- MODULE WebhookServiceMC --------------------------
(* Small instances of WebhookService. *)
EXTENDS WebhookService, TLC

CONSTANTS c1, c2, p1, p2, h1, h2, shop, other, f1, f2, e1, e2, e3, x

OneHandler == {h1}
TwoHandlers == {h1, h2}
OneCase == {c1}
TwoCases == {c1, c2}
OnePayment == {p1}
TwoPayments == {p1, p2}
Shops == {shop, other}

FailedOf(c, m) == [kind |-> "failed", case |-> c, merchant |-> m]
PaidBy(p, l, n, m, s) ==
  [kind |-> "paid", payment |-> p, link |-> l, noted |-> n, merchant |-> m, at |-> s]

(* Two failures and two payments of the one case. *)
OneCasePayload ==
  f1 :> FailedOf(c1, None) @@ f2 :> FailedOf(c1, other) @@
  e1 :> PaidBy(p1, c1, c1, None, "captured") @@
  e2 :> PaidBy(p2, None, c1, shop, "authorized")

(* p1 is claimed for both cases, e3 names two of them, and x is no payment. *)
TwoCasesPayload ==
  f1 :> FailedOf(c1, shop) @@ f2 :> FailedOf(c2, None) @@
  e1 :> PaidBy(p1, c1, c1, shop, "captured") @@
  e2 :> PaidBy(p1, None, c2, other, "captured") @@
  e3 :> PaidBy(p2, c1, c2, None, "authorized") @@
  x :> [kind |-> "other"]

(* One payment claimed for two cases. *)
SharedPayload ==
  f1 :> FailedOf(c1, None) @@ f2 :> FailedOf(c2, None) @@
  e1 :> PaidBy(p1, c1, c1, None, "captured") @@
  e2 :> PaidBy(p1, None, c2, None, "captured")

SixEvents == {f1, f2, e1, e2, e3, x}
FourEvents == {f1, f2, e1, e2}
TwoEvents == {f1, e1}

OnePaidPayload ==
  f1 :> FailedOf(c1, shop) @@ e1 :> PaidBy(p1, c1, c1, None, "captured")

SameAmounts == [c \in Cases |-> 1]
EqualPayments == [p \in Payments |-> 1]
P2Differs == [p \in Payments |-> IF p = p2 THEN 2 ELSE 1]
ByLink == [p \in Payments |-> c1]
P1ByLink == [p \in Payments |-> IF p = p1 THEN c1 ELSE None]
ShopCheckout == [c \in Cases |-> shop]

Symmetry == Permutations(Handlers)
=============================================================================
