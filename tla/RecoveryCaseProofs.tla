------------------------- MODULE RecoveryCaseProofs -------------------------
(* What follows from the promise alone, and so holds of whatever keeps it. *)
EXTENDS RecoveryCase, TLAPS

CaseTypes ==
  /\ phase \in [Cases -> Phases]
  /\ links \subseteq Cases
  /\ paid \in [Cases -> Payments \cup {None}]

(***************************************************************************)
(* A case that counts as linked or recovered has a link at the gateway,    *)
(* and it is recovered exactly if a payment stands behind it.              *)
(***************************************************************************)
THEOREM PromisedCasesAreBacked ==
  ASSUME None \notin Payments
  PROVE  Spec => [](CaseTypes /\ Backed)
<1> DEFINE I == CaseTypes /\ Backed
<1>1. Init => I
  BY DEF Init, CaseTypes, Backed, Phases, Open
<1>2. I /\ [Next]_promise => I'
  <2> SUFFICES ASSUME I, [Next]_promise PROVE I'
    OBVIOUS
  <2> USE DEF CaseTypes, Backed
  <2>1. ASSUME NEW c \in Cases, Ingest(c) \/ Approve(c) \/ MakeLink(c) PROVE I'
    BY <2>1 DEF Ingest, Approve, MakeLink, Move, Phases, Open
  <2>2. ASSUME NEW c \in Cases, RecordLink(c) PROVE I'
    BY <2>2 DEF RecordLink, Move, Phases, Open
  <2>3. ASSUME NEW c \in Cases, Close(c) PROVE I'
    BY <2>3 DEF Close, Move, Phases, Open
  <2>4. ASSUME NEW c \in Cases, NEW p \in Payments, Recover(c, p) PROVE I'
    BY <2>4 DEF Recover, Move, Phases, Open
  <2>5. CASE UNCHANGED promise
    BY <2>5 DEF promise
  <2> QED
    BY <2>1, <2>2, <2>3, <2>4, <2>5 DEF Next
<1> QED
  BY <1>1, <1>2, PTL DEF Spec
=============================================================================
