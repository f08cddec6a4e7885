---------------------------- MODULE RecoveryCase ----------------------------
(***************************************************************************)
(* What the system promises of a recovery case, without a word of how: a   *)
(* case is decided once, gets its link only after an approval, counts as   *)
(* linked only with a link that exists, is recovered by one payment only   *)
(* from there, and stays as it ended.  RecoveryPipeline, while its runs do *)
(* not overlap, and WebhookService both implement this specification, each *)
(* of them seeing the other one's part as it is stated here.               *)
(***************************************************************************)
CONSTANTS Cases, Payments, None

VARIABLES
  phase,   \* where a case is in its life
  links,   \* cases with a link at the gateway
  paid     \* the payment a case is recovered by, or None

promise == <<phase, links, paid>>

Open == {"undecided", "approved", "linked"}
Phases == Open \cup {"absent", "recovered", "closed"}

Init ==
  /\ phase \in [Cases -> {"absent", "undecided"}]
  /\ links = {}
  /\ paid = [c \in Cases |-> None]

Move(c, from, to) ==
  /\ phase[c] = from
  /\ phase' = [phase EXCEPT ![c] = to]

Ingest(c) == Move(c, "absent", "undecided") /\ UNCHANGED <<links, paid>>

Approve(c) == Move(c, "undecided", "approved") /\ UNCHANGED <<links, paid>>

MakeLink(c) ==
  /\ phase[c] = "approved"
  /\ links' = links \cup {c}
  /\ UNCHANGED <<phase, paid>>

RecordLink(c) ==
  /\ c \in links
  /\ Move(c, "approved", "linked")
  /\ UNCHANGED <<links, paid>>

Recover(c, p) ==
  /\ Move(c, "linked", "recovered")
  /\ paid' = [paid EXCEPT ![c] = p]
  /\ UNCHANGED links

(* The call that would make the link of an approved case may end it and    *)
(* nevertheless have made the link.                                        *)
Close(c) ==
  /\ \E from \in Open : Move(c, from, "closed")
  /\ \/ UNCHANGED links
     \/ phase[c] = "approved" /\ links' = links \cup {c}
  /\ UNCHANGED paid

Next ==
  \E c \in Cases :
    \/ Ingest(c) \/ Approve(c) \/ MakeLink(c) \/ RecordLink(c) \/ Close(c)
    \/ \E p \in Payments : Recover(c, p)

Spec == Init /\ [][Next]_promise

-----------------------------------------------------------------------------
(* Whatever keeps the promise keeps this: a case that counts as linked, or *)
(* is recovered, has a link at the gateway, and it is recovered exactly if *)
(* a payment stands behind it.                                             *)
Backed ==
  \A c \in Cases :
    /\ phase[c] \in {"linked", "recovered"} => c \in links
    /\ phase[c] = "recovered" <=> paid[c] # None
=============================================================================
