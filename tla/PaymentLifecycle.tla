-------------------------- MODULE PaymentLifecycle --------------------------
(***************************************************************************)
(* What the payment table promises a reader: the stored lifecycle appears  *)
(* once, in INITIATION_PENDING, and from then on moves only along the      *)
(* transition table.  One save may carry up to two transitions (a manual   *)
(* approval authorises and captures, a retry re-opens and waits).          *)
(***************************************************************************)
EXTENDS PaymentDomain

VARIABLE state

Absent == "ABSENT"

TwoSteps(from) ==
  Transitions(from) \cup UNION {Transitions(s) : s \in Transitions(from)}

Init == state = Absent

Open == state = Absent /\ state' = "INITIATION_PENDING"

Move == state # Absent /\ state' \in TwoSteps(state)

Next == Open \/ Move

Spec == Init /\ [][Next]_state
=============================================================================
