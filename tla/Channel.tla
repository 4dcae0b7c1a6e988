------------------------------- MODULE Channel -------------------------------
(***************************************************************************)
(* What relaying promises the users of an unordered channel: each packet   *)
(* that is sent is received once, after that acknowledged once, and both   *)
(* in the end happen, whatever becomes of the relayers' commands.  One     *)
(* transaction may move several packets on.                                *)
(***************************************************************************)
EXTENDS Naturals

CONSTANT Packets

VARIABLE stage  \* how far each packet has come

Stages == {"unsent", "sent", "received", "acknowledged"}

Following(s) ==
  CASE s = "unsent" -> "sent"
    [] s = "sent" -> "received"
    [] s = "received" -> "acknowledged"

TypeOK == stage \in [Packets -> Stages]

Init == stage = [p \in Packets |-> "unsent"]

\* The packets S, all at stage s, go on to the next one.
Advance(S, s) ==
  /\ \A p \in S : stage[p] = s
  /\ stage' = [p \in Packets |-> IF p \in S THEN Following(s) ELSE stage[p]]

Next ==
  \E S \in (SUBSET Packets) \ {{}} :
    \E s \in Stages \ {"acknowledged"} : Advance(S, s)

\* A packet that has been sent is moved on.
Deliver(p) ==
  \E S \in SUBSET Packets :
    /\ p \in S
    /\ \E s \in {"sent", "received"} : Advance(S, s)

Spec == Init /\ [][Next]_stage

FairSpec == Spec /\ \A p \in Packets : WF_stage(Deliver(p))

=============================================================================
