------------------------------ MODULE Lifecycle ------------------------------
(***************************************************************************)
(* What the gateway promises about each durable request, whatever happens  *)
(* around it: the states it passes through, and that it is transmitted at  *)
(* most once, after a claim, with an outcome that does not lie about the   *)
(* transmission. One step may move several requests: a transaction may.    *)
(***************************************************************************)
EXTENDS Naturals

CONSTANT Id

VARIABLES status,       \* "absent" before the submission
          transmitted   \* how often the upstream may have received it

vars == <<status, transmitted>>

Init ==
    /\ status = [i \in Id |-> "absent"]
    /\ transmitted = [i \in Id |-> 0]

Move(i, from, to) ==
    status[i] \in from /\ status'[i] \in to /\ transmitted'[i] = transmitted[i]

Submit(i) == Move(i, {"absent"}, {"pending_approval", "queued"})

Approve(i) == Move(i, {"pending_approval"}, {"queued"})

Deny(i) == Move(i, {"pending_approval"}, {"denied"})

Withdraw(i) == Move(i, {"pending_approval", "queued"}, {"expired", "cancelled"})

Claim(i) == Move(i, {"queued"}, {"dispatching"})

Transmit(i) ==
    /\ status[i] = "dispatching" /\ status'[i] = "dispatching"
    /\ transmitted[i] = 0 /\ transmitted'[i] = 1

Complete(i) == transmitted[i] = 1 /\ Move(i, {"dispatching"}, {"completed"})

Fail(i) == transmitted[i] = 0 /\ Move(i, {"dispatching"}, {"failed"})

LoseTrack(i) == Move(i, {"dispatching"}, {"outcome_unknown"})

Rest(i) == status'[i] = status[i] /\ transmitted'[i] = transmitted[i]

Step(i) ==
    \/ Rest(i)
    \/ Submit(i) \/ Approve(i) \/ Deny(i) \/ Withdraw(i)
    \/ Claim(i) \/ Transmit(i) \/ Complete(i) \/ Fail(i) \/ LoseTrack(i)

Next == \A i \in Id : Step(i)

Spec == Init /\ [][Next]_vars
=============================================================================
