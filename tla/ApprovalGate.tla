----------------------------- MODULE ApprovalGate -----------------------------
(***************************************************************************)
(* What the voice agent promises about a risky command: it is announced    *)
(* once, then either approved, run once and closed, or withdrawn before it *)
(* runs.  A withdrawn or closed command never moves again.                 *)
(***************************************************************************)
CONSTANT Record      \* the confirmation requests that can be announced

VARIABLE stage       \* how far each confirmation request has come

Stage == {"absent", "pending", "running", "closed", "withdrawn"}

Init == stage = [r \in Record |-> "absent"]

Move(r, from, to) ==
    /\ stage[r] = from
    /\ stage' = [stage EXCEPT ![r] = to]

Announce(r) == Move(r, "absent", "pending")
Approve(r)  == Move(r, "pending", "running")
Close(r)    == Move(r, "running", "closed")
Withdraw(r) == Move(r, "pending", "withdrawn")

Next == \E r \in Record : Announce(r) \/ Approve(r) \/ Close(r) \/ Withdraw(r)

Spec == Init /\ [][Next]_stage
================================================================================
