-------------------------- MODULE ApprovalDecision --------------------------
(***************************************************************************)
(* What the approval workflow promises for one ticket after another: a     *)
(* ticket is decided once, while it is pending, and the operation it holds *)
(* runs at most once and only when the decision is to approve.             *)
(***************************************************************************)
CONSTANT Tickets

VARIABLE decision

States == {"none", "ungated", "missing", "pending", "rejected", "approved", "executed"}

Init == decision = [t \in Tickets |-> "none"]

Moves(t, from, to) ==
  /\ decision[t] = from
  /\ decision' = [decision EXCEPT ![t] = to]

\* The request meets the gate: it runs at once when no approval is required,
\* and is lost when its ticket cannot be stored.
Ask(t)     == \E to \in {"ungated", "missing", "pending"} : Moves(t, "none", to)
Approve(t) == Moves(t, "pending", "approved")
Reject(t)  == Moves(t, "pending", "rejected")
Execute(t) == Moves(t, "approved", "executed")

Next == \E t \in Tickets : Ask(t) \/ Approve(t) \/ Reject(t) \/ Execute(t)

Spec == Init /\ [][Next]_decision
=============================================================================
