----------------------------- MODULE Approvals ------------------------------
(***************************************************************************)
(* The approval workflow: the gate in terragruntHandler and wsRunHandler,  *)
(* createApprovalRequest, and approvalActionHandler with the goroutine it  *)
(* starts for an approved operation.  A ticket is a row of the table       *)
(* approvals together with the request it was made for; a review is one    *)
(* POST of a reviewer.  The handler reads the row, checks that it is       *)
(* pending, and writes the verdict with an UPDATE that looks at the id     *)
(* alone: what happens between the read and the write is the point.        *)
(***************************************************************************)
EXTENDS Naturals, FiniteSets

CONSTANTS
  Tickets,
  Reviews,      \* bound: the POSTs of a behaviour, each made once
  Overlapping,  \* the tickets that two reviewers may have in the handler at a time
  MaxCrashes,   \* bound: deaths of the backend
  MaxToggles,   \* bound: changes of the setting
  None

ASSUME ApprovalsAssumption ==
  /\ Overlapping \subseteq Tickets
  /\ IsFiniteSet(Reviews)
  /\ MaxCrashes \in Nat /\ MaxToggles \in Nat
  /\ None \notin Tickets

VARIABLES
  required,   \* settings: ApprovalRequired
  ticket,     \* the status of each ticket's row
  review,     \* each review's handler
  job,        \* the goroutine a review has started
  runs,       \* how often runTerragrunt was entered for each ticket
  crashes, toggles

vars == <<required, ticket, review, job, runs, crashes, toggles>>

Verdict == {"approved", "rejected"}

TypeOK ==
  /\ required \in BOOLEAN
  /\ ticket \in [Tickets -> {"unasked", "ungated", "missing", "pending"} \cup Verdict]
  /\ review \in [Reviews -> [pc: {"idle", "decide", "start", "answered", "refused"},
                             of: Tickets \cup {None}, verdict: Verdict]]
  /\ job \in [Reviews -> {"none", "queued", "running", "ended", "lost"}]
  /\ runs \in [Tickets -> Nat]
  /\ crashes \in 0 .. MaxCrashes
  /\ toggles \in 0 .. MaxToggles

Init ==
  /\ required \in BOOLEAN
  /\ ticket = [t \in Tickets |-> "unasked"]
  /\ review = [v \in Reviews |-> [pc |-> "idle", of |-> None, verdict |-> "rejected"]]
  /\ job = [v \in Reviews |-> "none"]
  /\ runs = [t \in Tickets |-> 0]
  /\ crashes = 0
  /\ toggles = 0

Open == {v \in Reviews : review[v].pc \in {"decide", "start"}}

Reviewed(v) == review[v].of

\* The tickets whose reviews come one after the other.
InTurnTickets == Tickets \ Overlapping

-----------------------------------------------------------------------------

\* An apply or a destroy arrives.  A ticket that cannot be inserted is lost,
\* its id is returned all the same.
Ask(t) ==
  /\ ticket[t] = "unasked"
  /\ \/ /\ required
        /\ \E s \in {"pending", "missing"} : ticket' = [ticket EXCEPT ![t] = s]
        /\ UNCHANGED runs
     \/ /\ ~required
        /\ ticket' = [ticket EXCEPT ![t] = "ungated"]
        /\ runs' = [runs EXCEPT ![t] = @ + 1]
  /\ UNCHANGED <<required, review, job, crashes, toggles>>

SetRequired ==
  /\ toggles < MaxToggles
  /\ toggles' = toggles + 1
  /\ required' = ~required
  /\ UNCHANGED <<ticket, review, job, runs, crashes>>

\* Seeded: the status check lets through what is approved, or rejected.
PendingOrApproved(t) == ticket[t] \in {"pending", "approved"}
PendingOrRejected(t) == ticket[t] \in {"pending", "rejected"}

IsPending(t) == ticket[t] = "pending"

\* dbGetApproval and the check of its status.
Read(v, t, verdict) ==
  /\ review[v].pc = "idle"
  /\ t \in InTurnTickets => \A w \in Open : Reviewed(w) # t
  /\ review' = [review EXCEPT ![v] =
                  [pc |-> IF IsPending(t) THEN "decide" ELSE "refused",
                   of |-> t, verdict |-> verdict]]
  /\ UNCHANGED <<required, ticket, job, runs, crashes, toggles>>

\* Seeded: the action of the path is stored, not the status it stands for.
StoredAction(verdict) == IF verdict = "approved" THEN "approve" ELSE "reject"

Stored(verdict) == verdict

\* Seeded: any decision starts the operation, or none does.
AfterAny(verdict)  == "start"
AfterNone(verdict) == "answered"

After(verdict) == IF verdict = "approved" THEN "start" ELSE "answered"

\* dbUpdateApproval: UPDATE ... WHERE id=?.
Decide(v) ==
  /\ review[v].pc = "decide"
  /\ ticket' = [ticket EXCEPT ![Reviewed(v)] = Stored(review[v].verdict)]
  /\ review' = [review EXCEPT ![v].pc = After(review[v].verdict)]
  /\ UNCHANGED <<required, job, runs, crashes, toggles>>

\* The UPDATE fails: the reviewer gets its error.
DecideFails(v) ==
  /\ review[v].pc = "decide"
  /\ review' = [review EXCEPT ![v].pc = "refused"]
  /\ UNCHANGED <<required, ticket, job, runs, crashes, toggles>>

\* After the audit record and the notification: go func().
StartJob(v) ==
  /\ review[v].pc = "start"
  /\ review' = [review EXCEPT ![v].pc = "answered"]
  /\ job' = [job EXCEPT ![v] = "queued"]
  /\ UNCHANGED <<required, ticket, runs, crashes, toggles>>

RunJob(v) ==
  /\ job[v] = "queued"
  /\ job' = [job EXCEPT ![v] = "running"]
  /\ runs' = [runs EXCEPT ![Reviewed(v)] = @ + 1]
  /\ UNCHANGED <<required, ticket, review, crashes, toggles>>

EndJob(v) ==
  /\ job[v] = "running"
  /\ job' = [job EXCEPT ![v] = "ended"]
  /\ UNCHANGED <<required, ticket, review, runs, crashes, toggles>>

\* The backend dies with its handlers and goroutines; no start-up step looks
\* at the table approvals.
Crash ==
  /\ crashes < MaxCrashes
  /\ crashes' = crashes + 1
  /\ review' = [v \in Reviews |-> IF v \in Open THEN [review[v] EXCEPT !.pc = "refused"]
                                               ELSE review[v]]
  /\ job' = [v \in Reviews |-> IF job[v] \in {"queued", "running"} THEN "lost" ELSE job[v]]
  /\ UNCHANGED <<required, ticket, runs, toggles>>

Handler(v) == Decide(v) \/ StartJob(v) \/ RunJob(v) \/ EndJob(v)

Next ==
  \/ \E t \in Tickets : Ask(t)
  \/ SetRequired
  \/ \E v \in Reviews, t \in Tickets, verdict \in Verdict : Read(v, t, verdict)
  \/ \E v \in Reviews : Handler(v) \/ DecideFails(v)
  \/ Crash

Spec == Init /\ [][Next]_vars

\* A handler and a goroutine that can go on do.
FairSpec == Spec /\ \A v \in Reviews : WF_vars(Handler(v))

-----------------------------------------------------------------------------
(* Properties                                                              *)

\* How far a ticket has come in the terms of ApprovalDecision.
Decision(t) ==
  IF ticket[t] = "unasked" THEN "none"
  ELSE IF ticket[t] = "approved" /\ runs[t] > 0 THEN "executed"
  ELSE ticket[t]

Promise == INSTANCE ApprovalDecision
  WITH Tickets <- InTurnTickets, decision <- [t \in InTurnTickets |-> Decision(t)]

\* A ticket whose reviews do not overlap is kept the promise of: one decision
\* while it is pending, and no execution but the one that decision allows,
\* whatever reviews of other tickets do meanwhile (handler_approvals.go:53-141).
KeepsPromise == Promise!Spec

\* The operation of such a ticket runs once at most
\* (handler_approvals.go:62, 123-130).
RunsOnce == \A t \in InTurnTickets : runs[t] <= 1

\* When it is rejected, the operation has not run and no goroutine is left
\* that would run it (handler_approvals.go:82, 112-123).
RejectedNeverRuns ==
  \A t \in InTurnTickets : ticket[t] = "rejected" =>
    /\ runs[t] = 0
    /\ \A v \in Reviews : Reviewed(v) = t => review[v].pc # "start" /\ job[v] = "none"

\* One verdict is carried out: a ticket in turn runs once at most, and never
\* when it is rejected.
OneVerdict == RunsOnce /\ RejectedNeverRuns

\* However reviews overlap, every run of a gated operation answers an
\* approval of its own, given by a review that saw the ticket pending
\* (handler_approvals.go:62-130).
Approvers(t) ==
  {v \in Reviews : /\ Reviewed(v) = t
                   /\ review[v].verdict = "approved"
                   /\ review[v].pc = "answered"}
RunsAreApproved ==
  \A t \in Tickets : ticket[t] # "ungated" => runs[t] <= Cardinality(Approvers(t))

\* An approved operation is run, unless the backend has died
\* (handler_approvals.go:112-130).
ApprovedIsRun == \A t \in Tickets : ticket[t] = "approved" ~> runs[t] > 0 \/ crashes > 0
=============================================================================
