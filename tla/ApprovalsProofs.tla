-------------------------- MODULE ApprovalsProofs --------------------------
(***************************************************************************)
(* Theorems about Approvals: to a ticket whose reviews do not overlap in   *)
(* the handler it keeps the promise of ApprovalDecision, whatever reviews  *)
(* of other tickets do, for all sets of tickets and reviews and any number *)
(* of crashes.                                                             *)
(***************************************************************************)
EXTENDS Approvals, FiniteSetTheorems, TLAPS

LEMMA TypeStep == TypeOK /\ [Next]_vars => TypeOK'
<1> SUFFICES ASSUME TypeOK, [Next]_vars PROVE TypeOK'
  OBVIOUS
<1> USE ApprovalsAssumption DEF TypeOK, Verdict
<1>1. ASSUME NEW t \in Tickets, Ask(t) PROVE TypeOK'
  BY <1>1 DEF Ask
<1>2. CASE SetRequired
  BY <1>2 DEF SetRequired
<1>3. ASSUME NEW v \in Reviews, NEW t \in Tickets, NEW verdict \in Verdict, Read(v, t, verdict)
      PROVE  TypeOK'
  BY <1>3 DEF Read, IsPending
<1>4. ASSUME NEW v \in Reviews, Decide(v) PROVE TypeOK'
  <2>1. /\ Stored(review[v].verdict) \in Verdict
        /\ After(review[v].verdict) \in {"start", "answered"}
    BY DEF Stored, After
  <2>2. ticket' \in [Tickets -> {"unasked", "ungated", "missing", "pending"} \cup Verdict]
    BY <1>4, <2>1 DEF Decide
  <2>3. [review[v] EXCEPT !.pc = After(review[v].verdict)] \in
          [pc: {"idle", "decide", "start", "answered", "refused"},
           of: Tickets \cup {None}, verdict: Verdict]
    BY <2>1
  <2>4. review' \in [Reviews -> [pc: {"idle", "decide", "start", "answered", "refused"},
                                of: Tickets \cup {None}, verdict: Verdict]]
    BY <1>4, <2>3 DEF Decide
  <2>5. UNCHANGED <<required, job, runs, crashes, toggles>>
    BY <1>4 DEF Decide
  <2>6. QED BY <2>2, <2>4, <2>5
<1>5. ASSUME NEW v \in Reviews, DecideFails(v) \/ StartJob(v) PROVE TypeOK'
  <2>1. CASE DecideFails(v)
    BY <2>1 DEF DecideFails
  <2>2. CASE StartJob(v)
    BY <2>2 DEF StartJob
  <2>3. QED BY <1>5, <2>1, <2>2
<1>6. ASSUME NEW v \in Reviews, RunJob(v) \/ EndJob(v) PROVE TypeOK'
  BY <1>6 DEF RunJob, EndJob, Reviewed
<1>7. CASE Crash
  BY <1>7 DEF Crash
<1>8. CASE UNCHANGED vars
  BY <1>8 DEF vars
<1>9. QED
  BY <1>1, <1>2, <1>3, <1>4, <1>5, <1>6, <1>7, <1>8 DEF Next, Handler

\* Every reachable state is well typed.
THEOREM ApprovalsType == Spec => []TypeOK
<1>1. Init => TypeOK
  BY ApprovalsAssumption DEF Init, TypeOK, Verdict
<1>2. QED BY <1>1, TypeStep, PTL DEF Spec

-----------------------------------------------------------------------------
(* The inductive invariant                                                 *)

\* A review that is about to start, or has started, the operation of t.
Holds(v, t) == Reviewed(v) = t /\ (review[v].pc = "start" \/ job[v] # "none")

\* A review that will still make a run of t.
WillRun(v, t) == Reviewed(v) = t /\ (review[v].pc = "start" \/ job[v] = "queued")

\* Of a ticket in turn: one review is in the handler; a ticket that is to be
\* decided is pending; one review runs it at most, and then it is approved.
InTurn ==
  /\ \A v \in Reviews : review[v].pc # "idle" => Reviewed(v) \in Tickets
  /\ \A v \in Reviews : job[v] # "none" => review[v].pc = "answered"
  /\ \A t \in InTurnTickets :
       /\ \A v, w \in Open : Reviewed(v) = t /\ Reviewed(w) = t => v = w
       /\ \A v \in Reviews : review[v].pc = "decide" /\ Reviewed(v) = t => ticket[t] = "pending"
       /\ \A v \in Reviews : Holds(v, t) => ticket[t] = "approved"
       /\ \A v, w \in Reviews : Holds(v, t) /\ Holds(w, t) => v = w
       /\ \A v \in Reviews : WillRun(v, t) => runs[t] = 0
       /\ ticket[t] \notin {"approved", "ungated"} => runs[t] = 0
  /\ RunsOnce

LEMMA InTurnStep ==
  ASSUME TypeOK, InTurn, [Next]_vars
  PROVE  InTurn'
<1> USE DEF TypeOK, InTurn, RunsOnce, Holds, WillRun, Reviewed, Open, Verdict, InTurnTickets
<1>1. ASSUME NEW t \in Tickets, Ask(t) PROVE InTurn'
  BY <1>1 DEF Ask
<1>2. CASE SetRequired
  BY <1>2 DEF SetRequired
<1>3. ASSUME NEW v \in Reviews, NEW t \in Tickets, NEW verdict \in Verdict, Read(v, t, verdict)
      PROVE  InTurn'
  BY <1>3 DEF Read, IsPending
<1>4. ASSUME NEW v \in Reviews, Decide(v) PROVE InTurn'
  BY <1>4 DEF Decide, After, Stored
<1>5. ASSUME NEW v \in Reviews, DecideFails(v) PROVE InTurn'
  BY <1>5 DEF DecideFails
<1>6. ASSUME NEW v \in Reviews, StartJob(v) PROVE InTurn'
  BY <1>6 DEF StartJob
<1>7. ASSUME NEW v \in Reviews, RunJob(v) PROVE InTurn'
  BY <1>7 DEF RunJob
<1>8. ASSUME NEW v \in Reviews, EndJob(v) PROVE InTurn'
  BY <1>8 DEF EndJob
<1>9. CASE Crash
  BY <1>9 DEF Crash
<1>10. CASE UNCHANGED vars
  BY <1>10 DEF vars
<1>11. QED
  BY <1>1, <1>2, <1>3, <1>4, <1>5, <1>6, <1>7, <1>8, <1>9, <1>10 DEF Next, Handler

LEMMA InTurnInvariant == Spec => [](TypeOK /\ InTurn)
<1>1. Init => InTurn
  BY DEF Init, InTurn, RunsOnce, Holds, WillRun, Reviewed, Open, InTurnTickets
<1>2. TypeOK /\ InTurn /\ [Next]_vars => InTurn'
  BY InTurnStep
<1>3. QED BY <1>1, <1>2, ApprovalsType, PTL DEF Spec

\* The operation of a ticket in turn runs once at most, and when the ticket is
\* rejected it has not run and no goroutine is left that would run it.
THEOREM OneVerdictIsCarriedOut == Spec => []OneVerdict
<1>1. InTurn => OneVerdict
  BY DEF InTurn, OneVerdict, RejectedNeverRuns, Holds, InTurnTickets
<1>2. QED BY <1>1, InTurnInvariant, PTL

-----------------------------------------------------------------------------
(* The promise is kept                                                     *)

\* A step of one ticket in the terms of ApprovalDecision.
LEMMA MovesOne ==
  ASSUME NEW t \in InTurnTickets, NEW to,
         Decision(t)' = to,
         \A s \in InTurnTickets : s # t => Decision(s)' = Decision(s)
  PROVE  Promise!Moves(t, Decision(t), to)
  BY DEF Promise!Moves

\* A step that leaves the row and the runs of every ticket in turn alone.
LEMMA MovesNone ==
  ASSUME \A s \in InTurnTickets : ticket'[s] = ticket[s] /\ runs'[s] = runs[s]
  PROVE  [t \in InTurnTickets |-> Decision(t)]' = [t \in InTurnTickets |-> Decision(t)]
  BY DEF Decision, InTurnTickets

\* The handler implements ApprovalDecision for the tickets in turn: such a
\* ticket is decided once, and executed once and only after its approval.
THEOREM HandlerKeepsPromise == Spec => KeepsPromise
<1> DEFINE decided == [t \in InTurnTickets |-> Decision(t)]
<1>1. Init => Promise!Init
  BY DEF Init, Promise!Init, Decision, InTurnTickets
<1>2. TypeOK /\ InTurn /\ [Next]_vars => [Promise!Next]_decided
  <2> SUFFICES ASSUME TypeOK, InTurn, [Next]_vars
               PROVE  Promise!Next \/ decided' = decided
    OBVIOUS
  <2>1. InTurnTickets \subseteq Tickets
    BY DEF InTurnTickets
  <2>2. ASSUME NEW t \in Tickets, Ask(t)
        PROVE  Promise!Next \/ decided' = decided
    <3>1. PICK to \in {"ungated", "missing", "pending"} :
            ticket' = [ticket EXCEPT ![t] = to]
      BY <2>2 DEF Ask
    <3>2. CASE t \in InTurnTickets
      <4>1. /\ Decision(t) = "none" /\ Decision(t)' = to
            /\ \A s \in InTurnTickets : s # t => Decision(s)' = Decision(s)
        BY <2>1, <2>2, <3>1 DEF Ask, Decision, TypeOK
      <4>2. Promise!Moves(t, "none", to)
        BY <3>2, <4>1, MovesOne
      <4>3. QED BY <3>1, <3>2, <4>2 DEF Promise!Ask, Promise!Next
    <3>3. CASE t \notin InTurnTickets
      <4>1. \A s \in InTurnTickets : ticket'[s] = ticket[s] /\ runs'[s] = runs[s]
        BY <2>1, <2>2, <3>1, <3>3 DEF Ask, TypeOK
      <4>2. QED BY <4>1, MovesNone
    <3>4. QED BY <3>2, <3>3
  <2>3. ASSUME NEW v \in Reviews, Decide(v)
        PROVE  Promise!Next \/ decided' = decided
    <3>1. PICK t \in Tickets : t = Reviewed(v)
      BY <2>3 DEF Decide, InTurn
    <3>2. /\ runs' = runs /\ review[v].verdict \in Verdict
          /\ ticket' = [ticket EXCEPT ![t] = review[v].verdict]
      BY <2>3, <3>1 DEF Decide, Stored, TypeOK
    <3>3. CASE t \in InTurnTickets
      <4>1. ticket[t] = "pending" /\ runs[t] = 0
        BY <2>3, <3>1, <3>3 DEF Decide, InTurn
      <4>2. /\ Decision(t) = "pending" /\ Decision(t)' = review[v].verdict
            /\ \A s \in InTurnTickets : s # t => Decision(s)' = Decision(s)
        BY <2>1, <3>2, <4>1 DEF Decision, TypeOK, Verdict
      <4>3. Promise!Moves(t, "pending", review[v].verdict)
        BY <3>3, <4>2, MovesOne
      <4>4. QED
        BY <3>2, <3>3, <4>3 DEF Promise!Approve, Promise!Reject, Promise!Next, Verdict
    <3>4. CASE t \notin InTurnTickets
      <4>1. \A s \in InTurnTickets : ticket'[s] = ticket[s] /\ runs'[s] = runs[s]
        BY <2>1, <3>2, <3>4 DEF TypeOK
      <4>2. QED BY <4>1, MovesNone
    <3>5. QED BY <3>3, <3>4
  <2>4. ASSUME NEW v \in Reviews, RunJob(v)
        PROVE  Promise!Next \/ decided' = decided
    <3>1. PICK t \in Tickets : t = Reviewed(v)
      BY <2>4 DEF RunJob, InTurn
    <3>2. ticket' = ticket /\ runs' = [runs EXCEPT ![t] = @ + 1]
      BY <2>4, <3>1 DEF RunJob
    <3>3. CASE t \in InTurnTickets
      <4>1. Holds(v, t) /\ WillRun(v, t)
        BY <2>4, <3>1 DEF RunJob, Holds, WillRun
      <4>2. ticket[t] = "approved" /\ runs[t] = 0
        BY <3>3, <4>1 DEF InTurn
      <4>3. /\ Decision(t) = "approved" /\ Decision(t)' = "executed"
            /\ \A s \in InTurnTickets : s # t => Decision(s)' = Decision(s)
        BY <2>1, <3>2, <4>2 DEF Decision, TypeOK
      <4>4. Promise!Moves(t, "approved", "executed")
        BY <3>3, <4>3, MovesOne
      <4>5. QED BY <3>3, <4>4 DEF Promise!Execute, Promise!Next
    <3>4. CASE t \notin InTurnTickets
      <4>1. \A s \in InTurnTickets : ticket'[s] = ticket[s] /\ runs'[s] = runs[s]
        BY <2>1, <3>2, <3>4 DEF TypeOK
      <4>2. QED BY <4>1, MovesNone
    <3>5. QED BY <3>3, <3>4
  <2>5. ASSUME UNCHANGED <<ticket, runs>>
        PROVE  decided' = decided
    BY <2>5, MovesNone
  <2>6. ASSUME ~UNCHANGED <<ticket, runs>>
        PROVE  \/ \E t \in Tickets : Ask(t)
               \/ \E v \in Reviews : Decide(v) \/ RunJob(v)
    BY <2>6 DEF Next, vars, Handler, SetRequired, Read, DecideFails, StartJob, EndJob, Crash
  <2>7. QED BY <2>2, <2>3, <2>4, <2>5, <2>6
<1>3. QED
  BY <1>1, <1>2, InTurnInvariant, PTL DEF Spec, KeepsPromise, Promise!Spec

-----------------------------------------------------------------------------
(* Reviews that overlap                                                    *)

\* The reviews whose goroutine has entered runTerragrunt for t, or has died
\* with the backend.
Ran(t) == {v \in Reviews : Reviewed(v) = t /\ job[v] \in {"running", "ended", "lost"}}

\* Of any ticket: a review that has got past the check of its status is one of
\* a gated ticket; what it starts, it has approved; and each run is one of Ran.
Counted ==
  /\ \A v \in Reviews : review[v].pc \in {"decide", "start"} \/ job[v] # "none" =>
       Reviewed(v) \in Tickets /\ ticket[Reviewed(v)] \notin {"unasked", "ungated"}
  /\ \A v \in Reviews : review[v].pc = "start" => review[v].verdict = "approved"
  /\ \A v \in Reviews : job[v] # "none" =>
       review[v].pc = "answered" /\ review[v].verdict = "approved"
  /\ \A t \in Tickets : ticket[t] = "unasked" => runs[t] = 0
  /\ \A t \in Tickets : ticket[t] # "ungated" => runs[t] <= Cardinality(Ran(t))

LEMMA RanIsCounted ==
  ASSUME NEW t
  PROVE  IsFiniteSet(Ran(t)) /\ Cardinality(Ran(t)) \in Nat
<1>1. Ran(t) \in SUBSET Reviews
  BY DEF Ran
<1>2. IsFiniteSet(Ran(t))
  BY <1>1, FS_Subset, ApprovalsAssumption
<1>3. QED BY <1>2, FS_CardinalityType

\* Where no run is made, it is enough that no review leaves Ran.
LEMMA RanGrows ==
  ASSUME NEW t \in Tickets, TypeOK, Counted, TypeOK',
         ticket'[t] # "ungated", ticket[t] # "ungated",
         runs'[t] = runs[t], Ran(t) \subseteq Ran(t)'
  PROVE  runs'[t] <= Cardinality(Ran(t)')
<1>1. Ran(t)' \in SUBSET Reviews
  BY DEF Ran
<1>2. IsFiniteSet(Ran(t)') /\ Cardinality(Ran(t)') \in Nat
  BY <1>1, FS_Subset, FS_CardinalityType, ApprovalsAssumption
<1>3. Cardinality(Ran(t)) <= Cardinality(Ran(t)')
  BY <1>2, FS_Subset
<1>4. runs[t] <= Cardinality(Ran(t)) /\ runs[t] \in Nat /\ Cardinality(Ran(t)) \in Nat
  BY RanIsCounted DEF Counted, TypeOK
<1>5. QED BY <1>2, <1>3, <1>4

LEMMA CountedStep ==
  ASSUME TypeOK, Counted, [Next]_vars
  PROVE  Counted'
<1>1. TypeOK'
  BY TypeStep
<1> DEFINE Sorted ==
      /\ \A v \in Reviews : review[v].pc \in {"decide", "start"} \/ job[v] # "none" =>
           Reviewed(v) \in Tickets /\ ticket[Reviewed(v)] \notin {"unasked", "ungated"}
      /\ \A v \in Reviews : review[v].pc = "start" => review[v].verdict = "approved"
      /\ \A v \in Reviews : job[v] # "none" =>
           review[v].pc = "answered" /\ review[v].verdict = "approved"
      /\ \A t \in Tickets : ticket[t] = "unasked" => runs[t] = 0
<1>2. Sorted'
  <2> USE DEF TypeOK, Counted, Reviewed, Verdict
  <2>1. ASSUME NEW t \in Tickets, Ask(t) PROVE Sorted'
    BY <2>1 DEF Ask
  <2>2. CASE SetRequired
    BY <2>2 DEF SetRequired
  <2>3. ASSUME NEW v \in Reviews, NEW t \in Tickets, NEW verdict \in Verdict, Read(v, t, verdict)
        PROVE  Sorted'
    BY <2>3 DEF Read, IsPending
  <2>4. ASSUME NEW v \in Reviews, Decide(v) PROVE Sorted'
    BY <2>4 DEF Decide, After, Stored
  <2>5. ASSUME NEW v \in Reviews, DecideFails(v) PROVE Sorted'
    BY <2>5 DEF DecideFails
  <2>6. ASSUME NEW v \in Reviews, StartJob(v) PROVE Sorted'
    BY <2>6 DEF StartJob
  <2>7. ASSUME NEW v \in Reviews, RunJob(v) PROVE Sorted'
    BY <2>7 DEF RunJob
  <2>8. ASSUME NEW v \in Reviews, EndJob(v) PROVE Sorted'
    BY <2>8 DEF EndJob
  <2>9. CASE Crash
    BY <2>9 DEF Crash, Open
  <2>10. CASE UNCHANGED vars
    BY <2>10 DEF vars
  <2>11. QED
    BY <2>1, <2>2, <2>3, <2>4, <2>5, <2>6, <2>7, <2>8, <2>9, <2>10 DEF Next, Handler
<1>3. ASSUME NEW t \in Tickets, ticket'[t] # "ungated"
      PROVE  runs'[t] <= Cardinality(Ran(t)')
  <2>1. ASSUME NEW s \in Tickets, Ask(s) PROVE runs'[t] <= Cardinality(Ran(t)')
    <3>1. ticket[t] # "ungated" /\ runs'[t] = runs[t] /\ Ran(t) \subseteq Ran(t)'
      BY <1>3, <2>1 DEF Ask, Ran, Reviewed, TypeOK
    <3>2. QED BY <1>1, <1>3, <3>1, RanGrows
  <2>2. ASSUME NEW v \in Reviews, Decide(v) PROVE runs'[t] <= Cardinality(Ran(t)')
    <3>1. ticket[t] # "ungated"
      BY <1>3, <2>2 DEF Decide, Counted, TypeOK, Reviewed
    <3>2. runs'[t] = runs[t] /\ Ran(t) \subseteq Ran(t)'
      BY <2>2 DEF Decide, Ran, Reviewed, TypeOK
    <3>3. QED BY <1>1, <1>3, <3>1, <3>2, RanGrows
  <2>3. ASSUME NEW v \in Reviews, NEW s \in Tickets, NEW verdict \in Verdict, Read(v, s, verdict)
        PROVE  runs'[t] <= Cardinality(Ran(t)')
    <3>1. job[v] = "none"
      BY <2>3 DEF Read, Counted
    <3>2. ticket[t] # "ungated" /\ runs'[t] = runs[t] /\ Ran(t) \subseteq Ran(t)'
      BY <1>3, <2>3, <3>1 DEF Read, Ran, Reviewed, TypeOK
    <3>3. QED BY <1>1, <1>3, <3>2, RanGrows
  <2>4. ASSUME NEW v \in Reviews, RunJob(v) PROVE runs'[t] <= Cardinality(Ran(t)')
    <3>1. ticket[t] # "ungated"
      BY <1>3, <2>4 DEF RunJob
    <3>2. CASE Reviewed(v) = t
      <4>1. v \notin Ran(t) /\ Ran(t)' = Ran(t) \cup {v}
        BY <2>4, <3>2 DEF RunJob, Ran, Reviewed, TypeOK
      <4>2. Cardinality(Ran(t)') = Cardinality(Ran(t)) + 1
        BY <4>1, RanIsCounted, FS_AddElement
      <4>3. runs'[t] = runs[t] + 1
        BY <2>4, <3>2 DEF RunJob, TypeOK
      <4>4. runs[t] <= Cardinality(Ran(t)) /\ runs[t] \in Nat /\ Cardinality(Ran(t)) \in Nat
        BY <3>1, RanIsCounted DEF Counted, TypeOK
      <4>5. QED BY <4>2, <4>3, <4>4
    <3>3. CASE Reviewed(v) # t
      <4>1. runs'[t] = runs[t] /\ Ran(t) \subseteq Ran(t)'
        BY <2>4, <3>3 DEF RunJob, Ran, Reviewed, TypeOK
      <4>2. QED BY <1>1, <1>3, <3>1, <4>1, RanGrows
    <3>4. QED BY <3>2, <3>3
  <2>5. ASSUME \/ SetRequired \/ Crash \/ UNCHANGED vars
               \/ \E v \in Reviews : DecideFails(v) \/ StartJob(v) \/ EndJob(v)
        PROVE  runs'[t] <= Cardinality(Ran(t)')
    <3>1. ticket'[t] = ticket[t] /\ runs'[t] = runs[t]
      BY <2>5 DEF SetRequired, Crash, vars, DecideFails, StartJob, EndJob
    <3>2. Ran(t) \subseteq Ran(t)'
      <4>1. CASE SetRequired \/ UNCHANGED vars
        BY <4>1 DEF SetRequired, vars, Ran, Reviewed
      <4>2. CASE Crash
        BY <4>2 DEF Crash, Ran, Reviewed, TypeOK
      <4>3. ASSUME NEW v \in Reviews, DecideFails(v) PROVE Ran(t) \subseteq Ran(t)'
        BY <4>3 DEF DecideFails, Ran, Reviewed, TypeOK
      <4>4. ASSUME NEW v \in Reviews, StartJob(v) PROVE Ran(t) \subseteq Ran(t)'
        <5>1. job[v] = "none"
          BY <4>4 DEF StartJob, Counted
        <5>2. QED BY <4>4, <5>1 DEF StartJob, Ran, Reviewed, TypeOK
      <4>5. ASSUME NEW v \in Reviews, EndJob(v) PROVE Ran(t) \subseteq Ran(t)'
        BY <4>5 DEF EndJob, Ran, Reviewed, TypeOK
      <4>6. QED BY <2>5, <4>1, <4>2, <4>3, <4>4, <4>5
    <3>3. QED BY <1>1, <1>3, <3>1, <3>2, RanGrows
  <2>6. QED BY <2>1, <2>2, <2>3, <2>4, <2>5 DEF Next, Handler
<1>4. QED BY <1>2, <1>3 DEF Counted

\* However reviews overlap, crash and are repeated, an operation that met the
\* gate has not run more often than reviews approved it.
THEOREM RunsAnswerApprovals == Spec => []RunsAreApproved
<1>1. Init => Counted
  <2>1. Init => \A t \in Tickets : 0 <= Cardinality(Ran(t))
    BY RanIsCounted
  <2>2. QED BY <2>1 DEF Init, Counted
<1>2. TypeOK /\ Counted => RunsAreApproved
  <2> SUFFICES ASSUME TypeOK, Counted, NEW t \in Tickets, ticket[t] # "ungated"
               PROVE  runs[t] <= Cardinality(Approvers(t))
    BY DEF RunsAreApproved
  <2>1. Ran(t) \subseteq Approvers(t) /\ Approvers(t) \in SUBSET Reviews
    BY DEF Ran, Approvers, Counted
  <2>2. IsFiniteSet(Approvers(t)) /\ Cardinality(Approvers(t)) \in Nat
    BY <2>1, FS_Subset, FS_CardinalityType, ApprovalsAssumption
  <2>3. Cardinality(Ran(t)) <= Cardinality(Approvers(t))
    BY <2>1, <2>2, FS_Subset
  <2>4. runs[t] <= Cardinality(Ran(t)) /\ runs[t] \in Nat /\ Cardinality(Ran(t)) \in Nat
    BY RanIsCounted DEF Counted, TypeOK
  <2>5. QED BY <2>2, <2>3, <2>4
<1>3. TypeOK /\ Counted /\ [Next]_vars => Counted'
  BY CountedStep
<1>4. QED BY <1>1, <1>2, <1>3, ApprovalsType, PTL DEF Spec
=============================================================================
