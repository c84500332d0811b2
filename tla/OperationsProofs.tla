-------------------------- MODULE OperationsProofs --------------------------
(***************************************************************************)
(* Theorems about Operations, for all sets of requests and of keys.  Each  *)
(* theorem names the faults and the clients it cannot do with.             *)
(*                                                                         *)
(* 1. TypeInv: the types, and what the steps rely on besides them.         *)
(* 2. Records: what the executions table tells of the runs, however        *)
(*    requests interleave and however often the backend dies.              *)
(* 3. In turn: what the clients can rely on when they keep one request     *)
(*    open at a time, in the tables and in the cloud.                      *)
(***************************************************************************)
EXTENDS Operations, TLAPS, FiniteSetTheorems

-----------------------------------------------------------------------------
(* 1. Types                                                                *)

\* What the steps rely on besides the types: a request that has started has a
\* content, only such a request is named by the shared state, and the rows a
\* request holds on to exist.
Started(o) == pc[o] # "idle"

Grounded ==
  /\ \A o \in Requests : Started(o) => req[o] \in Request
  /\ runDir # None => Started(runDir)
  /\ \A o \in Requests : ran[o] # None => Started(ran[o])
  /\ \A o \in Requests : recordID[o] # o => Started(recordID[o])
  /\ \A r \in Requests : executions[r] # None => Started(r)
  /\ \A r \in toRecover : Started(r)
  /\ \A o \in Requests : existing[o] # None => resources[existing[o]] # None
  /\ \A o \in Requests : Started(o) /\ req[o].row # None => resources[req[o].row] # None
  /\ \A o \in Requests : Started(o) /\ Asks(o, "refresh") => req[o].row # None
  /\ crashes <= faults

TypeInv == TypeOK /\ Grounded

LEMMA InitType == Init => TypeInv
<1> SUFFICES ASSUME Init PROVE TypeInv
  OBVIOUS
<1>1. TypeOK
  BY ConstantsAssumption DEF Init, TypeOK, Stages
<1>2. Grounded
  BY ConstantsAssumption DEF Init, Grounded, Started
<1>3. QED BY <1>1, <1>2 DEF TypeInv

\* One lemma for each stretch of a request's way.
LEMMA BeforeContainerType ==
  ASSUME TypeInv, NEW o \in Requests,
         Submit(o) \/ ClearRunDir(o) \/ FillRunDir(o) \/ Remember(o) \/ InsertRecord(o)
  PROVE  TypeInv'
<1> USE ConstantsAssumption, NoneAssumption DEF TypeInv, TypeOK, Grounded, Goto, Stages, Started, Asks, cloud
<1>1. CASE Submit(o)
  BY <1>1 DEF Submit, MayAsk
<1>2. CASE ClearRunDir(o)
  BY <1>2 DEF ClearRunDir
<1>3. CASE FillRunDir(o)
  BY <1>3 DEF FillRunDir
<1>4. CASE Remember(o)
  <2>1. /\ recordID' \in [Requests -> Requests]
        /\ \A q \in Requests : recordID'[q] # q => Started(recordID'[q])
        /\ faults' \in 0 .. MaxFaults /\ faults <= faults'
    BY <1>4 DEF Remember, Fault, NoFault
  <2>2. planHistory' \in [Requests -> Record \cup {None}]
    BY <1>4, <2>1 DEF Remember, Record
  <2>3. /\ pc[o] = "remember" /\ pc' = [pc EXCEPT ![o] = "insert"]
        /\ UNCHANGED <<server, req, runDir, ran, outcome, existing, fetched, lastLogs,
                       executions, resources, toRecover, cloud, crashes>>
    BY <1>4 DEF Remember
  <2>4. QED BY <2>1, <2>2, <2>3
<1>5. CASE InsertRecord(o)
  BY <1>5 DEF InsertRecord, WriteExecution, Fault, NoFault, Record
<1>6. QED BY <1>1, <1>2, <1>3, <1>4, <1>5

LEMMA TerraformType ==
  ASSUME TypeInv, NEW o \in Requests, NEW verdict \in {"success", "error"},
         Terraform(o, verdict)
  PROVE  /\ infra' \in [Keys -> Requests \cup {None}]
         /\ tfstate' \in [Keys -> BOOLEAN]
<1>1. /\ infra \in [Keys -> Requests \cup {None}]
      /\ tfstate \in [Keys -> BOOLEAN]
      /\ ran[o] \in Requests \cup {None}
  BY DEF TypeInv, TypeOK
<1>2. CASE UNCHANGED cloud
  BY <1>1, <1>2 DEF cloud
<1>3. ASSUME ran[o] # None
      PROVE  req[ran[o]].remote \in BOOLEAN
  BY <1>1, <1>3 DEF TypeInv, Grounded, Request
<1>4. CASE ran[o] # None /\ Deploys(ran[o])
  <2>1. \A k \in Keys : (tfstate[k] \/ req[ran[o]].remote) \in BOOLEAN
    BY <1>1, <1>3, <1>4
  <2>2. QED BY <1>1, <1>4, <2>1 DEF Deploys
<1>5. CASE ran[o] # None /\ Removes(ran[o])
  <2> DEFINE known == req[ran[o]].remote /\ tfstate[Key(ran[o])]
  <2>1. \A k \in Keys : (tfstate[k] /\ ~known) \in BOOLEAN
    BY <1>1
  <2>2. \A k \in Keys : (IF known THEN None ELSE infra[k]) \in Requests \cup {None}
    BY <1>1
  <2>3. QED BY <1>1, <1>5, <2>1, <2>2 DEF Removes
<1>6. QED BY <1>2, <1>4, <1>5 DEF Terraform

LEMMA ContainerType ==
  ASSUME TypeInv, NEW o \in Requests,
         Launch(o) \/ LaunchFails(o) \/ ContainerEnds(o) \/ DetachedEnds(o)
  PROVE  TypeInv'
<1> USE ConstantsAssumption, NoneAssumption DEF TypeInv, TypeOK, Grounded, Goto, Stages, Started, Asks, cloud
<1>1. CASE Launch(o)
  BY <1>1 DEF Launch
<1>2. CASE LaunchFails(o)
  BY <1>2 DEF LaunchFails
<1>3. CASE ContainerEnds(o)
  BY <1>3, TerraformType DEF ContainerEnds, Fault, NoFault
<1>4. CASE DetachedEnds(o)
  BY <1>4, TerraformType DEF DetachedEnds
<1>5. QED BY <1>1, <1>2, <1>3, <1>4

\* A statement on the resources table keeps the types and loses no row.
RowsKept ==
  /\ resources' \in [RowIds -> Row \cup {None}]
  /\ \A j \in RowIds : resources[j] # None => resources'[j] # None
  /\ faults' \in 0 .. MaxFaults
  /\ faults <= faults'

LEMMA WriteRowType ==
  ASSUME TypeInv, NEW i \in RowIds, NEW row \in Row, WriteRow(i, row)
  PROVE  RowsKept
<1>1. row # None
  BY NoneAssumption
<1>2. QED BY <1>1, ConstantsAssumption DEF TypeInv, TypeOK, WriteRow, Fault, NoFault, RowsKept

LEMMA NoWriteType ==
  ASSUME TypeInv, NoFault, UNCHANGED resources
  PROVE  RowsKept
  BY ConstantsAssumption DEF TypeInv, TypeOK, NoFault, RowsKept

\* An UPDATE of some of the columns of a row that is there.
LEMMA UpdateType ==
  ASSUME TypeInv, NEW i \in RowIds, resources[i] # None
  PROVE  /\ \A o \in Requests :
              [resources[i] EXCEPT !.status = "active", !.by = o] \in Row
         /\ [resources[i] EXCEPT !.status = "destroyed"] \in Row
         /\ \A c \in Requests \cup {None} : [resources[i] EXCEPT !.outputs = c] \in Row
<1>1. resources[i] \in Row
  BY DEF TypeInv, TypeOK
<1>2. QED BY <1>1 DEF Row

\* The rows a request may write are rows, and the ones it found exist.
LEMMA TargetType ==
  ASSUME TypeInv, NEW o \in Requests, Started(o)
  PROVE  /\ Key(o) \in Keys
         /\ <<o, 0>> \in RowIds
         /\ \A status \in {"active", "failed"} : NewRow(o, status) \in Row
         /\ existing[o] # None => existing[o] \in RowIds /\ resources[existing[o]] # None
         /\ \A i \in Lookup(Key(o)) : i # None => i \in RowIds /\ resources[i] # None
         /\ \A i \in SweepMatches(o) : i \in RowIds /\ resources[i] # None
         /\ \A i \in OutputRows(o) : i # None => i \in RowIds /\ resources[i] # None
         /\ req[o].row # None => req[o].row \in RowIds /\ resources[req[o].row] # None
<1>1. req[o] \in Request
  BY DEF TypeInv, Grounded
<1>2. Key(o) \in Keys /\ req[o].row \in RowIds \cup {None}
  BY <1>1 DEF Request, Key
<1>3. <<o, 0>> \in RowIds
  BY ConstantsAssumption DEF RowIds
<1>4. \A status \in {"active", "failed"} : NewRow(o, status) \in Row
  BY <1>2 DEF NewRow, Row
<1>5. existing[o] # None => existing[o] \in RowIds /\ resources[existing[o]] # None
  BY DEF TypeInv, TypeOK, Grounded
<1>6. \A i \in Lookup(Key(o)) : i # None => i \in RowIds /\ resources[i] # None
  BY DEF Lookup, Matches, Live
<1>7. req[o].row # None => req[o].row \in RowIds /\ resources[req[o].row] # None
  BY <1>2 DEF TypeInv, Grounded
<1>8. \A i \in SweepMatches(o) : i \in RowIds /\ resources[i] # None
  BY DEF SweepMatches
<1>9. \A i \in OutputRows(o) : i # None => i \in RowIds /\ resources[i] # None
  BY <1>5, <1>6, <1>7 DEF OutputRows
<1>10. QED BY <1>2, <1>3, <1>4, <1>5, <1>6, <1>7, <1>8, <1>9

\* A step of a goroutine that has to do with the resources table only.
LEMMA TrackingType ==
  ASSUME TypeInv, NEW o \in Requests, Started(o), RowsKept,
         NEW stage \in Stages \ {"idle"}, Goto(o, stage),
         UNCHANGED <<server, req, runDir, ran, outcome, recordID, existing, fetched,
                     lastLogs, planHistory, executions, toRecover, cloud, crashes>>
  PROVE  TypeInv'
<1>1. TypeOK'
  BY DEF TypeInv, TypeOK, RowsKept, Goto, Stages, cloud
<1>2. \A p \in Requests : Started(p)' <=> Started(p)
  BY DEF TypeInv, TypeOK, Goto, Stages, Started
<1>3. crashes' <= faults'
  BY ConstantsAssumption DEF TypeInv, TypeOK, Grounded, RowsKept
<1>4. QED BY <1>1, <1>2, <1>3 DEF TypeInv, TypeOK, Grounded, RowsKept, Asks, Request

LEMMA AfterContainerType ==
  ASSUME TypeInv, NEW o \in Requests,
         Settle(o) \/ Persist(o) \/ LookupRow(o) \/ FetchOutputs(o)
  PROVE  TypeInv'
<1> USE ConstantsAssumption, NoneAssumption DEF TypeInv, TypeOK, Grounded, Goto, Stages, Started, Asks, cloud
<1>1. CASE Settle(o)
  BY <1>1 DEF Settle, Closed, Logs, Record
<1>2. CASE Persist(o)
  <2>1. Closed(o) \in Record
    BY DEF Closed, Logs, Record
  <2>2. /\ executions' \in [Requests -> Record \cup {None}]
        /\ \A r \in Requests : executions'[r] # None => executions[r] # None
        /\ faults' \in 0 .. MaxFaults /\ faults <= faults'
    BY <1>2, <2>1 DEF Persist, WriteExecution, Fault, NoFault
  <2>3. /\ pc' = [pc EXCEPT ![o] = IF Tracks(o) THEN "lookup" ELSE "done"]
        /\ pc[o] = "persist"
        /\ UNCHANGED <<server, req, runDir, ran, outcome, recordID, existing, fetched,
                       lastLogs, planHistory, resources, toRecover, cloud, crashes>>
    BY <1>2 DEF Persist
  <2>4. QED BY <2>2, <2>3
<1>3. CASE LookupRow(o)
  <2>1. PICK i \in RowIds \cup {None} :
          /\ existing' = [existing EXCEPT ![o] = i]
          /\ i # None => resources[i] # None
    BY <1>3 DEF LookupRow, Lookup, Matches, Live, Request
  <2>2. /\ faults' \in 0 .. MaxFaults /\ faults <= faults'
        /\ pc[o] = "lookup" /\ pc' = [pc EXCEPT ![o] = "track"]
        /\ UNCHANGED <<server, req, runDir, ran, outcome, recordID, fetched, lastLogs,
                       planHistory, executions, resources, toRecover, cloud, crashes>>
    BY <1>3 DEF LookupRow, Fault, NoFault
  <2>3. QED BY <2>1, <2>2
<1>4. CASE FetchOutputs(o)
  <2>1. ASSUME NEW c \in Requests, Started(c)
        PROVE  StateOutputs(c) \in Requests \cup {None}
    <3>1. Key(c) \in Keys
      BY <2>1 DEF Key, Request
    <3>2. infra[Key(c)] \in Requests \cup {None}
      BY <3>1
    <3>3. QED BY <3>2 DEF StateOutputs
  <2>2. OutputsSeen(o) \subseteq Requests \cup {None}
    <3>1. Started(o)
      BY <1>4 DEF FetchOutputs
    <3>2. StateOutputs(None) = None
      BY DEF StateOutputs
    <3>3. StateOutputs(runDir) \in Requests \cup {None}
      BY <2>1, <3>2
    <3>4. QED BY <2>1, <3>1, <3>3 DEF OutputsSeen
  <2>3. fetched' \in [Requests -> Requests \cup {None}]
    BY <1>4, <2>2 DEF FetchOutputs
  <2>4. /\ pc[o] = "fetch"
        /\ \E stage \in {"save", "done"} : pc' = [pc EXCEPT ![o] = stage]
        /\ UNCHANGED <<server, req, runDir, ran, outcome, recordID, existing, lastLogs,
                       planHistory, executions, resources, toRecover, cloud, crashes,
                       faults>>
    BY <1>4 DEF FetchOutputs
  <2>5. QED BY <2>3, <2>4
<1>5. QED BY <1>1, <1>2, <1>3, <1>4

LEMMA TableType ==
  ASSUME TypeInv, NEW o \in Requests,
         TrackApply(o) \/ TrackFailure(o) \/ TrackDestroy(o) \/ SweepDestroy(o)
           \/ SaveOutputs(o)
  PROVE  TypeInv'
<1>1. Started(o)
  BY DEF Started, TrackApply, TrackFailure, TrackDestroy, SweepDestroy, SaveOutputs
<1>2. CASE TrackApply(o)
  <2>1. RowsKept
    BY <1>1, <1>2, TargetType, UpdateType, WriteRowType DEF TrackApply
  <2>2. QED BY <1>1, <1>2, <2>1, TrackingType DEF TrackApply, Stages
<1>3. CASE TrackFailure(o)
  <2>1. RowsKept
    BY <1>1, <1>3, TargetType, NoWriteType, WriteRowType DEF TrackFailure
  <2>2. QED BY <1>1, <1>3, <2>1, TrackingType DEF TrackFailure, Stages
<1>4. CASE TrackDestroy(o)
  <2>1. RowsKept
    BY <1>1, <1>4, TargetType, UpdateType, NoWriteType, WriteRowType DEF TrackDestroy
  <2>2. QED BY <1>1, <1>4, <2>1, TrackingType DEF TrackDestroy, Stages
<1>5. CASE SweepDestroy(o)
  <2>1. RowsKept
    BY <1>1, <1>5, TargetType, UpdateType, NoWriteType, WriteRowType DEF SweepDestroy
  <2>2. QED BY <1>1, <1>5, <2>1, TrackingType DEF SweepDestroy, Stages
<1>6. CASE SaveOutputs(o)
  <2>1. fetched[o] \in Requests \cup {None}
    BY DEF TypeInv, TypeOK
  <2>2. RowsKept
    BY <1>1, <1>6, <2>1, TargetType, UpdateType, NoWriteType, WriteRowType DEF SaveOutputs
  <2>3. QED BY <1>1, <1>6, <2>2, TrackingType DEF SaveOutputs, Stages
<1>7. QED BY <1>2, <1>3, <1>4, <1>5, <1>6

LEMMA RestartType ==
  ASSUME TypeInv, Crash \/ StartUp
  PROVE  TypeInv'
<1> USE ConstantsAssumption, NoneAssumption DEF TypeInv, TypeOK, Grounded, Stages, Started, cloud, volatile
<1>1. CASE Crash
  BY <1>1 DEF Crash, Fault, InFlight, Asks
<1>2. CASE MarkInterrupted
  <2>1. \A r \in Requests : Running(executions[r]) =>
          [executions[r] EXCEPT !.status = "interrupted"] \in Record
    BY DEF Running, Record
  <2>2. executions' \in [Requests -> Record \cup {None}]
    BY <1>2, <2>1 DEF MarkInterrupted, Stale
  <2>3. \A r \in Requests : executions'[r] # None => executions[r] # None
    BY <1>2 DEF MarkInterrupted, Stale, Running
  <2>4. /\ toRecover' \subseteq Requests
        /\ \A r \in toRecover' : executions'[r] # None
    <3>1. \/ toRecover' = {r \in Requests : Recoverable(r, executions'[r])}
          \/ toRecover' = {}
      BY <1>2 DEF MarkInterrupted, Stale
    <3>2. QED BY <3>1 DEF Recoverable, Interrupted
  <2>5. /\ server' \in {"up", "recovering"}
        /\ faults' \in 0 .. MaxFaults /\ faults <= faults'
        /\ UNCHANGED <<volatile, req, runDir, ran, resources, cloud, crashes>>
    BY <1>2 DEF MarkInterrupted, Fault, NoFault
  <2>6. \A r \in Requests : executions'[r] # None => Started(r)
    BY <2>3
  <2>7. QED BY <2>2, <2>4, <2>5, <2>6 DEF Asks
<1>3. ASSUME NEW r \in Requests, Recover(r)
      PROVE  TypeInv'
  <2>1. RowsKept
    <3>1. PICK k \in RecoveredKeys(r) :
            \/ WriteRow(<<r, crashes>>, RecoveredRow(r, k))
            \/ NoFault /\ UNCHANGED resources
            \/ Fault("lostread") /\ resources' = [resources EXCEPT ![<<r, crashes>>] =
                                                   RecoveredRow(r, k)]
      BY <1>3 DEF Recover
    <3>2. Key(r) \in Keys
      BY <1>3 DEF Recover, Key, Request
    <3>3. k \in Keys
      BY <3>1, <3>2 DEF RecoveredKeys
    <3>4. <<r, crashes>> \in RowIds
      BY DEF RowIds
    <3>5. RecoveredRow(r, k) \in Row
      BY <3>3 DEF RecoveredRow, Row
    <3>6. CASE Fault("lostread") /\ resources' = [resources EXCEPT ![<<r, crashes>>] =
                                                   RecoveredRow(r, k)]
      <4>1. RecoveredRow(r, k) # None
        BY <3>5
      <4>2. QED BY <3>4, <3>5, <3>6, <4>1 DEF Fault, RowsKept
    <3>7. QED BY <3>1, <3>4, <3>5, <3>6, WriteRowType, NoWriteType
  <2>2. crashes' <= faults'
    BY <1>3, <2>1 DEF Recover, RowsKept
  <2>3. QED BY <1>3, <2>1, <2>2 DEF Recover, RowsKept, Asks, Request
<1>4. CASE Serve
  BY <1>4 DEF Serve, Asks
<1>5. CASE MarkFails
  BY <1>5 DEF MarkFails, Fault, Asks
<1>6. QED BY <1>1, <1>2, <1>3, <1>4, <1>5 DEF StartUp

LEMMA TypeInvariant == Spec => []TypeInv
<1>1. TypeInv /\ [Next]_vars => TypeInv'
  <2> SUFFICES ASSUME TypeInv, [Next]_vars PROVE TypeInv'
    OBVIOUS
  <2>1. CASE UNCHANGED vars
    BY <2>1 DEF vars, volatile, cloud, TypeInv, TypeOK, Grounded, Started, Asks
  <2>2. ASSUME NEW o \in Requests, Submit(o) \/ Step(o) \/ DetachedEnds(o)
        PROVE  TypeInv'
    BY <2>2, BeforeContainerType, ContainerType, AfterContainerType, TableType DEF Step
  <2>3. QED BY <2>1, <2>2, RestartType DEF Next
<1>2. QED BY InitType, <1>1, PTL DEF Spec

\* Every reachable state is well typed.
THEOREM TypeCorrect == Spec => []TypeOK
<1>1. TypeInv => TypeOK
  BY DEF TypeInv
<1>2. QED BY <1>1, TypeInvariant, PTL

-----------------------------------------------------------------------------
(* 2. Records                                                              *)

\* The stages at which a request's record has been inserted and not closed.
Open   == {"launch", "running", "settle", "persist"}
Before == {"idle", "clear", "fill", "remember", "insert"}
Ended  == {"idle", "done", "detached", "lost"}

-----------------------------------------------------------------------------
(* The shape of the steps                                                  *)

\* A step of a goroutine that leaves the tables' history part alone.
Quiet(o, from, to) ==
  /\ pc[o] \in from
  /\ \E stage \in to : Goto(o, stage)
  /\ \A p \in Requests \ {o} : outcome'[p] = outcome[p]
  /\ UNCHANGED <<server, req, recordID, executions, toRecover>>

\* Every step of a goroutine but three leaves the executions table and the
\* record ids alone, and only moves along its way.
LEMMA StepShape ==
  ASSUME TypeInv, NEW o \in Requests, Submit(o) \/ Step(o) \/ DetachedEnds(o)
  PROVE  \/ Submit(o) \/ Remember(o) \/ InsertRecord(o) \/ Persist(o)
         \/ Quiet(o, {"clear"}, {"fill"})
         \/ Quiet(o, {"fill"}, {"fetch", "remember"})
         \/ Launch(o) /\ Quiet(o, {"launch"}, {"running"})
         \/ Quiet(o, {"launch", "running"}, {"settle"})
         \/ Quiet(o, {"settle"}, {"persist"})
         \/ LookupRow(o) /\ Quiet(o, {"lookup"}, {"track"})
         \/ Quiet(o, {"track", "sweep", "fetch", "save"}, {"sweep", "fetch", "save", "done"})
         \/ Quiet(o, {"detached"}, {"lost"})
<1> USE DEF Quiet, Goto, TypeInv, TypeOK
<1>1. CASE ClearRunDir(o)
  BY <1>1 DEF ClearRunDir
<1>2. CASE FillRunDir(o)
  BY <1>2 DEF FillRunDir
<1>3. CASE Launch(o)
  BY <1>3 DEF Launch
<1>4. CASE LaunchFails(o)
  BY <1>4 DEF LaunchFails
<1>5. CASE ContainerEnds(o)
  BY <1>5 DEF ContainerEnds
<1>6. CASE Settle(o)
  BY <1>6 DEF Settle
<1>7. CASE LookupRow(o)
  BY <1>7 DEF LookupRow
<1>8. CASE TrackApply(o) \/ TrackFailure(o) \/ TrackDestroy(o) \/ SweepDestroy(o)
             \/ SaveOutputs(o)
  BY <1>8 DEF TrackApply, TrackFailure, TrackDestroy, SweepDestroy, SaveOutputs
<1>9. CASE FetchOutputs(o)
  BY <1>9 DEF FetchOutputs
<1>10. CASE DetachedEnds(o)
  BY <1>10 DEF DetachedEnds
<1>11. QED
  BY <1>1, <1>2, <1>3, <1>4, <1>5, <1>6, <1>7, <1>8, <1>9, <1>10 DEF Step

-----------------------------------------------------------------------------
(* RunningIsAttended is inductive by itself                                *)

\* The two writers of the table keep it: a record that becomes "running" has
\* the goroutine that inserted it, and the one that leaves has closed its own.
LEMMA AttendedByStep ==
  ASSUME "lostwrite" \notin Faults, TypeInv, RunningIsAttended,
         NEW o \in Requests, Submit(o) \/ Step(o) \/ DetachedEnds(o)
  PROVE  RunningIsAttended'
<1> USE DEF RunningIsAttended, TypeInv, TypeOK, Goto, Running
<1>1. CASE Submit(o)
  BY <1>1 DEF Submit
<1>2. CASE Remember(o)
  BY <1>2 DEF Remember
<1>3. CASE InsertRecord(o)
  BY <1>3 DEF InsertRecord, WriteExecution, Fault
<1>4. CASE Persist(o)
  <2>1. Closed(o).status # "running"
    BY DEF Closed
  <2>2. \/ executions[recordID[o]] = None /\ executions' = executions
        \/ executions' = [executions EXCEPT ![recordID[o]] = Closed(o)]
    BY <1>4 DEF Persist, WriteExecution, Fault
  <2>3. /\ \E stage \in {"lookup", "done"} : pc' = [pc EXCEPT ![o] = stage]
        /\ UNCHANGED <<server, recordID>>
    BY <1>4 DEF Persist
  <2>4. \A r \in Requests :
          executions'[r] # None /\ executions'[r].status = "running" =>
            executions'[r] = executions[r] /\ r # recordID[o]
    BY <2>1, <2>2
  <2>5. QED BY <2>3, <2>4
<1>5. CASE \E from \in SUBSET (Stages \ Open), to \in SUBSET Stages : Quiet(o, from, to)
  BY <1>5 DEF Quiet, Open
<1>6. CASE Quiet(o, {"launch", "running"}, {"settle"}) \/ Quiet(o, {"settle"}, {"persist"})
             \/ Quiet(o, {"launch"}, {"running"})
  BY <1>6 DEF Quiet
<1>7. QED
  BY <1>1, <1>2, <1>3, <1>4, <1>5, <1>6, StepShape DEF Stages, Open

LEMMA AttendedByRestart ==
  ASSUME "lostwrite" \notin Faults, TypeInv, RunningIsAttended, Crash \/ StartUp
  PROVE  RunningIsAttended'
<1> USE DEF RunningIsAttended, TypeInv, TypeOK, Running
<1>1. CASE Crash
  BY <1>1 DEF Crash
<1>2. CASE MarkInterrupted
  <2>1. \A r \in Requests : executions[r] # None =>
          [executions[r] EXCEPT !.status = "interrupted"].status # "running"
    BY DEF Record
  <2>2. \A r \in Requests : ~(executions'[r] # None /\ executions'[r].status = "running")
    BY <1>2, <2>1 DEF MarkInterrupted, Stale
  <2>3. QED BY <2>2
<1>3. CASE Serve
  BY <1>3 DEF Serve, volatile
<1>4. ASSUME NEW r \in Requests, Recover(r)
      PROVE  RunningIsAttended'
  BY <1>4 DEF Recover, volatile
<1>5. ~MarkFails
  BY DEF MarkFails, Fault
<1>6. QED BY <1>1, <1>2, <1>3, <1>4, <1>5 DEF StartUp

\* While the server serves, every record that says "running" belongs to a
\* goroutine that has still to close it, if no statement is lost.
THEOREM RunningRecordsAreAttended ==
  ASSUME "lostwrite" \notin Faults
  PROVE  Spec => []RunningIsAttended
<1>1. Init => RunningIsAttended
  BY DEF Init, RunningIsAttended, Running
<1>2. TypeInv /\ RunningIsAttended /\ [Next]_vars => RunningIsAttended'
  <2> SUFFICES ASSUME TypeInv, RunningIsAttended, [Next]_vars PROVE RunningIsAttended'
    OBVIOUS
  <2>1. CASE UNCHANGED vars
    BY <2>1 DEF vars, volatile, RunningIsAttended, Running
  <2>2. QED BY <2>1, AttendedByStep, AttendedByRestart DEF Next
<1>3. QED BY <1>1, <1>2, TypeInvariant, PTL DEF Spec

-----------------------------------------------------------------------------
(* Without shared ids a record is written by its own request alone         *)

\* Each request has its own record; it is there only from the insertion on,
\* and says "running" as long as the request has still to close it.  While
\* the start-up clean-up works, no request does.
OwnRecord ==
  /\ \A o \in Requests : recordID[o] = o
  /\ \A o \in Requests : pc[o] \in Before => executions[o] = None
  /\ \A o \in Requests : pc[o] \in Open => executions[o] = None \/ Running(executions[o])
  /\ server # "up" => \A o \in Requests : pc[o] \in Ended

\* What a step may do to a table in which the closed records are final.
ClosedAreKept ==
  \A r \in Requests :
    executions[r] # None /\ ~Running(executions[r]) => executions'[r] = executions[r]

LEMMA OwnRecordByStep ==
  ASSUME "collision" \notin Faults, TypeInv, OwnRecord,
         NEW o \in Requests, Submit(o) \/ Step(o) \/ DetachedEnds(o)
  PROVE  OwnRecord' /\ ClosedAreKept
<1> USE DEF OwnRecord, ClosedAreKept, TypeInv, TypeOK, Goto, Running, Before, Open, Ended
<1>1. CASE Submit(o)
  BY <1>1 DEF Submit
<1>2. CASE Remember(o)
  BY <1>2 DEF Remember, Fault
<1>3. CASE InsertRecord(o)
  BY <1>3 DEF InsertRecord, WriteExecution
<1>4. CASE Persist(o)
  <2>1. \/ executions' = executions
        \/ executions[o] # None /\ executions' = [executions EXCEPT ![o] = Closed(o)]
    BY <1>4 DEF Persist, WriteExecution
  <2>2. /\ pc[o] = "persist"
        /\ \E stage \in {"lookup", "done"} : pc' = [pc EXCEPT ![o] = stage]
        /\ UNCHANGED <<server, recordID>>
    BY <1>4 DEF Persist
  <2>3. QED BY <2>1, <2>2
<1>5. CASE Quiet(o, {"clear"}, {"fill"})
  BY <1>5 DEF Quiet
<1>6. CASE Quiet(o, {"fill"}, {"fetch", "remember"})
  BY <1>6 DEF Quiet
<1>7. CASE Quiet(o, {"launch", "running"}, {"settle"}) \/ Quiet(o, {"settle"}, {"persist"})
             \/ Quiet(o, {"launch"}, {"running"})
  BY <1>7 DEF Quiet
<1>8. CASE \/ Quiet(o, {"lookup"}, {"track"})
           \/ Quiet(o, {"track", "sweep", "fetch", "save"}, {"sweep", "fetch", "save", "done"})
           \/ Quiet(o, {"detached"}, {"lost"})
  BY <1>8 DEF Quiet
<1>9. QED
  BY <1>1, <1>2, <1>3, <1>4, <1>5, <1>6, <1>7, <1>8, StepShape

LEMMA OwnRecordByRestart ==
  ASSUME TypeInv, OwnRecord, Crash \/ StartUp
  PROVE  OwnRecord' /\ ClosedAreKept
<1> USE DEF OwnRecord, ClosedAreKept, TypeInv, TypeOK, Before, Open, Ended
<1>1. CASE Crash
  <2>1. \A o \in Requests : pc'[o] = IF pc[o] = "running" THEN "detached"
                                     ELSE IF o \in InFlight THEN "lost" ELSE pc[o]
    BY <1>1 DEF Crash
  <2>2. \A o \in Requests : pc'[o] \in Ended /\ (pc'[o] = "idle" => pc[o] = "idle")
    BY <2>1 DEF InFlight
  <2>3. QED BY <1>1, <2>2 DEF Crash
<1>2. CASE MarkInterrupted
  <2>1. ClosedAreKept
    BY <1>2 DEF MarkInterrupted, Stale
  <2>2. \A o \in Requests : executions[o] = None => executions'[o] = None
    BY <1>2 DEF MarkInterrupted, Stale, Running
  <2>3. QED BY <1>2, <2>1, <2>2 DEF MarkInterrupted, Stale, volatile
<1>3. CASE Serve
  BY <1>3 DEF Serve, volatile
<1>4. ASSUME NEW r \in Requests, Recover(r)
      PROVE  OwnRecord' /\ ClosedAreKept
  BY <1>4 DEF Recover, volatile
<1>5. CASE MarkFails
  BY <1>5 DEF MarkFails, volatile
<1>6. QED BY <1>1, <1>2, <1>3, <1>4, <1>5 DEF StartUp

LEMMA OwnRecordStep ==
  ASSUME "collision" \notin Faults, TypeInv, OwnRecord, [Next]_vars
  PROVE  OwnRecord' /\ ClosedAreKept
<1>1. CASE UNCHANGED vars
  BY <1>1 DEF vars, volatile, OwnRecord, ClosedAreKept
<1>2. QED BY <1>1, OwnRecordByStep, OwnRecordByRestart DEF Next

LEMMA OwnRecordInvariant ==
  ASSUME "collision" \notin Faults
  PROVE  Spec => []OwnRecord
<1>1. Init => OwnRecord
  BY DEF Init, OwnRecord, Before, Open
<1>2. TypeInv /\ OwnRecord /\ [Next]_vars => OwnRecord'
  BY OwnRecordStep
<1>3. QED BY <1>1, <1>2, TypeInvariant, PTL DEF Spec

-----------------------------------------------------------------------------
(* With shared ids too, a record whose id was drawn once is final          *)

Early == {"idle", "clear", "fill", "remember"}
Shown == {"insert", "launch", "running", "settle"}

\* What OwnRecord says of every record holds of those whose id was drawn once.
\* An id can be drawn again only by a request that has still its own, and only
\* once its record is in the table.
SoleRecord ==
  /\ \A r \in Requests : pc[r] \in Early => OwnId(r) /\ recordID[r] = r
  /\ \A r \in Requests : OwnId(r) /\ pc[r] \in Before => executions[r] = None
  /\ \A r \in Requests : OwnId(r) /\ pc[r] \in Open => executions[r] = None \/ Running(executions[r])
  /\ server # "up" => \A r \in Requests : pc[r] \in Ended

\* What a step may do to a table in which such records are final.
SoleAreKept ==
  \A r \in Requests :
    executions[r] # None /\ ~Running(executions[r]) /\ OwnId(r)
      => executions'[r] = executions[r]

\* Nobody gives an id back.
LEMMA OwnIdBefore ==
  ASSUME TypeInv, SoleRecord, NEW o \in Requests, Submit(o) \/ Step(o) \/ DetachedEnds(o),
         NEW r \in Requests, OwnId(r)'
  PROVE  OwnId(r)
<1> USE DEF OwnId, TypeInv, TypeOK
<1>1. CASE Remember(o)
  BY <1>1 DEF Remember, SoleRecord, Early
<1>2. CASE recordID' = recordID
  BY <1>2
<1>3. QED
  BY <1>1, <1>2, StepShape DEF Submit, InsertRecord, Persist, Quiet

LEMMA SoleByStep ==
  ASSUME TypeInv, SoleRecord, NEW o \in Requests, Submit(o) \/ Step(o) \/ DetachedEnds(o)
  PROVE  SoleRecord' /\ SoleAreKept
<1>0. \A r \in Requests : OwnId(r)' => OwnId(r)
  BY OwnIdBefore
<1> USE DEF SoleRecord, SoleAreKept, TypeInv, TypeOK, Goto, Running, Early, Before, Open, Ended
<1>1. CASE Submit(o)
  BY <1>1, <1>0 DEF Submit, OwnId
<1>2. CASE Remember(o)
  <2>1. \A r \in Requests : pc'[r] \in Early => OwnId(r)' /\ recordID'[r] = r
    BY <1>2 DEF Remember, OwnId
  <2>2. UNCHANGED <<executions, server>> /\ pc' = [pc EXCEPT ![o] = "insert"]
    BY <1>2 DEF Remember
  <2>3. QED BY <2>1, <2>2, <1>2, <1>0 DEF Remember
<1>3. CASE InsertRecord(o)
  <2>1. \/ executions' = executions
        \/ /\ executions[recordID[o]] = None
           /\ \E rec : Running(rec) /\ executions' = [executions EXCEPT ![recordID[o]] = rec]
    BY <1>3, NoneAssumption DEF InsertRecord, WriteExecution, Record
  <2>2. pc[o] = "insert" /\ pc' = [pc EXCEPT ![o] = "launch"] /\ UNCHANGED <<server, recordID>>
    BY <1>3 DEF InsertRecord
  <2>3. \A r \in Requests : OwnId(r)' <=> OwnId(r)
    BY <2>2 DEF OwnId
  <2>4. QED BY <2>1, <2>2, <2>3 DEF OwnId
<1>4. CASE Persist(o)
  <2>1. \/ executions' = executions
        \/ executions' = [executions EXCEPT ![recordID[o]] = Closed(o)]
           /\ executions[recordID[o]] # None
    BY <1>4 DEF Persist, WriteExecution
  <2>2. /\ pc[o] = "persist"
        /\ \E stage \in {"lookup", "done"} : pc' = [pc EXCEPT ![o] = stage]
        /\ UNCHANGED <<server, recordID>>
    BY <1>4 DEF Persist
  <2>3. \A r \in Requests : OwnId(r)' <=> OwnId(r)
    BY <2>2 DEF OwnId
  <2>4. \A r \in Requests : OwnId(r) /\ r # o => executions'[r] = executions[r]
    BY <2>1 DEF OwnId
  <2>5. QED BY <2>1, <2>2, <2>3, <2>4
<1>5. recordID' = recordID => \A r \in Requests : OwnId(r)' <=> OwnId(r)
  BY DEF OwnId
<1>6. CASE Quiet(o, {"clear"}, {"fill"})
  BY <1>5, <1>6 DEF Quiet
<1>7. CASE Quiet(o, {"fill"}, {"fetch", "remember"})
  BY <1>5, <1>7 DEF Quiet
<1>8. CASE Quiet(o, {"launch", "running"}, {"settle"}) \/ Quiet(o, {"settle"}, {"persist"})
             \/ Quiet(o, {"launch"}, {"running"})
  BY <1>5, <1>8 DEF Quiet
<1>9. CASE \/ Quiet(o, {"lookup"}, {"track"})
           \/ Quiet(o, {"track", "sweep", "fetch", "save"}, {"sweep", "fetch", "save", "done"})
           \/ Quiet(o, {"detached"}, {"lost"})
  BY <1>5, <1>9 DEF Quiet
<1>10. QED
  BY <1>1, <1>2, <1>3, <1>4, <1>6, <1>7, <1>8, <1>9, StepShape

LEMMA SoleByRestart ==
  ASSUME TypeInv, SoleRecord, Crash \/ StartUp
  PROVE  SoleRecord' /\ SoleAreKept
<1> USE DEF SoleRecord, SoleAreKept, OwnId, TypeInv, TypeOK, Early, Before, Open, Ended
<1>1. CASE Crash
  <2>1. \A o \in Requests : pc'[o] = IF pc[o] = "running" THEN "detached"
                                     ELSE IF o \in InFlight THEN "lost" ELSE pc[o]
    BY <1>1 DEF Crash
  <2>2. \A o \in Requests : pc'[o] \in Ended /\ (pc'[o] = "idle" => pc[o] = "idle")
    BY <2>1 DEF InFlight
  <2>3. QED BY <1>1, <2>2 DEF Crash
<1>2. CASE MarkInterrupted
  <2>1. SoleAreKept
    BY <1>2 DEF MarkInterrupted, Stale
  <2>2. \A o \in Requests : executions[o] = None => executions'[o] = None
    BY <1>2 DEF MarkInterrupted, Stale, Running
  <2>3. QED BY <1>2, <2>1, <2>2 DEF MarkInterrupted, Stale, volatile
<1>3. CASE Serve
  BY <1>3 DEF Serve, volatile
<1>4. ASSUME NEW r \in Requests, Recover(r)
      PROVE  SoleRecord' /\ SoleAreKept
  BY <1>4 DEF Recover, volatile
<1>5. CASE MarkFails
  BY <1>5 DEF MarkFails, volatile
<1>6. QED BY <1>1, <1>2, <1>3, <1>4, <1>5 DEF StartUp

LEMMA SoleStep ==
  ASSUME TypeInv, SoleRecord, [Next]_vars
  PROVE  SoleRecord' /\ SoleAreKept
<1>1. CASE UNCHANGED vars
  BY <1>1 DEF vars, volatile, SoleRecord, SoleAreKept, OwnId
<1>2. QED BY <1>1, SoleByStep, SoleByRestart DEF Next

LEMMA SoleInvariant == Spec => []SoleRecord
<1>1. Init => SoleRecord
  BY DEF Init, SoleRecord, OwnId, Early, Before, Open
<1>2. TypeInv /\ SoleRecord /\ [Next]_vars => SoleRecord'
  BY SoleStep
<1>3. QED BY <1>1, <1>2, TypeInvariant, PTL DEF Spec

\* No step, of a goroutine or of a later process, rewrites a closed record,
\* unless two requests of an action drew the same millisecond for its id.
THEOREM VerdictsAreFinal == Spec => VerdictIsFinal
<1>1. TypeInv /\ SoleRecord /\ [Next]_vars => [SoleAreKept]_executions
  BY SoleStep
<1>2. QED
  BY <1>1, TypeInvariant, SoleInvariant, PTL DEF Spec, VerdictIsFinal, SoleAreKept

\* A run the memory shows as running is between its two updates of the memory.
HistoryIsOpen ==
  \A r \in Requests : OwnId(r) /\ Running(planHistory[r]) =>
    pc[r] \in Shown /\ recordID[r] = r

LEMMA HistoryByStep ==
  ASSUME TypeInv, SoleRecord, HistoryIsOpen,
         NEW o \in Requests, Submit(o) \/ Step(o) \/ DetachedEnds(o)
  PROVE  HistoryIsOpen'
<1>0. \A r \in Requests : OwnId(r)' => OwnId(r)
  BY OwnIdBefore
<1> USE DEF HistoryIsOpen, TypeInv, TypeOK, Goto, Shown, Running
<1>1. CASE Remember(o)
  <2>1. /\ planHistory' = [planHistory EXCEPT ![recordID'[o]] = [status |-> "running", logs |-> None]]
        /\ pc[o] = "remember" /\ pc' = [pc EXCEPT ![o] = "insert"]
        /\ \A r \in Requests \ {o} : recordID'[r] = recordID[r]
        /\ recordID'[o] \in Requests
    BY <1>1 DEF Remember, SoleRecord, Early
  <2>2. \A r \in Requests : OwnId(r)' /\ r # o => planHistory'[r] = planHistory[r]
    BY <2>1 DEF OwnId
  <2>3. QED BY <1>0, <2>1, <2>2
<1>2. CASE Settle(o)
  <2>1. /\ planHistory' = [planHistory EXCEPT ![recordID[o]] = Closed(o)]
        /\ pc[o] = "settle" /\ pc' = [pc EXCEPT ![o] = "persist"]
        /\ UNCHANGED recordID /\ Closed(o).status # "running"
    BY <1>2 DEF Settle, Closed
  <2>2. \A r \in Requests : OwnId(r) /\ r # o => planHistory'[r] = planHistory[r]
    BY <2>1 DEF OwnId
  <2>3. QED BY <1>0, <2>1, <2>2
<1>3. CASE UNCHANGED planHistory /\ ~Remember(o)
  <2>1. UNCHANGED recordID
    BY <1>3, StepShape DEF Submit, InsertRecord, Persist, Quiet
  <2>2. \A r \in Requests : pc[r] \in Shown /\ pc'[r] \notin Shown => r = o /\ pc[o] = "settle"
    <3>1. CASE Submit(o)
      BY <3>1 DEF Submit
    <3>2. CASE InsertRecord(o)
      BY <3>2 DEF InsertRecord
    <3>3. CASE Persist(o)
      BY <3>3 DEF Persist
    <3>4. CASE Quiet(o, {"clear"}, {"fill"}) \/ Quiet(o, {"fill"}, {"fetch", "remember"})
      BY <3>4 DEF Quiet
    <3>5. CASE \/ Quiet(o, {"launch"}, {"running"}) \/ Quiet(o, {"launch", "running"}, {"settle"})
               \/ Quiet(o, {"settle"}, {"persist"})
      BY <3>5 DEF Quiet
    <3>6. CASE \/ Quiet(o, {"lookup"}, {"track"})
               \/ Quiet(o, {"track", "sweep", "fetch", "save"}, {"sweep", "fetch", "save", "done"})
               \/ Quiet(o, {"detached"}, {"lost"})
      BY <3>6 DEF Quiet
    <3>7. QED BY <1>3, <3>1, <3>2, <3>3, <3>4, <3>5, <3>6, StepShape
  <2>3. pc[o] = "settle" => Settle(o)
    BY <1>3 DEF Submit, Step, DetachedEnds, ClearRunDir, FillRunDir, Remember, InsertRecord, Launch,
                LaunchFails, ContainerEnds, Persist, LookupRow, TrackApply, TrackFailure,
                TrackDestroy, SweepDestroy, FetchOutputs, SaveOutputs
  <2>4. QED BY <1>0, <1>2, <1>3, <2>1, <2>2, <2>3
<1>4. UNCHANGED planHistory \/ Remember(o) \/ Settle(o)
  BY DEF Submit, Step, DetachedEnds, ClearRunDir, FillRunDir, InsertRecord, Launch, LaunchFails,
         ContainerEnds, Persist, LookupRow, TrackApply, TrackFailure, TrackDestroy, SweepDestroy,
         FetchOutputs, SaveOutputs
<1>5. QED BY <1>1, <1>2, <1>3, <1>4

LEMMA HistoryByRestart ==
  ASSUME TypeInv, HistoryIsOpen, Crash \/ StartUp
  PROVE  HistoryIsOpen'
<1> USE DEF HistoryIsOpen, OwnId, Running
<1>1. CASE Crash
  BY <1>1 DEF Crash
<1>2. CASE UNCHANGED volatile
  BY <1>2 DEF volatile
<1>3. QED
  BY <1>1, <1>2 DEF StartUp, MarkInterrupted, MarkFails, Serve, Recover

\* The memory never shows as running what the table has closed, unless two
\* requests drew one id: the two updates of the memory enclose the statements
\* on the table, also when these fail.
THEOREM HistoryIsNotBehind == Spec => []HistoryNotBehind
<1>1. Init => HistoryIsOpen
  BY DEF Init, HistoryIsOpen, Running
<1>2. TypeInv /\ SoleRecord /\ HistoryIsOpen /\ [Next]_vars => HistoryIsOpen'
  <2>1. ASSUME HistoryIsOpen, UNCHANGED vars PROVE HistoryIsOpen'
    BY <2>1 DEF vars, volatile, HistoryIsOpen, Running, OwnId
  <2>2. QED BY <2>1, HistoryByStep, HistoryByRestart DEF Next
<1>3. TypeInv /\ SoleRecord /\ HistoryIsOpen => HistoryNotBehind
  BY DEF SoleRecord, HistoryIsOpen, HistoryNotBehind, Shown, Before, Open
<1>4. QED BY <1>1, <1>2, <1>3, TypeInvariant, SoleInvariant, PTL DEF Spec

-----------------------------------------------------------------------------
(* The rows agree with the records they point to                           *)

\* Besides: a request that tracks its verdict has a record that says the same,
\* and a row is recovered only for an apply whose record says "interrupted".
RecordsBehindRows ==
  /\ OwnRecord
  /\ \A o \in Requests : pc[o] \in Open => Running(executions[o])
  /\ \A o \in Requests :
       pc[o] \in {"lookup", "track"} /\ outcome[o] \in {"success", "error"} =>
         executions[o] # None /\ executions[o].status = outcome[o]
  /\ \A r \in toRecover : Interrupted(executions[r]) /\ Asks(r, "apply")

\* A step of a request that writes the resources table cancels a row, tracks
\* the request's own verdict, or leaves status and last_apply_id of a row.
LEMMA RowShape ==
  ASSUME TypeInv, NEW o \in Requests, Submit(o) \/ Step(o) \/ DetachedEnds(o)
  PROVE  \/ UNCHANGED resources
         \/ \E i \in RowIds, row \in Row :
              /\ resources' = [resources EXCEPT ![i] = row]
              /\ \/ row.status = "destroyed"
                 \/ /\ pc[o] = "track" /\ Asks(o, "apply") /\ row.by = o
                    /\ <<row.status, outcome[o]>> \in {<<"active", "success">>,
                                                       <<"failed", "error">>}
                 \/ /\ resources[i] # None
                    /\ row.status = resources[i].status /\ row.by = resources[i].by
<1>1. CASE TrackApply(o)
  <2>1. Started(o)
    BY <1>1 DEF TrackApply, Started
  <2>2. \/ UNCHANGED resources
        \/ /\ existing[o] # None
           /\ resources' = [resources EXCEPT ![existing[o]] =
                              [resources[existing[o]] EXCEPT !.status = "active", !.by = o]]
        \/ resources' = [resources EXCEPT ![<<o, 0>>] = NewRow(o, "active")]
    BY <1>1 DEF TrackApply, WriteRow
  <2>3. NewRow(o, "active").status = "active" /\ NewRow(o, "active").by = o
    BY DEF NewRow
  <2>4. ASSUME existing[o] # None
        PROVE  LET row == [resources[existing[o]] EXCEPT !.status = "active", !.by = o]
               IN  row \in Row /\ row.status = "active" /\ row.by = o
    <3>1. resources[existing[o]] \in Row
      BY <2>1, <2>4, TargetType DEF TypeInv, TypeOK
    <3>2. QED BY <3>1 DEF Row
  <2>5. pc[o] = "track" /\ Asks(o, "apply") /\ outcome[o] = "success"
    BY <1>1 DEF TrackApply
  <2>6. CASE /\ existing[o] # None
             /\ resources' = [resources EXCEPT ![existing[o]] =
                                [resources[existing[o]] EXCEPT !.status = "active", !.by = o]]
    <3>1. existing[o] \in RowIds
      BY <2>1, <2>6, TargetType
    <3> DEFINE row == [resources[existing[o]] EXCEPT !.status = "active", !.by = o]
    <3>2. row \in Row /\ row.status = "active" /\ row.by = o
      BY <2>4, <2>6
    <3>3. resources' = [resources EXCEPT ![existing[o]] = row]
      BY <2>6
    <3> HIDE DEF row
    <3>4. QED BY <2>5, <3>1, <3>2, <3>3
  <2>7. CASE resources' = [resources EXCEPT ![<<o, 0>>] = NewRow(o, "active")]
    <3>1. <<o, 0>> \in RowIds /\ NewRow(o, "active") \in Row
      BY <2>1, TargetType
    <3>2. QED BY <2>3, <2>5, <2>7, <3>1
  <2>8. QED BY <2>2, <2>6, <2>7
<1>2. CASE TrackFailure(o)
  <2>1. Started(o)
    BY <1>2 DEF TrackFailure, Started
  <2>2. \/ UNCHANGED resources
        \/ resources' = [resources EXCEPT ![<<o, 0>>] = NewRow(o, "failed")]
    BY <1>2 DEF TrackFailure, WriteRow
  <2>3. NewRow(o, "failed").status = "failed" /\ NewRow(o, "failed").by = o
    BY DEF NewRow
  <2>4. pc[o] = "track" /\ Asks(o, "apply") /\ outcome[o] = "error"
    BY <1>2 DEF TrackFailure
  <2>5. <<o, 0>> \in RowIds /\ NewRow(o, "failed") \in Row
    BY <2>1, TargetType
  <2>6. QED BY <2>2, <2>3, <2>4, <2>5
<1>3. CASE TrackDestroy(o) \/ SweepDestroy(o)
  <2>1. Started(o)
    BY <1>3 DEF TrackDestroy, SweepDestroy, Started
  <2>2. \/ UNCHANGED resources
        \/ \E i \in RowIds : /\ resources[i] # None
                             /\ resources' = [resources EXCEPT ![i] =
                                                [resources[i] EXCEPT !.status = "destroyed"]]
    BY <1>3, <2>1, TargetType DEF TrackDestroy, SweepDestroy, WriteRow
  <2>3. \A i \in RowIds : resources[i] # None =>
          /\ [resources[i] EXCEPT !.status = "destroyed"] \in Row
          /\ [resources[i] EXCEPT !.status = "destroyed"].status = "destroyed"
    BY DEF TypeInv, TypeOK, Row
  <2>4. QED BY <2>2, <2>3
<1>4. CASE SaveOutputs(o)
  <2>1. Started(o)
    BY <1>4 DEF SaveOutputs, Started
  <2>2. \/ UNCHANGED resources
        \/ \E i \in RowIds : /\ resources[i] # None
                             /\ resources' = [resources EXCEPT ![i] =
                                                [resources[i] EXCEPT !.outputs = fetched[o]]]
    BY <1>4, <2>1, TargetType DEF SaveOutputs, WriteRow
  <2>3. \A i \in RowIds : resources[i] # None =>
          LET row == [resources[i] EXCEPT !.outputs = fetched[o]]
          IN  row \in Row /\ row.status = resources[i].status /\ row.by = resources[i].by
    BY DEF TypeInv, TypeOK, Row
  <2>4. QED BY <2>2, <2>3
<1>5. CASE \/ Submit(o) \/ ClearRunDir(o) \/ FillRunDir(o) \/ Remember(o) \/ InsertRecord(o)
           \/ Launch(o) \/ LaunchFails(o) \/ ContainerEnds(o) \/ DetachedEnds(o)
           \/ Settle(o) \/ Persist(o) \/ LookupRow(o) \/ FetchOutputs(o)
  BY <1>5 DEF Submit, ClearRunDir, FillRunDir, Remember, InsertRecord, Launch, LaunchFails,
              ContainerEnds, DetachedEnds, Settle, Persist, LookupRow, FetchOutputs
<1>6. QED BY <1>1, <1>2, <1>3, <1>4, <1>5 DEF Step

\* A row that is not cancelled keeps the status and the last_apply_id that its
\* record explains, or takes those a closed record explains.
LEMMA RecordsBehindRowsByStep ==
  ASSUME Faults \cap {"lostwrite", "collision"} = {}, TypeInv, RecordsBehindRows, Provenance,
         NEW o \in Requests, Submit(o) \/ Step(o) \/ DetachedEnds(o)
  PROVE  RecordsBehindRows' /\ Provenance'
<1> USE DEF TypeInv, TypeOK
<1>1. OwnRecord /\ OwnRecord' /\ ClosedAreKept
  BY OwnRecordByStep DEF RecordsBehindRows
<1>2. \A r \in Requests : Started(r) => req'[r] = req[r]
  <2>1. CASE Submit(o)
    BY <2>1 DEF Submit, Started
  <2>2. CASE Remember(o) \/ InsertRecord(o) \/ Persist(o)
    BY <2>2 DEF Remember, InsertRecord, Persist
  <2>3. QED BY <2>1, <2>2, StepShape DEF Quiet
<1>3. \A r \in Requests : executions[r] # None /\ executions[r].status # "running" =>
        executions'[r] = executions[r] /\ req'[r] = req[r]
  BY <1>1, <1>2 DEF ClosedAreKept, Running, Grounded
<1>4. \A p \in Requests : pc'[p] \in Open => Running(executions'[p])
  <2> USE DEF RecordsBehindRows, Goto, Open, Running
  <2>1. CASE Submit(o)
    BY <2>1 DEF Submit
  <2>2. CASE Remember(o)
    BY <2>2 DEF Remember
  <2>3. CASE InsertRecord(o)
    <3>1. [status |-> "running", logs |-> None] \in Record
      BY DEF Record
    <3>2. executions' = [executions EXCEPT ![o] = [status |-> "running", logs |-> None]]
      BY <2>3, <1>1 DEF InsertRecord, WriteExecution, Fault, OwnRecord, Before
    <3>3. pc' = [pc EXCEPT ![o] = "launch"]
      BY <2>3 DEF InsertRecord
    <3>4. QED BY <3>1, <3>2, <3>3, NoneAssumption
  <2>4. CASE Persist(o)
    BY <2>4, <1>1 DEF Persist, WriteExecution, OwnRecord
  <2>5. QED BY <2>1, <2>2, <2>3, <2>4, StepShape DEF Quiet
<1>5. \A p \in Requests :
        pc'[p] \in {"lookup", "track"} /\ outcome'[p] \in {"success", "error"} =>
          executions'[p] # None /\ executions'[p].status = outcome'[p]
  <2> USE DEF RecordsBehindRows, Goto
  <2>1. CASE Submit(o)
    BY <2>1 DEF Submit
  <2>2. CASE Remember(o)
    BY <2>2 DEF Remember
  <2>3. CASE InsertRecord(o)
    BY <2>3, <1>3 DEF InsertRecord
  <2>4. CASE Persist(o)
    <3>1. executions' = [executions EXCEPT ![o] = Closed(o)]
      BY <2>4, <1>1 DEF Persist, WriteExecution, OwnRecord, Fault, Open, Running
    <3>2. Closed(o) # None /\ (outcome[o] \in {"success", "error"} => Closed(o).status = outcome[o])
      <4>1. Closed(o) \in Record
        BY DEF Closed, Logs, Record
      <4>2. QED BY <4>1, NoneAssumption DEF Closed
    <3>3. pc' = [pc EXCEPT ![o] = pc'[o]] /\ UNCHANGED outcome
      BY <2>4 DEF Persist
    <3>4. QED BY <3>1, <3>2, <3>3
  <2>5. CASE LookupRow(o)
    BY <2>5 DEF LookupRow
  <2>6. QED BY <2>1, <2>2, <2>3, <2>4, <2>5, StepShape DEF Quiet
<1>6. toRecover' = toRecover
  <2>1. CASE Submit(o) \/ Remember(o) \/ InsertRecord(o) \/ Persist(o)
    BY <2>1 DEF Submit, Remember, InsertRecord, Persist
  <2>2. QED BY <2>1, StepShape DEF Quiet
<1>7. RecordsBehindRows'
  BY <1>1, <1>3, <1>4, <1>5, <1>6 DEF RecordsBehindRows, Interrupted, Asks
<1>8. Provenance'
  <2> DEFINE Explained(row) ==
        /\ row.by \in Requests
        /\ req[row.by].action = "apply"
        /\ executions[row.by] # None
        /\ <<row.status, executions[row.by].status>> \in
             {<<"active", "success">>, <<"failed", "error">>, <<"unknown", "interrupted">>}
  <2>1. \A i \in RowIds : resources[i] # None /\ resources[i].status # "destroyed" =>
          Explained(resources[i])
    BY <1>1 DEF Provenance, Live, OwnRecord, Asks, Row
  <2>2. \A i \in RowIds : resources'[i] # None /\ resources'[i].status # "destroyed" =>
          Explained(resources'[i])
    <3>1. CASE UNCHANGED resources
      BY <2>1, <3>1
    <3>2. ASSUME NEW i \in RowIds, NEW row \in Row,
                 resources' = [resources EXCEPT ![i] = row],
                 \/ row.status = "destroyed"
                 \/ /\ pc[o] = "track" /\ Asks(o, "apply") /\ row.by = o
                    /\ <<row.status, outcome[o]>> \in {<<"active", "success">>,
                                                       <<"failed", "error">>}
                 \/ /\ resources[i] # None
                    /\ row.status = resources[i].status /\ row.by = resources[i].by
          PROVE  \A j \in RowIds : resources'[j] # None /\ resources'[j].status # "destroyed" =>
                   Explained(resources'[j])
      <4>1. row.status # "destroyed" => Explained(row)
        BY <3>2, <2>1 DEF RecordsBehindRows, Asks
      <4>2. QED BY <3>2, <4>1, <2>1
    <3>3. QED BY <3>1, <3>2, RowShape
  <2>3. \A i \in RowIds : Explained(resources'[i]) =>
          LET by == resources'[i].by
          IN  /\ by \in Requests
              /\ executions'[by] = executions[by]
              /\ req'[by] = req[by]
    BY <1>3
  <2>4. QED BY <1>1, <2>2, <2>3 DEF Provenance, Live, OwnRecord, Asks
<1>9. QED BY <1>7, <1>8

LEMMA RecordsBehindRowsByRestart ==
  ASSUME Faults \cap {"lostwrite", "collision"} = {}, TypeInv, RecordsBehindRows, Provenance,
         Crash \/ StartUp
  PROVE  RecordsBehindRows' /\ Provenance'
<1>1. OwnRecord /\ OwnRecord' /\ ClosedAreKept
  BY OwnRecordByRestart DEF RecordsBehindRows
<1>2. CASE Crash
  <2>1. \A o \in Requests : pc'[o] = IF pc[o] = "running" THEN "detached"
                                     ELSE IF o \in InFlight THEN "lost" ELSE pc[o]
    BY <1>2 DEF Crash
  <2>2. \A o \in Requests : pc'[o] \notin Open \cup {"lookup", "track"}
    BY <2>1 DEF InFlight, Open
  <2>3. toRecover' = {} /\ UNCHANGED <<req, recordID, executions, resources>>
    BY <1>2 DEF Crash
  <2>4. QED BY <1>1, <2>2, <2>3 DEF RecordsBehindRows, Provenance, Live, Asks
<1>3. CASE MarkInterrupted
  <2>1. \A o \in Requests : pc[o] \in Ended
    BY <1>1, <1>3 DEF MarkInterrupted, Stale, OwnRecord
  <2>2. UNCHANGED <<pc, outcome, req, recordID, resources>>
    BY <1>3 DEF MarkInterrupted, Stale, volatile
  <2>3. \/ toRecover' = {r \in Requests : Recoverable(r, executions'[r])}
        \/ toRecover' = {}
    BY <1>3 DEF MarkInterrupted, Stale
  <2>4. RecordsBehindRows'
    BY <1>1, <2>1, <2>2, <2>3 DEF RecordsBehindRows, Ended, Open, Recoverable, Interrupted, Asks
  <2>5. \A i \in RowIds : Live(i) =>
          LET by == resources[i].by
          IN  by \in Requests /\ executions'[by] = executions[by]
    BY <1>1 DEF Provenance, Live, OwnRecord, ClosedAreKept, Running, TypeInv, TypeOK, Row
  <2>6. QED BY <1>1, <2>2, <2>4, <2>5 DEF Provenance, Live, OwnRecord, Asks
<1>4. CASE Serve
  BY <1>4, <1>1 DEF Serve, volatile, RecordsBehindRows, Provenance, Live, Asks, Interrupted
<1>5. ASSUME NEW r \in Requests, Recover(r)
      PROVE  RecordsBehindRows' /\ Provenance'
  <2>1. /\ r \in toRecover
        /\ toRecover' \subseteq toRecover
        /\ UNCHANGED <<pc, outcome, req, recordID, executions>>
    BY <1>5 DEF Recover, volatile
  <2>2. RecordsBehindRows'
    BY <1>1, <2>1 DEF RecordsBehindRows, Interrupted, Asks
  <2>3. \/ UNCHANGED resources
        \/ \E i \in RowIds, k \in Keys :
             resources' = [resources EXCEPT ![i] = RecoveredRow(r, k)]
    <3>1. Key(r) \in Keys
      BY <2>1 DEF TypeInv, TypeOK, Grounded, Key, Request
    <3>2. <<r, crashes>> \in RowIds
      BY DEF TypeInv, TypeOK, RowIds
    <3>3. QED
      BY <1>5, <3>1, <3>2, ConstantsAssumption DEF Recover, RecoveredKeys, WriteRow
  <2>4. /\ req[r].action = "apply" /\ recordID[r] = r
        /\ executions[r] # None /\ executions[r].status = "interrupted"
    BY <1>1, <2>1 DEF RecordsBehindRows, OwnRecord, Interrupted, Asks, TypeInv, TypeOK
  <2>5. CASE UNCHANGED resources
    BY <2>1, <2>2, <2>5 DEF Provenance, Live, Asks
  <2>6. ASSUME NEW i \in RowIds, NEW k \in Keys,
               resources' = [resources EXCEPT ![i] = RecoveredRow(r, k)]
        PROVE  Provenance'
    BY <2>1, <2>4, <2>6 DEF RecoveredRow, Provenance, Live, Asks, TypeInv, TypeOK
  <2>7. QED BY <2>2, <2>3, <2>5, <2>6
<1>6. ~MarkFails
  BY DEF MarkFails, Fault
<1>7. QED BY <1>2, <1>3, <1>4, <1>5, <1>6 DEF StartUp

\* Every row that is not cancelled comes from an apply whose record has the
\* verdict the row shows, if no statement is lost and no two requests share an
\* id.  Crashes and lost verdicts of jobs do not matter.
THEOREM RowsHaveTheirRecord ==
  ASSUME Faults \cap {"lostwrite", "collision"} = {}
  PROVE  Spec => []Provenance
<1> DEFINE Inv == RecordsBehindRows /\ Provenance
<1>1. Init => Inv
  <2>1. Init => OwnRecord
    BY DEF Init, OwnRecord, Before, Open
  <2>2. QED BY <2>1 DEF Init, RecordsBehindRows, Provenance, Open, Live
<1>2. TypeInv /\ Inv /\ [Next]_vars => Inv'
  <2> SUFFICES ASSUME TypeInv, Inv, [Next]_vars PROVE Inv'
    OBVIOUS
  <2>1. CASE UNCHANGED vars
    <3>1. OwnRecord'
      BY <2>1, OwnRecordStep DEF RecordsBehindRows
    <3>2. QED
      BY <2>1, <3>1 DEF vars, volatile, RecordsBehindRows, Provenance, Live, Asks, Interrupted,
                        Running
  <2>2. QED BY <2>1, RecordsBehindRowsByStep, RecordsBehindRowsByRestart DEF Next
<1>3. Inv => Provenance
  OBVIOUS
<1>4. QED BY <1>1, <1>2, <1>3, TypeInvariant, PTL DEF Spec

-----------------------------------------------------------------------------
(* Nothing is deployed without a record                                    *)

\* A job reads its own configuration, after its request has its record.
RecordedRuns ==
  /\ \A o \in Requests : pc[o] = "launch" => executions[recordID[o]] # None
  /\ \A o \in Requests : pc[o] \in Before \cup {"launch"} => ran[o] = None
  /\ \A o \in Requests : ran[o] # None => ran[o] = o /\ executions[recordID[o]] # None
  /\ \A k \in Keys : infra[k] # None => infra[k] \in Requests /\ ran[infra[k]] = infra[k]

LEMMA RecordedRunsStep ==
  ASSUME "lostwrite" \notin Faults, Kubernetes, TypeInv, RecordedRuns, [Next]_vars
  PROVE  RecordedRuns'
<1> USE DEF TypeInv, TypeOK, Goto
<1>1. \A o, r \in Requests : Submit(o) \/ Step(o) \/ DetachedEnds(o) =>
        (executions[r] # None => executions'[r] # None)
  <2> SUFFICES ASSUME NEW o \in Requests, NEW r \in Requests,
                      Submit(o) \/ Step(o) \/ DetachedEnds(o), executions[r] # None
               PROVE  executions'[r] # None
    OBVIOUS
  <2>1. CASE Persist(o)
    <3>1. Closed(o) \in Record
      BY DEF Closed, Logs, Record
    <3>2. QED BY <2>1, <3>1, NoneAssumption DEF Persist, WriteExecution
  <2>2. CASE InsertRecord(o)
    <3>1. [status |-> "running", logs |-> None] \in Record
      BY DEF Record
    <3>2. QED BY <2>2, <3>1, NoneAssumption DEF InsertRecord, WriteExecution
  <2>3. QED BY <2>1, <2>2, StepShape DEF Quiet, Submit, Remember
<1>2. ASSUME NEW o \in Requests, Submit(o) \/ Remember(o) \/ ClearRunDir(o) \/ FillRunDir(o)
      PROVE  RecordedRuns'
  BY <1>2 DEF RecordedRuns, Before, Submit, Remember, ClearRunDir, FillRunDir, cloud
<1>3. ASSUME NEW o \in Requests, InsertRecord(o)
      PROVE  RecordedRuns'
  <2>1. executions'[recordID[o]] # None
    <3>1. [status |-> "running", logs |-> None] \in Record
      BY DEF Record
    <3>2. QED BY <1>3, <3>1, NoneAssumption DEF InsertRecord, WriteExecution, Fault
  <2>2. /\ pc[o] = "insert" /\ pc' = [pc EXCEPT ![o] = "launch"]
        /\ UNCHANGED <<ran, recordID, infra>>
    BY <1>3 DEF InsertRecord, cloud
  <2>3. \A r \in Requests : executions[r] # None => executions'[r] # None
    BY <1>1, <1>3 DEF Step
  <2>4. QED BY <2>1, <2>2, <2>3 DEF RecordedRuns, Before
<1>4. ASSUME NEW o \in Requests, Launch(o)
      PROVE  RecordedRuns'
  BY <1>4 DEF RecordedRuns, Before, Launch, cloud
<1>5. ASSUME NEW o \in Requests, ContainerEnds(o) \/ DetachedEnds(o)
      PROVE  RecordedRuns'
  <2>1. /\ pc[o] \in {"running", "detached"}
        /\ \E stage \in {"settle", "lost"} : pc' = [pc EXCEPT ![o] = stage]
        /\ UNCHANGED <<ran, recordID, executions>>
    BY <1>5 DEF ContainerEnds, DetachedEnds
  <2>2. \A k \in Keys : infra'[k] = infra[k] \/ infra'[k] \in {None, ran[o]}
    <3>1. PICK verdict \in {"success", "error"} : Terraform(o, verdict)
      BY <1>5 DEF ContainerEnds, DetachedEnds
    <3>2. QED BY <3>1 DEF Terraform, Deploys, Removes, cloud
  <2>3. QED BY <2>1, <2>2 DEF RecordedRuns, Before
<1>6. ASSUME NEW o \in Requests, Persist(o)
      PROVE  RecordedRuns'
  <2>1. /\ \E stage \in {"lookup", "done"} : pc' = [pc EXCEPT ![o] = stage]
        /\ UNCHANGED <<ran, recordID, infra>>
    BY <1>6 DEF Persist, cloud
  <2>2. \A r \in Requests : executions[r] # None => executions'[r] # None
    BY <1>1, <1>6 DEF Step
  <2>3. QED BY <2>1, <2>2 DEF RecordedRuns, Before
<1>7. ASSUME NEW o \in Requests,
             \/ LaunchFails(o) \/ Settle(o) \/ LookupRow(o) \/ TrackApply(o) \/ TrackFailure(o)
             \/ TrackDestroy(o) \/ SweepDestroy(o) \/ FetchOutputs(o) \/ SaveOutputs(o)
      PROVE  RecordedRuns'
  <2>1. /\ \E stage \in Stages \ (Before \cup {"launch"}) : pc' = [pc EXCEPT ![o] = stage]
        /\ UNCHANGED <<ran, recordID, executions, infra>>
    BY <1>7 DEF LaunchFails, Settle, LookupRow, TrackApply, TrackFailure, TrackDestroy,
                SweepDestroy, FetchOutputs, SaveOutputs, Stages, Before, cloud
  <2>2. QED BY <2>1 DEF RecordedRuns
<1>8. CASE Crash
  <2>1. \A o \in Requests : pc'[o] = IF pc[o] = "running" THEN "detached"
                                     ELSE IF o \in InFlight THEN "lost" ELSE pc[o]
    BY <1>8 DEF Crash
  <2>2. \A o \in Requests : pc'[o] \in Before \cup {"launch"} => pc'[o] = pc[o] /\ pc[o] = "idle"
    BY <2>1 DEF InFlight, Before
  <2>3. QED BY <1>8, <2>2 DEF Crash, RecordedRuns, Before, cloud
<1>9. CASE MarkInterrupted
  <2>1. \A r \in Requests : Running(executions[r]) =>
          [executions[r] EXCEPT !.status = "interrupted"] \in Record
    BY DEF Running, Record
  <2>2. \A r \in Requests : executions[r] # None => executions'[r] # None
    BY <1>9, <2>1, NoneAssumption DEF MarkInterrupted, Stale
  <2>3. UNCHANGED <<pc, recordID, ran, infra>>
    BY <1>9 DEF MarkInterrupted, Stale, volatile, cloud
  <2>4. QED BY <2>2, <2>3 DEF RecordedRuns
<1>10. ASSUME Serve \/ MarkFails \/ \E r \in Requests : Recover(r)
       PROVE  RecordedRuns'
  BY <1>10 DEF Serve, MarkFails, Recover, RecordedRuns, volatile, cloud
<1>11. CASE UNCHANGED vars
  BY <1>11 DEF vars, volatile, cloud, RecordedRuns
<1>12. QED
  BY <1>2, <1>3, <1>4, <1>5, <1>6, <1>7, <1>8, <1>9, <1>10, <1>11 DEF Next, Step, StartUp

\* Under Kubernetes whatever is deployed has its record in the table, if no
\* statement is lost: a job starts from its own configuration, and after the
\* record of its request is there.  (A docker container may read the
\* configuration of a request that has no record yet.)
THEOREM DeployedHasRecord ==
  ASSUME "lostwrite" \notin Faults, Kubernetes
  PROVE  Spec => []DeployedIsRecorded
<1>1. Init => RecordedRuns
  BY DEF Init, RecordedRuns
<1>2. TypeInv /\ RecordedRuns /\ [Next]_vars => RecordedRuns'
  BY RecordedRunsStep
<1>3. RecordedRuns => DeployedIsRecorded
  BY DEF RecordedRuns, DeployedIsRecorded
<1>4. QED BY <1>1, <1>2, <1>3, TypeInvariant, PTL DEF Spec

-----------------------------------------------------------------------------
(* 3. In turn                                                              *)

-----------------------------------------------------------------------------
(* The request in flight                                                   *)

\* The run directory, the container and the logs are those of the request in
\* flight.  A container whose backend has died is still its request's own.
Alone ==
  /\ \A o, p \in InFlight : o = p
  /\ server # "up" => InFlight = {}
  /\ \A o \in Requests : recordID[o] = o
  /\ \A o \in Requests : ran[o] # None => ran[o] = o
  /\ \A o \in InFlight : pc[o] \notin {"clear", "fill"} => runDir = o
  /\ \A o \in Requests : pc[o] = "running" => ran[o] = o
  /\ \A o \in Requests : pc[o] \in {"settle", "persist"} => lastLogs = o \/ req[o].route = "ws"

\* A client opens a request only when none is open.
LEMMA NobodyInFlight ==
  ASSUME MaxInFlight <= 1, Alone, Cardinality(InFlight) < MaxInFlight
  PROVE  InFlight = {}
<1> SUFFICES ASSUME NEW o \in InFlight PROVE FALSE
  OBVIOUS
<1>1. InFlight = {o}
  BY DEF Alone
<1>2. Cardinality(InFlight) = 1
  BY <1>1, FS_Singleton
<1>3. QED BY <1>2, ConstantsAssumption

\* A request keeps its content from its start on.
LEMMA ContentKept ==
  ASSUME TypeInv, [Next]_vars
  PROVE  \A p \in Requests : Started(p) => Started(p)' /\ req'[p] = req[p]
<1> USE DEF TypeInv, TypeOK, Started, Goto
<1>1. ASSUME NEW o \in Requests, Submit(o)
      PROVE  \A p \in Requests : Started(p) => Started(p)' /\ req'[p] = req[p]
  BY <1>1 DEF Submit
<1>2. ASSUME NEW o \in Requests, NEW stage \in Stages \ {"idle"}, Goto(o, stage), UNCHANGED req
      PROVE  \A p \in Requests : Started(p) => Started(p)' /\ req'[p] = req[p]
  BY <1>2
<1>3. ASSUME NEW o \in Requests, Step(o) \/ DetachedEnds(o)
      PROVE  UNCHANGED req /\ \E stage \in Stages \ {"idle"} : Goto(o, stage)
  BY <1>3 DEF Step, DetachedEnds, ClearRunDir, FillRunDir, Remember, InsertRecord, Launch, Stages,
              LaunchFails, ContainerEnds, Settle, Persist, LookupRow, TrackApply, TrackFailure,
              TrackDestroy, SweepDestroy, FetchOutputs, SaveOutputs
<1>4. CASE Crash
  <2>1. \A o \in Requests : pc'[o] = IF pc[o] = "running" THEN "detached"
                                     ELSE IF o \in InFlight THEN "lost" ELSE pc[o]
    BY <1>4 DEF Crash
  <2>2. QED BY <1>4, <2>1 DEF Crash
<1>5. CASE StartUp \/ UNCHANGED vars
  BY <1>5 DEF StartUp, MarkInterrupted, MarkFails, Serve, Recover, vars, volatile
<1>6. QED BY <1>1, <1>2, <1>3, <1>4, <1>5 DEF Next

\* The step of a goroutine is one of the request in flight.
LEMMA StepIsInFlight ==
  ASSUME NEW o \in Requests, Step(o)
  PROVE  o \in InFlight
  BY DEF InFlight, Step, ClearRunDir, FillRunDir, Remember, InsertRecord, Launch,
         LaunchFails, ContainerEnds, Settle, Persist, LookupRow, TrackApply, TrackFailure,
         TrackDestroy, SweepDestroy, FetchOutputs, SaveOutputs

\* The way of a request: where each of its steps leads from where.
LEMMA Way ==
  ASSUME TypeInv, NEW o \in Requests
  PROVE  /\ ClearRunDir(o)   => pc[o] = "clear" /\ pc'[o] = "fill"
         /\ FillRunDir(o)    => pc[o] = "fill" /\ pc'[o] = IF Asks(o, "refresh") THEN "fetch"
                                                                             ELSE "remember"
         /\ Remember(o)      => pc[o] = "remember" /\ pc'[o] = "insert"
         /\ InsertRecord(o)  => pc[o] = "insert" /\ pc'[o] = "launch"
         /\ Launch(o)        => pc[o] = "launch" /\ pc'[o] = "running"
         /\ LaunchFails(o)   => pc[o] = "launch" /\ pc'[o] = "settle"
         /\ ContainerEnds(o) => pc[o] = "running" /\ pc'[o] = "settle"
         /\ Settle(o)        => pc[o] = "settle" /\ pc'[o] = "persist"
         /\ Persist(o)       => pc[o] = "persist" /\ pc'[o] = IF Tracks(o) THEN "lookup" ELSE "done"
         /\ LookupRow(o)     => pc[o] = "lookup" /\ pc'[o] = "track"
         /\ TrackApply(o)    => pc[o] = "track" /\ pc'[o] = "fetch" /\ Asks(o, "apply")
         /\ TrackFailure(o)  => pc[o] = "track" /\ pc'[o] = "done"
         /\ TrackDestroy(o)  => /\ pc[o] = "track" /\ Asks(o, "destroy")
                                /\ pc'[o] = IF existing[o] = None /\ req[o].route = "http"
                                              THEN "sweep" ELSE "done"
         /\ SweepDestroy(o)  => pc[o] = "sweep" /\ pc'[o] = "done"
         /\ FetchOutputs(o)  => pc[o] = "fetch" /\ pc'[o] \in {"save", "done"}
         /\ SaveOutputs(o)   => pc[o] = "save" /\ pc'[o] = "done"
<1> USE DEF TypeInv, TypeOK, Goto
<1>1. ClearRunDir(o) => pc[o] = "clear" /\ pc'[o] = "fill"
  BY DEF ClearRunDir
<1>2. FillRunDir(o) => pc[o] = "fill" /\ pc'[o] = IF Asks(o, "refresh") THEN "fetch" ELSE "remember"
  BY DEF FillRunDir
<1>3. Remember(o) => pc[o] = "remember" /\ pc'[o] = "insert"
  BY DEF Remember
<1>4. InsertRecord(o) => pc[o] = "insert" /\ pc'[o] = "launch"
  BY DEF InsertRecord
<1>5. Launch(o) => pc[o] = "launch" /\ pc'[o] = "running"
  BY DEF Launch
<1>6. LaunchFails(o) => pc[o] = "launch" /\ pc'[o] = "settle"
  BY DEF LaunchFails
<1>7. ContainerEnds(o) => pc[o] = "running" /\ pc'[o] = "settle"
  BY DEF ContainerEnds
<1>8. Settle(o) => pc[o] = "settle" /\ pc'[o] = "persist"
  BY DEF Settle
<1>9. Persist(o) => pc[o] = "persist" /\ pc'[o] = IF Tracks(o) THEN "lookup" ELSE "done"
  BY DEF Persist
<1>10. LookupRow(o) => pc[o] = "lookup" /\ pc'[o] = "track"
  BY DEF LookupRow
<1>11. TrackApply(o) => pc[o] = "track" /\ pc'[o] = "fetch" /\ Asks(o, "apply")
  BY DEF TrackApply
<1>12. TrackFailure(o) => pc[o] = "track" /\ pc'[o] = "done"
  BY DEF TrackFailure
<1>13. TrackDestroy(o) => /\ pc[o] = "track" /\ Asks(o, "destroy")
                          /\ pc'[o] = IF existing[o] = None /\ req[o].route = "http"
                                        THEN "sweep" ELSE "done"
  BY DEF TrackDestroy
<1>14. SweepDestroy(o) => pc[o] = "sweep" /\ pc'[o] = "done"
  BY DEF SweepDestroy
<1>15. FetchOutputs(o) => pc[o] = "fetch" /\ pc'[o] \in {"save", "done"}
  BY DEF FetchOutputs
<1>16. SaveOutputs(o) => pc[o] = "save" /\ pc'[o] = "done"
  BY DEF SaveOutputs
<1>17. QED
  BY <1>1, <1>2, <1>3, <1>4, <1>5, <1>6, <1>7, <1>8, <1>9, <1>10, <1>11, <1>12, <1>13, <1>14,
     <1>15, <1>16

\* What every step of a goroutine leaves alone: the content of the requests,
\* and what belongs to the others.
LEMMA StepLeaves ==
  ASSUME TypeInv, NEW o \in Requests, Step(o)
  PROVE  /\ req' = req
         /\ server' = server
         /\ \A p \in Requests \ {o} : pc'[p] = pc[p]
         /\ ~LookupRow(o) => existing' = existing
         /\ ~FetchOutputs(o) => fetched' = fetched
         /\ ~(LaunchFails(o) \/ ContainerEnds(o)) => outcome' = outcome
         /\ ~ContainerEnds(o) => infra' = infra /\ tfstate' = tfstate
<1> USE DEF TypeInv, TypeOK, Goto, cloud
<1>1. CASE ClearRunDir(o) \/ FillRunDir(o) \/ Remember(o) \/ InsertRecord(o)
  BY <1>1 DEF ClearRunDir, FillRunDir, Remember, InsertRecord
<1>2. CASE Launch(o) \/ LaunchFails(o) \/ ContainerEnds(o)
  BY <1>2 DEF Launch, LaunchFails, ContainerEnds
<1>3. CASE Settle(o) \/ Persist(o) \/ LookupRow(o) \/ FetchOutputs(o)
  BY <1>3 DEF Settle, Persist, LookupRow, FetchOutputs
<1>4. CASE TrackApply(o) \/ TrackFailure(o) \/ TrackDestroy(o)
  BY <1>4 DEF TrackApply, TrackFailure, TrackDestroy
<1>5. CASE SweepDestroy(o) \/ SaveOutputs(o)
  BY <1>5 DEF SweepDestroy, SaveOutputs
<1>6. QED BY <1>1, <1>2, <1>3, <1>4, <1>5 DEF Step

LEMMA AloneByStep ==
  ASSUME MaxInFlight <= 1, TypeInv, Alone, LogsAreOwn, NEW o \in Requests, Step(o)
  PROVE  Alone' /\ LogsAreOwn'
<1>1. o \in InFlight /\ \A p \in Requests \ {o} : p \notin InFlight
  BY StepIsInFlight DEF Alone
<1> USE <1>1 DEF Alone, LogsAreOwn, TypeInv, TypeOK, Goto, InFlight
<1>2. CASE ClearRunDir(o) \/ FillRunDir(o)
  BY <1>2 DEF ClearRunDir, FillRunDir
<1>3. CASE Remember(o)
  BY <1>3 DEF Remember
<1>4. CASE InsertRecord(o)
  BY <1>4 DEF InsertRecord, WriteExecution
<1>5. CASE Launch(o)
  BY <1>5 DEF Launch
<1>6. CASE LaunchFails(o)
  BY <1>6 DEF LaunchFails
<1>7. CASE ContainerEnds(o)
  BY <1>7 DEF ContainerEnds
<1>8. CASE Settle(o)
  BY <1>8 DEF Settle
<1>9. CASE Persist(o)
  <2>1. Closed(o).logs = o
    BY <1>9 DEF Persist, Closed, Logs
  <2>2. \A r \in Requests : executions'[r] # None => executions'[r].logs \in {r, None}
    BY <1>9, <2>1 DEF Persist, WriteExecution
  <2>3. Alone'
    BY <1>9 DEF Persist
  <2>4. QED BY <2>2, <2>3
<1>10. CASE LookupRow(o) \/ FetchOutputs(o)
  BY <1>10 DEF LookupRow, FetchOutputs
<1>11. CASE \/ TrackApply(o) \/ TrackFailure(o) \/ TrackDestroy(o) \/ SweepDestroy(o)
            \/ SaveOutputs(o)
  BY <1>11 DEF TrackApply, TrackFailure, TrackDestroy, SweepDestroy, SaveOutputs
<1>12. QED
  BY <1>2, <1>3, <1>4, <1>5, <1>6, <1>7, <1>8, <1>9, <1>10, <1>11 DEF Step

LEMMA AloneStep ==
  ASSUME MaxInFlight <= 1, TypeInv, Alone, LogsAreOwn, [Next]_vars
  PROVE  Alone' /\ LogsAreOwn'
<1>1. ASSUME NEW o \in Requests, Submit(o) PROVE Alone' /\ LogsAreOwn'
  <2>1. InFlight = {}
    BY <1>1, NobodyInFlight DEF Submit
  <2>2. /\ server = "up" /\ pc' = [pc EXCEPT ![o] = "clear"]
        /\ \A p \in Requests \ {o} : req'[p] = req[p]
        /\ UNCHANGED <<server, runDir, ran, recordID, lastLogs, executions>>
    BY <1>1 DEF Submit, Goto, TypeInv, TypeOK
  <2>3. QED BY <2>1, <2>2 DEF Alone, LogsAreOwn, InFlight, TypeInv, TypeOK
<1>2. ASSUME NEW o \in Requests, DetachedEnds(o) PROVE Alone' /\ LogsAreOwn'
  BY <1>2 DEF DetachedEnds, Alone, LogsAreOwn, InFlight, Goto, TypeInv, TypeOK
<1>3. CASE Crash
  <2>1. \A o \in Requests : pc'[o] = IF pc[o] = "running" THEN "detached"
                                     ELSE IF o \in InFlight THEN "lost" ELSE pc[o]
    BY <1>3 DEF Crash
  <2>2. \A o \in Requests : pc'[o] \in {"idle", "done", "detached", "lost"}
    BY <2>1 DEF InFlight
  <2>3. QED BY <1>3, <2>2 DEF Crash, Alone, LogsAreOwn, InFlight
<1>4. CASE MarkInterrupted
  <2>1. \A r \in Requests : executions'[r] # None => executions[r] # None
    BY <1>4 DEF MarkInterrupted, Stale, Running
  <2>2. \A r \in Requests : executions[r] # None /\ executions'[r] # None =>
          executions'[r].logs = executions[r].logs
    BY <1>4 DEF MarkInterrupted, Stale, TypeInv, TypeOK, Record
  <2>3. LogsAreOwn'
    BY <2>1, <2>2 DEF LogsAreOwn
  <2>4. InFlight = {} /\ UNCHANGED <<volatile, ran, runDir, req>>
    BY <1>4 DEF Alone, MarkInterrupted, Stale
  <2>5. QED BY <2>3, <2>4 DEF Alone, InFlight, volatile
<1>5. CASE Serve \/ MarkFails \/ UNCHANGED vars \/ \E r \in Requests : Recover(r)
  BY <1>5 DEF Serve, MarkFails, Recover, vars, volatile, Alone, LogsAreOwn, InFlight
<1>6. QED BY <1>1, <1>2, <1>3, <1>4, <1>5, AloneByStep DEF Next, StartUp

-----------------------------------------------------------------------------
(* What a request does to the resources table                              *)

\* The row that request o puts at i: a new one, the one it has found with the
\* verdict, one it cancels, or one with the outputs it has read.
Updates(i, row) ==
  /\ resources[i] # None
  /\ row.key = resources[i].key

Change(o, i, row) ==
  \/ /\ pc[o] = "track" /\ Asks(o, "apply") /\ existing[o] = None
     /\ i = <<o, 0>> /\ row.key = Key(o) /\ row.outputs = None
     /\ <<row.status, outcome[o]>> \in {<<"active", "success">>, <<"failed", "error">>}
  \/ /\ pc[o] = "track" /\ Asks(o, "apply") /\ existing[o] = i /\ outcome[o] = "success"
     /\ Updates(i, row) /\ row.outputs = resources[i].outputs /\ row.status = "active"
  \/ /\ \/ pc[o] = "track" /\ Asks(o, "destroy") /\ i = existing[o]
        \/ pc[o] = "sweep" /\ i \in SweepMatches(o)
     /\ Updates(i, row) /\ row.outputs = resources[i].outputs /\ row.status = "destroyed"
  \/ /\ pc[o] = "save" /\ i \in OutputRows(o)
     /\ Updates(i, row) /\ row.outputs = fetched[o] /\ row.status = resources[i].status

LEMMA RowChange ==
  ASSUME TypeInv, NEW o \in Requests, Step(o)
  PROVE  \/ UNCHANGED resources
         \/ \E i \in RowIds, row \in Row :
              resources' = [resources EXCEPT ![i] = row] /\ Change(o, i, row)
<1>1. ASSUME NEW i \in RowIds, resources[i] # None
      PROVE  /\ LET row == [resources[i] EXCEPT !.status = "active", !.by = o]
                IN  /\ row \in Row /\ row.status = "active"
                    /\ Updates(i, row) /\ row.outputs = resources[i].outputs
             /\ LET row == [resources[i] EXCEPT !.status = "destroyed"]
                IN  /\ row \in Row /\ row.status = "destroyed"
                    /\ Updates(i, row) /\ row.outputs = resources[i].outputs
             /\ LET row == [resources[i] EXCEPT !.outputs = fetched[o]]
                IN  /\ row \in Row /\ row.outputs = fetched[o]
                    /\ Updates(i, row) /\ row.status = resources[i].status
  <2>1. resources[i] \in Row /\ fetched[o] \in Requests \cup {None}
    BY <1>1 DEF TypeInv, TypeOK
  <2>2. QED BY <1>1, <2>1 DEF Row, Updates
<1>2. ASSUME NEW status \in {"active", "failed"}
      PROVE  LET row == NewRow(o, status)
             IN  row.status = status /\ row.key = Key(o) /\ row.outputs = None
  BY DEF NewRow
<1>3. CASE TrackApply(o) /\ existing[o] # None
  <2>1. Started(o)
    BY <1>3 DEF TrackApply, Started
  <2>2. existing[o] \in RowIds /\ resources[existing[o]] # None
    BY <1>3, <2>1, TargetType
  <2> DEFINE row == [resources[existing[o]] EXCEPT !.status = "active", !.by = o]
  <2>3. UNCHANGED resources \/ resources' = [resources EXCEPT ![existing[o]] = row]
    BY <1>3 DEF TrackApply, WriteRow
  <2>4. /\ row \in Row /\ row.status = "active"
        /\ Updates(existing[o], row) /\ row.outputs = resources[existing[o]].outputs
    BY <1>1, <2>2
  <2>5. pc[o] = "track" /\ Asks(o, "apply") /\ outcome[o] = "success"
    BY <1>3 DEF TrackApply
  <2> HIDE DEF row
  <2>6. QED BY <2>2, <2>3, <2>4, <2>5 DEF Change
<1>4. CASE \/ TrackApply(o) /\ existing[o] = None
           \/ TrackFailure(o)
  <2>1. Started(o)
    BY <1>4 DEF TrackApply, TrackFailure, Started
  <2>2. \/ UNCHANGED resources
        \/ \E status \in {"active", "failed"} :
             /\ <<status, outcome[o]>> \in {<<"active", "success">>, <<"failed", "error">>}
             /\ resources' = [resources EXCEPT ![<<o, 0>>] = NewRow(o, status)]
             /\ existing[o] = None
    BY <1>4 DEF TrackApply, TrackFailure, WriteRow
  <2>3. <<o, 0>> \in RowIds /\ \A status \in {"active", "failed"} : NewRow(o, status) \in Row
    BY <2>1, TargetType
  <2>4. pc[o] = "track" /\ Asks(o, "apply")
    BY <1>4 DEF TrackApply, TrackFailure
  <2>5. QED BY <1>2, <2>2, <2>3, <2>4 DEF Change
<1>5. CASE TrackDestroy(o) \/ SweepDestroy(o)
  <2>1. Started(o)
    BY <1>5 DEF TrackDestroy, SweepDestroy, Started
  <2>2. \/ UNCHANGED resources
        \/ \E i \in RowIds :
             /\ \/ pc[o] = "track" /\ Asks(o, "destroy") /\ i = existing[o]
                \/ pc[o] = "sweep" /\ i \in SweepMatches(o)
             /\ resources[i] # None
             /\ resources' = [resources EXCEPT ![i] = [resources[i] EXCEPT !.status = "destroyed"]]
    BY <1>5, <2>1, TargetType DEF TrackDestroy, SweepDestroy, WriteRow
  <2>3. CASE UNCHANGED resources
    BY <2>3
  <2>4. ASSUME NEW i \in RowIds,
               \/ pc[o] = "track" /\ Asks(o, "destroy") /\ i = existing[o]
               \/ pc[o] = "sweep" /\ i \in SweepMatches(o),
               resources[i] # None,
               resources' = [resources EXCEPT ![i] = [resources[i] EXCEPT !.status = "destroyed"]]
        PROVE  \E row \in Row : resources' = [resources EXCEPT ![i] = row] /\ Change(o, i, row)
    <3> DEFINE row == [resources[i] EXCEPT !.status = "destroyed"]
    <3>1. /\ row \in Row /\ row.status = "destroyed"
          /\ Updates(i, row) /\ row.outputs = resources[i].outputs
      BY <1>1, <2>4
    <3>2. resources' = [resources EXCEPT ![i] = row]
      BY <2>4
    <3> HIDE DEF row
    <3>3. Change(o, i, row)
      BY <2>4, <3>1 DEF Change
    <3>4. QED BY <3>1, <3>2, <3>3
  <2>5. QED BY <2>2, <2>3, <2>4
<1>6. CASE SaveOutputs(o)
  <2>1. Started(o) /\ pc[o] = "save"
    BY <1>6 DEF SaveOutputs, Started
  <2>2. \/ UNCHANGED resources
        \/ \E i \in RowIds :
             /\ i \in OutputRows(o) /\ resources[i] # None
             /\ resources' = [resources EXCEPT ![i] = [resources[i] EXCEPT !.outputs = fetched[o]]]
    BY <1>6, <2>1, TargetType DEF SaveOutputs, WriteRow
  <2>3. ASSUME NEW i \in RowIds, i \in OutputRows(o), resources[i] # None,
               resources' = [resources EXCEPT ![i] = [resources[i] EXCEPT !.outputs = fetched[o]]]
        PROVE  \E row \in Row : resources' = [resources EXCEPT ![i] = row] /\ Change(o, i, row)
    <3> DEFINE row == [resources[i] EXCEPT !.outputs = fetched[o]]
    <3>1. /\ row \in Row /\ row.outputs = fetched[o]
          /\ Updates(i, row) /\ row.status = resources[i].status
      BY <1>1, <2>3
    <3>2. resources' = [resources EXCEPT ![i] = row]
      BY <2>3
    <3> HIDE DEF row
    <3>3. Change(o, i, row)
      BY <2>1, <2>3, <3>1 DEF Change
    <3>4. QED BY <3>1, <3>2, <3>3
  <2>4. QED BY <2>2, <2>3
<1>7. CASE \/ ClearRunDir(o) \/ FillRunDir(o) \/ Remember(o) \/ InsertRecord(o) \/ Launch(o)
           \/ LaunchFails(o) \/ ContainerEnds(o) \/ Settle(o) \/ Persist(o) \/ LookupRow(o)
           \/ FetchOutputs(o)
  BY <1>7 DEF ClearRunDir, FillRunDir, Remember, InsertRecord, Launch, LaunchFails,
              ContainerEnds, Settle, Persist, LookupRow, FetchOutputs
<1>8. QED BY <1>3, <1>4, <1>5, <1>6, <1>7 DEF Step

\* What the clean-up does to it: it adds a row, under a key that has none.
LEMMA RowRecovered ==
  ASSUME TypeInv, NEW r \in Requests, Recover(r)
  PROVE  \/ UNCHANGED resources
         \/ \E i \in RowIds, row \in Row :
              /\ resources' = [resources EXCEPT ![i] = row]
              /\ row.outputs = None
              /\ Matches(row.key) = {} \/ "lostread" \in Faults
<1>1. Key(r) \in Keys
  BY DEF Recover, TypeInv, TypeOK, Grounded, Key, Request
<1>2. <<r, crashes>> \in RowIds
  BY DEF TypeInv, TypeOK, RowIds
<1>3. ASSUME NEW k \in Keys
      PROVE  /\ RecoveredRow(r, k) \in Row
             /\ RecoveredRow(r, k).key = k /\ RecoveredRow(r, k).outputs = None
  BY DEF RecoveredRow, Row
<1>4. PICK k \in Keys :
        \/ UNCHANGED resources
        \/ /\ resources' = [resources EXCEPT ![<<r, crashes>>] = RecoveredRow(r, k)]
           /\ Matches(k) = {} \/ "lostread" \in Faults
  BY <1>1, ConstantsAssumption DEF Recover, RecoveredKeys, WriteRow, Fault
<1>5. QED BY <1>2, <1>3, <1>4

-----------------------------------------------------------------------------
(* The outputs of a row are of its key                                     *)

OfKey(c, k) == Started(c) /\ Key(c) = k

\* What is deployed under a key is a configuration of it, and so are the
\* outputs on a row and those about to be saved; the row that a request has
\* named or found is of its key.
OutputsOfKey ==
  /\ \A k \in Keys : infra[k] # None => OfKey(infra[k], k)
  /\ \A i \in RowIds : resources[i] # None /\ resources[i].outputs # None =>
       OfKey(resources[i].outputs, resources[i].key)
  /\ \A o \in InFlight : pc[o] = "save" /\ fetched[o] # None => OfKey(fetched[o], Key(o))
  /\ \A o \in InFlight : pc[o] \in {"fetch", "save"} => req[o].action \in {"apply", "refresh"}
  /\ \A o \in InFlight : Asks(o, "refresh") => resources[req[o].row].key = Key(o)
  /\ \A o \in InFlight :
       pc[o] \in {"track", "fetch", "save"} /\ Asks(o, "apply") /\ existing[o] # None =>
         resources[existing[o]].key = Key(o)

\* The same of what is deployed and of the rows.
DeployedOfKey == \A k \in Keys : infra[k] # None => OfKey(infra[k], k)
RowsOfKey ==
  \A i \in RowIds : resources[i] # None /\ resources[i].outputs # None =>
    OfKey(resources[i].outputs, resources[i].key)

\* A key keeps its configurations whatever is started.
LEMMA OfKeyKept ==
  ASSUME TypeInv, [Next]_vars
  PROVE  \A c \in Requests, k \in Keys : OfKey(c, k) => OfKey(c, k)'
  BY ContentKept DEF OfKey, Key

LEMMA DeployedOfKeyStep ==
  ASSUME TypeInv, DeployedOfKey, [Next]_vars
  PROVE  DeployedOfKey'
<1>1. \A c \in Requests, k \in Keys : OfKey(c, k) => OfKey(c, k)'
  BY OfKeyKept
<1>2. CASE UNCHANGED infra
  BY <1>1, <1>2 DEF DeployedOfKey, TypeInv, TypeOK
<1>3. ASSUME NEW o \in Requests, ContainerEnds(o) \/ DetachedEnds(o)
      PROVE  DeployedOfKey'
  <2>1. PICK verdict \in {"success", "error"} : Terraform(o, verdict)
    BY <1>3 DEF ContainerEnds, DetachedEnds
  <2>2. \A k \in Keys : \/ infra'[k] \in {infra[k], None}
                        \/ ran[o] # None /\ k = Key(ran[o]) /\ infra'[k] = ran[o]
    BY <2>1 DEF Terraform, Deploys, Removes, cloud, TypeInv, TypeOK
  <2>3. ran[o] # None => ran[o] \in Requests /\ Started(ran[o])
    BY DEF TypeInv, TypeOK, Grounded
  <2>4. \A k \in Keys : infra'[k] # None => infra'[k] \in Requests /\ OfKey(infra'[k], k)
    BY <2>2, <2>3 DEF OfKey, DeployedOfKey, TypeInv, TypeOK
  <2>5. QED BY <1>1, <2>4 DEF DeployedOfKey
<1>4. UNCHANGED infra \/ \E o \in Requests : ContainerEnds(o) \/ DetachedEnds(o)
  BY DEF Next, Step, StartUp, vars, cloud, Submit, ClearRunDir, FillRunDir, Remember, InsertRecord,
         Launch, LaunchFails, Settle, Persist, LookupRow, TrackApply, TrackFailure, TrackDestroy,
         SweepDestroy, FetchOutputs, SaveOutputs, Crash, MarkInterrupted, MarkFails, Serve, Recover
<1>5. QED BY <1>2, <1>3, <1>4

\* The rows that a request may save outputs on are of its key.
LEMMA SavedRowIsOfKey ==
  ASSUME TypeInv, OutputsOfKey, NEW o \in InFlight, pc[o] = "save",
         NEW i \in RowIds, i \in OutputRows(o)
  PROVE  resources[i].key = Key(o)
<1>1. CASE Asks(o, "refresh")
  BY <1>1 DEF OutputRows, OutputsOfKey
<1>2. CASE ~Asks(o, "refresh") /\ req[o].route = "http" /\ existing[o] # None
  BY <1>2 DEF OutputRows, OutputsOfKey, Asks
<1>3. CASE i \in Lookup(Key(o))
  BY <1>3, NoneAssumption DEF Lookup, Matches
<1>4. QED BY <1>1, <1>2, <1>3 DEF OutputRows

LEMMA OutputsByStep ==
  ASSUME MaxInFlight <= 1, TypeInv, Alone, Alone', OutputsOfKey, NEW o \in Requests, Step(o)
  PROVE  OutputsOfKey'
<1>1. o \in InFlight /\ \A p \in InFlight' : p = o
  <2>1. o \in InFlight
    BY StepIsInFlight
  <2>2. \A p \in Requests \ {o} : pc'[p] = pc[p]
    BY StepLeaves
  <2>3. QED BY <2>1, <2>2 DEF Alone, InFlight
<1>2. Started(o) /\ Started(o)' /\ req' = req /\ Key(o) \in Keys
  <2>1. Started(o)
    BY <1>1 DEF InFlight, Started
  <2>2. req' = req
    BY StepLeaves
  <2>3. QED BY <2>1, <2>2, ContentKept, TargetType DEF Next
<1>3. \A c \in Requests, k \in Keys : OfKey(c, k) => OfKey(c, k)'
  BY OfKeyKept DEF Next
<1>4. DeployedOfKey'
  BY DeployedOfKeyStep DEF OutputsOfKey, DeployedOfKey, Next
<1>5. RowsOfKey' /\ \A i \in RowIds : resources[i] # None /\ ~(existing[o] = None /\ Asks(o, "apply"))
                      => resources'[i].key = resources[i].key
  <2>1. CASE UNCHANGED resources
    BY <1>3, <2>1 DEF OutputsOfKey, RowsOfKey, TypeInv, TypeOK, Row
  <2>2. ASSUME NEW i \in RowIds, NEW row \in Row,
               resources' = [resources EXCEPT ![i] = row], Change(o, i, row)
        PROVE  /\ RowsOfKey'
               /\ \A j \in RowIds : resources[j] # None /\ ~(existing[o] = None /\ Asks(o, "apply"))
                    => resources'[j].key = resources[j].key
    <3>1. \/ row.outputs = None
          \/ Updates(i, row) /\ row.outputs = resources[i].outputs
          \/ row.key = Key(o) /\ row.outputs = fetched[o] /\ pc[o] = "save"
      BY <1>1, <2>2, SavedRowIsOfKey DEF Change, Updates
    <3>2. row.outputs # None => row.outputs \in Requests /\ row.key \in Keys /\ OfKey(row.outputs, row.key)
      BY <1>1, <3>1 DEF OutputsOfKey, Updates, Row
    <3>3. \A j \in RowIds \ {i} : resources'[j] = resources[j]
      BY <2>2 DEF TypeInv, TypeOK
    <3>4. RowsOfKey'
      <4> SUFFICES ASSUME NEW j \in RowIds, resources'[j] # None, resources'[j].outputs # None
                   PROVE  OfKey(resources[j].outputs, resources[j].key)'
        BY DEF RowsOfKey
      <4>1. CASE j = i
        <5>1. resources'[j] = row
          BY <2>2, <4>1 DEF TypeInv, TypeOK
        <5>2. Started(row.outputs)' /\ req'[row.outputs].key = row.key
          BY <1>3, <3>2, <5>1 DEF OfKey, Key
        <5>3. QED BY <5>1, <5>2 DEF OfKey, Started, Key
      <4>2. CASE j # i
        <5> DEFINE c == resources[j].outputs
                   k == resources[j].key
        <5>1. resources'[j] = resources[j] /\ c \in Requests /\ k \in Keys /\ OfKey(c, k)
          BY <3>3, <4>2 DEF OutputsOfKey, TypeInv, TypeOK, Row
        <5>2. Started(c)' /\ req'[c].key = k
          BY <1>2, <5>1, ContentKept DEF OfKey, Key, Next
        <5>3. QED BY <5>1, <5>2 DEF OfKey, Started, Key
      <4>3. QED BY <4>1, <4>2
    <3>5. QED BY <2>2, <3>4 DEF Change, Updates, TypeInv, TypeOK
  <2>3. QED BY <2>1, <2>2, RowChange
<1>6. pc'[o] = "save" /\ fetched'[o] # None => OfKey(fetched[o], Key(o))'
  <2>1. CASE FetchOutputs(o)
    <3>1. runDir = o
      BY <1>1, <2>1 DEF FetchOutputs, Alone
    <3>2. \A c \in OutputsSeen(o) : c # None => c \in Requests /\ OfKey(c, Key(o))
      BY <1>2, <3>1 DEF OutputsSeen, StateOutputs, OutputsOfKey, TypeInv, TypeOK
    <3>3. fetched'[o] = None \/ fetched'[o] \in OutputsSeen(o) \/ pc'[o] = "done"
      BY <2>1 DEF FetchOutputs, Goto, TypeInv, TypeOK
    <3>4. Key(o)' = Key(o)
      BY <1>2 DEF Key
    <3>5. QED BY <1>2, <1>3, <3>2, <3>3, <3>4
  <2>2. pc'[o] = "save" => FetchOutputs(o)
    BY Way DEF Step
  <2>3. QED BY <2>1, <2>2
<1>7. pc'[o] \in {"fetch", "save"} => req'[o].action \in {"apply", "refresh"}
  <2>1. pc'[o] \in {"fetch", "save"} => FillRunDir(o) \/ TrackApply(o) \/ FetchOutputs(o)
    BY Way DEF Step
  <2>2. FetchOutputs(o) => req[o].action \in {"apply", "refresh"}
    BY <1>1, Way DEF OutputsOfKey
  <2>3. QED BY <1>2, <2>1, <2>2, Way DEF Asks
<1>8. Asks(o, "refresh") => resources'[req[o].row].key = Key(o)
  <2>1. Asks(o, "refresh") => req[o].row \in RowIds /\ resources[req[o].row] # None
    BY <1>2, TargetType DEF TypeInv, Grounded
  <2>2. Asks(o, "refresh") => resources[req[o].row].key = Key(o) /\ ~Asks(o, "apply")
    BY <1>1 DEF OutputsOfKey, Asks
  <2>3. QED BY <1>5, <2>1, <2>2
<1>9. pc'[o] \in {"track", "fetch", "save"} /\ Asks(o, "apply") /\ existing'[o] # None =>
        resources'[existing'[o]].key = Key(o)
  <2>1. CASE LookupRow(o)
    BY <2>1 DEF LookupRow, Lookup, Matches, Asks, TypeInv, TypeOK
  <2>2. CASE existing' = existing /\ pc'[o] \in {"track", "fetch", "save"} /\ Asks(o, "apply")
             /\ existing[o] # None /\ ~LookupRow(o)
    <3>1. pc[o] \in {"track", "fetch"} \/ FillRunDir(o)
      BY <2>2, Way DEF Step
    <3>2. ~FillRunDir(o)
      BY <2>2, Way DEF Asks
    <3>3. resources[existing[o]].key = Key(o)
      BY <1>1, <2>2, <3>1, <3>2 DEF OutputsOfKey
    <3>4. existing[o] \in RowIds /\ resources[existing[o]] # None
      BY <1>2, <2>2, TargetType
    <3>5. QED BY <1>5, <2>2, <3>3, <3>4
  <2>3. existing' = existing \/ LookupRow(o)
    BY StepLeaves
  <2>4. QED BY <2>1, <2>2, <2>3
<1>10. (\A p \in InFlight : pc[p] = "save" /\ fetched[p] # None => OfKey(fetched[p], Key(p)))'
  BY <1>1, <1>6
<1>11. (\A p \in InFlight : pc[p] \in {"fetch", "save"} => req[p].action \in {"apply", "refresh"})'
  BY <1>1, <1>7
<1>12. (\A p \in InFlight : Asks(p, "refresh") => resources[req[p].row].key = Key(p))'
  BY <1>1, <1>2, <1>8 DEF Asks, Key
<1>13. (\A p \in InFlight :
          pc[p] \in {"track", "fetch", "save"} /\ Asks(p, "apply") /\ existing[p] # None =>
            resources[existing[p]].key = Key(p))'
  BY <1>1, <1>2, <1>9 DEF Asks, Key
<1>14. QED
  BY <1>4, <1>5, <1>10, <1>11, <1>12, <1>13 DEF OutputsOfKey, DeployedOfKey, RowsOfKey

\* The steps that start a request, or are those of nobody's.
LEMMA OutputsStep ==
  ASSUME MaxInFlight <= 1, TypeInv, Alone, LogsAreOwn, OutputsOfKey, [Next]_vars
  PROVE  OutputsOfKey'
<1>1. Alone' /\ DeployedOfKey'
  BY AloneStep, DeployedOfKeyStep DEF OutputsOfKey, DeployedOfKey
<1>2. \A c \in Requests, k \in Keys : OfKey(c, k) => OfKey(c, k)'
  BY OfKeyKept
<1>3. ASSUME UNCHANGED resources PROVE RowsOfKey'
  BY <1>2, <1>3 DEF OutputsOfKey, RowsOfKey, TypeInv, TypeOK, Row
<1>4. ASSUME RowsOfKey', InFlight' = {} PROVE OutputsOfKey'
  BY <1>1, <1>4 DEF OutputsOfKey, DeployedOfKey, RowsOfKey
<1>5. ASSUME NEW o \in Requests, Submit(o) PROVE OutputsOfKey'
  <2>1. InFlight = {}
    BY <1>5, NobodyInFlight DEF Submit
  <2>2. /\ pc' = [pc EXCEPT ![o] = "clear"] /\ UNCHANGED resources
        /\ \E q \in Request : MayAsk(q) /\ req' = [req EXCEPT ![o] = q]
    BY <1>5 DEF Submit, Goto
  <2>3. \A p \in InFlight' : p = o
    BY <2>1, <2>2 DEF InFlight, TypeInv, TypeOK
  <2>4. pc'[o] = "clear" /\ \E q \in Request : MayAsk(q) /\ req'[o] = q
    BY <2>2 DEF TypeInv, TypeOK
  <2>5. req'[o].action = "refresh" => resources'[req'[o].row].key = req'[o].key
    BY <2>2, <2>4 DEF MayAsk
  <2>6. QED BY <1>1, <1>3, <2>2, <2>3, <2>4, <2>5 DEF OutputsOfKey, DeployedOfKey, RowsOfKey, Asks, Key
<1>6. ASSUME NEW o \in Requests, DetachedEnds(o) PROVE OutputsOfKey'
  <2>1. /\ pc' = [pc EXCEPT ![o] = "lost"] /\ pc[o] = "detached"
        /\ UNCHANGED <<req, existing, fetched, resources>>
    BY <1>6 DEF DetachedEnds, Goto
  <2>2. /\ InFlight' = InFlight
        /\ \A p \in InFlight : pc'[p] = pc[p] /\ Started(p) /\ p \in Requests
    BY <2>1 DEF InFlight, Started, TypeInv, TypeOK
  <2>3. \A p \in InFlight : Key(p) \in Keys
    BY <2>2, TargetType
  <2>4. RowsOfKey'
    BY <1>3, <2>1
  <2>5. \A p \in InFlight : pc[p] = "save" /\ fetched[p] # None => OfKey(fetched[p], Key(p))'
    BY <1>2, <2>1, <2>2, <2>3 DEF OutputsOfKey, TypeInv, TypeOK, OfKey, Key
  <2>6. QED BY <1>1, <2>1, <2>2, <2>4, <2>5 DEF OutputsOfKey, DeployedOfKey, RowsOfKey, Asks, Key
<1>7. CASE Crash
  <2>1. \A o \in Requests : pc'[o] = IF pc[o] = "running" THEN "detached"
                                     ELSE IF o \in InFlight THEN "lost" ELSE pc[o]
    BY <1>7 DEF Crash
  <2>2. InFlight' = {}
    BY <2>1 DEF InFlight
  <2>3. UNCHANGED resources
    BY <1>7 DEF Crash
  <2>4. QED BY <1>3, <1>4, <2>2, <2>3
<1>8. CASE MarkInterrupted \/ MarkFails \/ Serve
  <2>1. UNCHANGED <<pc, resources>> /\ server # "up"
    BY <1>8 DEF MarkInterrupted, MarkFails, Serve, volatile
  <2>2. InFlight' = {}
    BY <2>1 DEF Alone, InFlight
  <2>3. QED BY <1>3, <1>4, <2>1, <2>2
<1>9. ASSUME NEW r \in Requests, Recover(r) PROVE OutputsOfKey'
  <2>1. UNCHANGED pc /\ server # "up"
    BY <1>9 DEF Recover, volatile
  <2>2. InFlight' = {}
    BY <2>1 DEF Alone, InFlight
  <2>3. ASSUME NEW i \in RowIds, NEW row \in Row, row.outputs = None,
               resources' = [resources EXCEPT ![i] = row]
        PROVE  RowsOfKey'
    BY <1>2, <2>3 DEF OutputsOfKey, RowsOfKey, TypeInv, TypeOK, Row
  <2>4. RowsOfKey'
    BY <1>3, <1>9, <2>3, RowRecovered
  <2>5. QED BY <1>4, <2>2, <2>4
<1>10. CASE UNCHANGED vars
  BY <1>10 DEF vars, volatile, cloud, OutputsOfKey, OfKey, Started, Key, Asks, InFlight
<1>11. QED
  BY <1>1, <1>5, <1>6, <1>7, <1>8, <1>9, <1>10, OutputsByStep DEF Next, StartUp

LEMMA InTurnInvariant ==
  ASSUME MaxInFlight <= 1
  PROVE  Spec => [](Alone /\ LogsAreOwn /\ OutputsOfKey)
<1>1. Init => Alone /\ LogsAreOwn /\ OutputsOfKey
  BY DEF Init, Alone, LogsAreOwn, OutputsOfKey, InFlight
<1>2. TypeInv /\ Alone /\ LogsAreOwn /\ OutputsOfKey /\ [Next]_vars
        => Alone' /\ LogsAreOwn' /\ OutputsOfKey'
  BY AloneStep, OutputsStep
<1>3. QED BY <1>1, <1>2, TypeInvariant, PTL DEF Spec

\* Requests that do not overlap are kept apart, in both execution modes and
\* whatever crashes, lost statements and lost verdicts there are: each runs
\* its own configuration, its record keeps its own logs, and the outputs on a
\* row are of the row's key.
THEOREM RequestsAreKeptApart ==
  ASSUME MaxInFlight <= 1
  PROVE  Spec => []KeptApart
<1>1. Alone /\ LogsAreOwn /\ OutputsOfKey => KeptApart
  BY DEF KeptApart, RunsItsOwnConfig, OutputsAreOfTheRow, Alone, OutputsOfKey, Live, OfKey
<1>2. QED BY <1>1, InTurnInvariant, PTL

-----------------------------------------------------------------------------
(* One row for a key                                                       *)

Unique ==
  \A i, j \in RowIds : Live(i) /\ Live(j) /\ resources[i].key = resources[j].key => i = j

\* An apply that has looked its row up knows whether its key has one.
OneRow ==
  /\ Unique
  /\ \A o \in InFlight : pc[o] = "track" /\ Asks(o, "apply") =>
       IF existing[o] = None THEN Matches(Key(o)) = {} ELSE existing[o] \in Matches(Key(o))

\* A write keeps the rows unique that cancels a row, keeps one, or is made
\* under a key without one.
LEMMA UniqueKept ==
  ASSUME TypeInv, Unique, NEW i \in RowIds, NEW row \in Row,
         resources' = [resources EXCEPT ![i] = row],
         \/ row.status = "destroyed"
         \/ Live(i) /\ row.key = resources[i].key
         \/ Matches(row.key) = {}
  PROVE  Unique'
<1>1. \A j \in RowIds : resources'[j] = IF j = i THEN row ELSE resources[j]
  BY DEF TypeInv, TypeOK
<1>2. row # None
  BY NoneAssumption
<1>3. \A j \in RowIds \ {i} : Live(j) /\ row.status # "destroyed" => resources[j].key # row.key
  BY DEF Unique, Matches
<1>4. QED BY <1>1, <1>2, <1>3 DEF Unique, Live

LEMMA OneRowByStep ==
  ASSUME MaxInFlight <= 1, "lostread" \notin Faults, TypeInv, Alone, OneRow,
         NEW o \in Requests, Step(o)
  PROVE  OneRow'
<1>1. o \in InFlight /\ req' = req /\ \A p \in InFlight' : p = o
  <2>1. o \in InFlight
    BY StepIsInFlight
  <2>2. QED BY <2>1, StepLeaves DEF Alone, InFlight
<1>2. Unique'
  <2>1. ASSUME NEW i \in RowIds, NEW row \in Row,
               resources' = [resources EXCEPT ![i] = row], Change(o, i, row)
        PROVE  Unique'
    <3>1. \/ row.status = "destroyed"
          \/ Live(i) /\ row.key = resources[i].key
          \/ Matches(row.key) = {}
      <4>1. CASE /\ pc[o] = "track" /\ Asks(o, "apply") /\ existing[o] = None
                 /\ row.key = Key(o)
        BY <1>1, <4>1 DEF OneRow
      <4>2. CASE pc[o] = "track" /\ Asks(o, "apply") /\ existing[o] = i /\ Updates(i, row)
        <5>1. i \in Matches(Key(o))
          BY <1>1, <4>2, NoneAssumption DEF OneRow
        <5>2. QED BY <4>2, <5>1 DEF Matches, Updates
      <4>3. CASE row.status = "destroyed"
        BY <4>3
      <4>4. CASE Updates(i, row) /\ row.status = resources[i].status
        BY <4>4 DEF Updates, Live
      <4>5. QED BY <2>1, <4>1, <4>2, <4>3, <4>4 DEF Change
    <3>2. QED BY <2>1, <3>1, UniqueKept DEF OneRow
  <2>2. CASE UNCHANGED resources
    BY <2>2 DEF OneRow, Unique, Live
  <2>3. QED BY <2>1, <2>2, RowChange
<1>3. pc'[o] = "track" /\ Asks(o, "apply") =>
        (IF existing[o] = None THEN Matches(Key(o)) = {} ELSE existing[o] \in Matches(Key(o)))'
  <2>1. pc'[o] = "track" => LookupRow(o)
    BY Way DEF Step
  <2>2. ASSUME LookupRow(o), Asks(o, "apply")
        PROVE  (IF existing[o] = None THEN Matches(Key(o)) = {} ELSE existing[o] \in Matches(Key(o)))'
    <3>1. PICK i \in Lookup(Key(o)) : existing' = [existing EXCEPT ![o] = i]
      BY <2>2 DEF LookupRow, Fault, Asks
    <3>2. existing'[o] = i
      BY <3>1 DEF TypeInv, TypeOK
    <3>3. Matches(Key(o))' = Matches(Key(o))
      BY <1>1, <2>2 DEF LookupRow, Matches, Live, Key
    <3>4. i = None => Matches(Key(o)) = {}
      BY <3>1, NoneAssumption DEF Lookup, Matches
    <3>5. i # None => i \in Matches(Key(o))
      BY <3>1 DEF Lookup
    <3>6. QED BY <3>2, <3>3, <3>4, <3>5
  <2>3. QED BY <2>1, <2>2
<1>4. QED BY <1>1, <1>2, <1>3 DEF OneRow, Asks

LEMMA OneRowStep ==
  ASSUME MaxInFlight <= 1, "lostread" \notin Faults, TypeInv, Alone, OneRow, [Next]_vars
  PROVE  OneRow'
<1>1. ASSUME UNCHANGED resources, \A p \in InFlight' : pc'[p] = "clear"
      PROVE  OneRow'
  BY <1>1 DEF OneRow, Unique, Live
<1>2. ASSUME NEW o \in Requests, Submit(o) PROVE OneRow'
  <2>1. InFlight = {}
    BY <1>2, NobodyInFlight DEF Submit
  <2>2. pc' = [pc EXCEPT ![o] = "clear"] /\ UNCHANGED resources
    BY <1>2 DEF Submit, Goto
  <2>3. QED BY <1>1, <2>1, <2>2 DEF InFlight, TypeInv, TypeOK
<1>3. ASSUME NEW o \in Requests, DetachedEnds(o) PROVE OneRow'
  BY <1>3 DEF DetachedEnds, Goto, InFlight, OneRow, Unique, Matches, Live, Asks, Key, TypeInv, TypeOK
<1>4. CASE Crash
  <2>1. \A o \in Requests : pc'[o] = IF pc[o] = "running" THEN "detached"
                                     ELSE IF o \in InFlight THEN "lost" ELSE pc[o]
    BY <1>4 DEF Crash
  <2>2. InFlight' = {}
    BY <2>1 DEF InFlight
  <2>3. QED BY <1>1, <1>4, <2>2 DEF Crash
<1>5. CASE MarkInterrupted \/ MarkFails \/ Serve
  <2>1. UNCHANGED <<pc, resources>> /\ server # "up"
    BY <1>5 DEF MarkInterrupted, MarkFails, Serve, volatile
  <2>2. QED BY <1>1, <2>1 DEF Alone, InFlight
<1>6. ASSUME NEW r \in Requests, Recover(r) PROVE OneRow'
  <2>1. UNCHANGED pc /\ server # "up"
    BY <1>6 DEF Recover, volatile
  <2>2. InFlight' = {}
    BY <2>1 DEF Alone, InFlight
  <2>3. Unique'
    <3>1. CASE UNCHANGED resources
      BY <3>1 DEF OneRow, Unique, Live
    <3>2. QED BY <1>6, <3>1, RowRecovered, UniqueKept DEF OneRow
  <2>4. QED BY <2>2, <2>3 DEF OneRow
<1>7. CASE UNCHANGED vars
  BY <1>7 DEF vars, volatile, OneRow, Unique, Matches, Live, Asks, Key, InFlight
<1>8. QED
  BY <1>2, <1>3, <1>4, <1>5, <1>6, <1>7, OneRowByStep DEF Next, StartUp

LEMMA OneRowInvariant ==
  ASSUME MaxInFlight <= 1, "lostread" \notin Faults
  PROVE  Spec => []OneRow
<1>1. Init => OneRow
  BY DEF Init, OneRow, Unique, Live, InFlight
<1>2. TypeInv /\ Alone /\ OneRow /\ [Next]_vars => OneRow'
  BY OneRowStep
<1>3. QED BY <1>1, <1>2, TypeInvariant, InTurnInvariant, PTL DEF Spec

\* Requests that do not overlap never leave two rows for a key, over crashes
\* and start-ups too, unless a look-up fails: its error counts as "no row".
THEOREM KeysHaveOneRow ==
  ASSUME MaxInFlight <= 1, "lostread" \notin Faults
  PROVE  Spec => []OneRowPerKey
<1>1. Unique => OneRowPerKey
  <2> SUFFICES ASSUME Unique, NEW k \in Keys PROVE Cardinality(Matches(k)) <= 1
    BY DEF OneRowPerKey
  <2>1. CASE Matches(k) = {}
    BY <2>1, FS_EmptySet
  <2>2. ASSUME NEW i \in Matches(k) PROVE Cardinality(Matches(k)) <= 1
    <3>1. Matches(k) = {i}
      BY <2>2 DEF Unique, Matches
    <3>2. Cardinality(Matches(k)) = 1
      BY <3>1, FS_Singleton
    <3>3. QED BY <3>2
  <2>3. QED BY <2>1, <2>2
<1>2. QED BY <1>1, OneRowInvariant, PTL DEF OneRow

-----------------------------------------------------------------------------
(* Rows and cloud agree                                                    *)

\* No crash, no statement that fails and no verdict that is lost; states are
\* remote, names are never made up, and clients name rows as they are.
Undisturbed ==
  /\ MaxInFlight <= 1
  /\ Faults \subseteq {"collision"}
  /\ RemoteState /\ UnnamedKeys = {} /\ ~EditRenames /\ ~StaleRows

Tracked(k)  == infra[k] # None => Matches(k) # {}
Deployed(k) == \A i \in Matches(k) : resources[i].status = "active" => infra[k] # None
Agreed(k)   == Tracked(k) /\ Deployed(k)

\* The container of an apply or a destroy has ended, or failed to start, and
\* the resources table has still to learn of it.
Working(o) ==
  /\ pc[o] \in {"settle", "persist", "lookup", "track", "sweep"}
  /\ req[o].action \in {"apply", "destroy"}
  /\ outcome[o] # "nostart"

\* What the container of o, which works on k, has left.
ApplyTold(o, k) ==
  /\ outcome[o] \in {"success", "error"}
  /\ pc[o] # "sweep"
  /\ Deployed(k)
  /\ outcome[o] = "success" => infra[k] # None

DestroyTold(o, k) ==
  /\ outcome[o] = "success" => infra[k] = None
  /\ outcome[o] # "success" => Agreed(k) /\ pc[o] \in {"settle", "persist"}
  /\ pc[o] = "track" => IF existing[o] = None THEN Matches(k) = {} ELSE existing[o] \in Matches(k)
  /\ pc[o] = "sweep" => Matches(k) = {}

Told(o, k) ==
  /\ Asks(o, "apply") => ApplyTold(o, k)
  /\ Asks(o, "destroy") => DestroyTold(o, k)

Agree ==
  /\ server = "up" /\ \A o \in Requests : pc[o] # "detached"
  /\ \A o \in Requests : Started(o) /\ req[o].action \in {"apply", "destroy"} => req[o].remote
  /\ \A o \in Requests : resources[<<o, 0>>] # None => pc[o] \in {"fetch", "save", "done"}
  /\ \A k \in Keys : infra[k] # None => tfstate[k]
  /\ \A k \in Keys : Agreed(k) \/ \E o \in InFlight : Working(o) /\ Key(o) = k
  /\ \A o \in InFlight, k \in Keys : Working(o) /\ Key(o) = k => Told(o, k)
  /\ \A o \in InFlight, k \in Keys :
       Asks(o, "destroy") /\ req[o].row # None /\ pc[o] # "sweep" /\ Key(o) = k =>
         req[o].row \in Matches(k)
  /\ \A o \in InFlight : pc[o] \in {"lookup", "track", "sweep"} => Working(o)
  /\ \A o \in InFlight : pc[o] = "sweep" => Asks(o, "destroy")

\* A write leaves alone the keys that neither the row nor its update has.
LEMMA OtherKeys ==
  ASSUME TypeInv, NEW i \in RowIds, NEW row \in Row,
         resources' = [resources EXCEPT ![i] = row],
         NEW k \in Keys, row.key # k, resources[i] # None => resources[i].key # k
  PROVE  /\ Matches(k)' = Matches(k)
         /\ \A j \in Matches(k) : resources'[j] = resources[j]
<1>1. \A j \in RowIds : resources'[j] = IF j = i THEN row ELSE resources[j]
  BY DEF TypeInv, TypeOK
<1>2. \A j \in RowIds : j \in Matches(k)' <=> j \in Matches(k)
  BY <1>1 DEF Matches, Live
<1>3. Matches(k)' \subseteq RowIds /\ Matches(k) \subseteq RowIds
  BY DEF Matches
<1>4. i \notin Matches(k)
  BY DEF Matches, Live
<1>5. QED BY <1>1, <1>2, <1>3, <1>4

\* What the rows tell of a key, and what agrees on it, depend on the rows of
\* the key alone.
LEMMA SameAgreement ==
  ASSUME NEW k \in Keys, Matches(k)' = Matches(k), infra'[k] = infra[k],
         \A j \in Matches(k) : resources'[j].status = resources[j].status
  PROVE  /\ Deployed(k)' <=> Deployed(k)
         /\ Agreed(k)' <=> Agreed(k)
<1>1. Deployed(k)' <=> Deployed(k)
  BY DEF Deployed
<1>2. Tracked(k)' <=> Tracked(k)
  BY DEF Tracked
<1>3. QED BY <1>1, <1>2 DEF Agreed

\* What a container does to the key of its request when nothing disturbs it.
LEMMA ContainerTold ==
  ASSUME TypeInv, Alone, Agree, Undisturbed, NEW o \in InFlight, ContainerEnds(o)
  PROVE  /\ \A k \in Keys \ {Key(o)} : infra'[k] = infra[k] /\ tfstate'[k] = tfstate[k]
         /\ infra'[Key(o)] # None => tfstate'[Key(o)]
         /\ outcome'[o] \in {"success", "error"}
         /\ Asks(o, "apply") => infra'[Key(o)] # None \/ (outcome'[o] = "error" /\ UNCHANGED infra)
         /\ Asks(o, "destroy") => IF outcome'[o] = "success" THEN infra'[Key(o)] = None
                                                            ELSE UNCHANGED infra
         /\ req[o].action \notin {"apply", "destroy"} => UNCHANGED infra
<1>1. o \in Requests /\ pc[o] = "running" /\ ran[o] = o /\ o # None /\ Started(o) /\ Key(o) \in Keys
  BY NoneAssumption, TargetType DEF InFlight, ContainerEnds, Alone, Started
<1>2. req[o].action \in {"apply", "destroy"} => req[o].remote
  BY <1>1 DEF Agree
<1>3. PICK verdict \in {"success", "error"} :
        Terraform(o, verdict) /\ outcome' = [outcome EXCEPT ![o] = verdict]
  BY DEF ContainerEnds, Undisturbed, Fault
<1>4. outcome'[o] = verdict
  BY <1>1, <1>3 DEF TypeInv, TypeOK
<1>5. CASE Asks(o, "apply") /\ Deploys(o)
  BY <1>1, <1>2, <1>4, <1>5 DEF Deploys, Asks, TypeInv, TypeOK
<1>6. CASE Asks(o, "destroy") /\ verdict = "success" /\ Removes(o)
  <2>1. infra[Key(o)] # None => tfstate[Key(o)]
    BY <1>1 DEF Agree
  <2>2. /\ infra' = [infra EXCEPT ![Key(o)] = IF tfstate[Key(o)] THEN None ELSE @]
        /\ tfstate' = [tfstate EXCEPT ![Key(o)] = FALSE]
    BY <1>1, <1>2, <1>6 DEF Removes, Asks, TypeInv, TypeOK
  <2>3. infra'[Key(o)] = None
    BY <1>1, <2>1, <2>2 DEF TypeInv, TypeOK
  <2>4. QED BY <1>1, <1>4, <1>6, <2>2, <2>3 DEF Asks, TypeInv, TypeOK
<1>7. CASE UNCHANGED cloud /\ ~(Asks(o, "destroy") /\ verdict = "success") /\ ~(Asks(o, "apply") /\ verdict = "success")
  BY <1>1, <1>4, <1>7 DEF cloud, Agree, Asks
<1>8. QED
  BY <1>1, <1>3, <1>5, <1>6, <1>7 DEF Terraform, Asks

\* An update that keeps the key and the status of a row shows nowhere.
LEMMA SameRows ==
  ASSUME TypeInv, NEW i \in RowIds, NEW row \in Row,
         resources' = [resources EXCEPT ![i] = row],
         Updates(i, row), row.status = resources[i].status,
         NEW k \in Keys
  PROVE  /\ Matches(k)' = Matches(k)
         /\ \A j \in Matches(k) : resources'[j].status = resources[j].status
<1>1. \A j \in RowIds : resources'[j] = IF j = i THEN row ELSE resources[j]
  BY DEF TypeInv, TypeOK
<1>2. row # None /\ resources[i] # None /\ row.key = resources[i].key
  BY NoneAssumption DEF Updates
<1>3. \A j \in RowIds : j \in Matches(k)' <=> j \in Matches(k)
  BY <1>1, <1>2 DEF Matches, Live
<1>4. Matches(k)' \subseteq RowIds /\ Matches(k) \subseteq RowIds
  BY DEF Matches
<1>5. QED BY <1>1, <1>3, <1>4

\* What the write of a request does to the rows when nothing disturbs it.
LEMMA WriteTold ==
  ASSUME TypeInv, OneRow, Agree, Undisturbed, NEW o \in InFlight, Step(o)
  PROVE  /\ \A k \in Keys : k # Key(o) \/ pc[o] # "track" =>
              /\ Matches(k)' = Matches(k)
              /\ \A j \in Matches(k) : resources'[j].status = resources[j].status
         /\ \A p \in Requests : resources'[<<p, 0>>] # None =>
              resources[<<p, 0>>] # None \/ (p = o /\ pc[o] = "track" /\ Asks(o, "apply"))
<1>1. o \in Requests /\ Key(o) \in Keys /\ \A p \in Requests : <<p, 0>> \in RowIds
  <2>1. o \in Requests /\ Started(o)
    BY DEF InFlight, Started
  <2>2. 0 \in 0 .. MaxFaults
    BY ConstantsAssumption
  <2>3. QED BY <2>1, <2>2, TargetType DEF RowIds
<1>2. ASSUME UNCHANGED resources
      PROVE  \A k \in Keys :
               /\ Matches(k)' = Matches(k)
               /\ \A j \in Matches(k) : resources'[j].status = resources[j].status
  BY <1>2 DEF Matches, Live
<1>3. ASSUME NEW i \in RowIds, NEW row \in Row,
             resources' = [resources EXCEPT ![i] = row], Change(o, i, row)
      PROVE  /\ \A k \in Keys : k # Key(o) \/ pc[o] # "track" =>
                  /\ Matches(k)' = Matches(k)
                  /\ \A j \in Matches(k) : resources'[j].status = resources[j].status
             /\ resources[i] = None => i = <<o, 0>> /\ pc[o] = "track" /\ Asks(o, "apply")
  <2>1. CASE /\ pc[o] = "track" /\ Asks(o, "apply") /\ existing[o] = None
             /\ i = <<o, 0>> /\ row.key = Key(o)
    <3>1. resources[i] = None
      BY <1>1, <2>1 DEF Agree
    <3>2. QED BY <1>3, <2>1, <3>1, OtherKeys
  <2>2. CASE /\ pc[o] = "track" /\ Updates(i, row)
             /\ \/ Asks(o, "apply") /\ existing[o] = i
                \/ Asks(o, "destroy") /\ i = existing[o]
    <3>1. Working(o) /\ i # None
      BY <2>2, NoneAssumption DEF Agree
    <3>2. i \in Matches(Key(o))
      <4>1. Told(o, Key(o))
        BY <1>1, <3>1 DEF Agree
      <4>2. QED BY <2>2, <3>1, <4>1 DEF OneRow, Told, DestroyTold
    <3>3. row.key = Key(o) /\ resources[i].key = Key(o) /\ resources[i] # None
      BY <2>2, <3>2 DEF Matches, Updates
    <3>4. QED BY <1>3, <2>2, <3>3, OtherKeys
  <2>3. CASE pc[o] = "sweep" /\ i \in SweepMatches(o)
    <3>1. Matches(Key(o)) = {}
      <4>1. Told(o, Key(o)) /\ Asks(o, "destroy")
        BY <1>1, <2>3 DEF Agree
      <4>2. QED BY <2>3, <4>1 DEF Told, DestroyTold
    <3>2. resources[i] # None /\ resources[i].status # "destroyed" /\ resources[i].key = Key(o)
      <4>1. ~({resources[i].key, Key(o)} \subseteq UnnamedKeys)
        BY DEF Undisturbed
      <4>2. resources[i] # None /\ resources[i].key = Key(o)
              /\ resources[i].status \in {"active", "unknown", "failed"}
        BY <2>3, <4>1 DEF SweepMatches
      <4>3. QED BY <4>2
    <3>3. i \in Matches(Key(o))
      BY <3>2 DEF Matches, Live
    <3>4. QED BY <3>1, <3>3
  <2>4. CASE pc[o] = "save" /\ Updates(i, row) /\ row.status = resources[i].status
    <3>1. resources[i] # None
      BY <2>4 DEF Updates
    <3>2. \A k \in Keys :
            /\ Matches(k)' = Matches(k)
            /\ \A j \in Matches(k) : resources'[j].status = resources[j].status
      BY <1>3, <2>4, SameRows
    <3>3. QED BY <1>1, <3>1, <3>2
  <2>5. QED BY <1>3, <2>1, <2>2, <2>3, <2>4 DEF Change
<1>4. ASSUME NEW i \in RowIds, NEW row \in Row,
             resources' = [resources EXCEPT ![i] = row], Change(o, i, row)
      PROVE  \A p \in Requests : resources'[<<p, 0>>] # None =>
               resources[<<p, 0>>] # None \/ (p = o /\ pc[o] = "track" /\ Asks(o, "apply"))
  <2>1. resources[i] = None => i = <<o, 0>> /\ pc[o] = "track" /\ Asks(o, "apply")
    BY <1>3, <1>4
  <2>2. \A j \in RowIds : j # i => resources'[j] = resources[j]
    BY <1>4 DEF TypeInv, TypeOK
  <2>3. QED BY <1>1, <2>1, <2>2
<1>5. CASE UNCHANGED resources
  <2>1. \A k \in Keys :
          /\ Matches(k)' = Matches(k)
          /\ \A j \in Matches(k) : resources'[j].status = resources[j].status
    BY <1>2, <1>5
  <2>2. \A p \in Requests : resources'[<<p, 0>>] = resources[<<p, 0>>]
    BY <1>5
  <2>3. QED BY <1>1, <2>1, <2>2
<1>6. ASSUME NEW i \in RowIds, NEW row \in Row,
             resources' = [resources EXCEPT ![i] = row], Change(o, i, row)
      PROVE  \A k \in Keys : k # Key(o) \/ pc[o] # "track" =>
               /\ Matches(k)' = Matches(k)
               /\ \A j \in Matches(k) : resources'[j].status = resources[j].status
  BY <1>3, <1>6
<1>7. QED BY <1>1, <1>4, <1>5, <1>6, RowChange

\* A request that has said what became of its key has the key agree.
LEMMA TrackTold ==
  ASSUME TypeInv, OneRow, Agree, Undisturbed, NEW o \in InFlight, NEW k \in Keys, k = Key(o),
         TrackApply(o) \/ TrackFailure(o) \/ TrackDestroy(o)
  PROVE  /\ Agreed(k)'
         /\ existing[o] = None /\ Asks(o, "destroy") => Matches(k)' = {}
<1>1. /\ o \in Requests /\ Key(o) \in Keys /\ <<o, 0>> \in RowIds
      /\ pc[o] = "track" /\ Started(o)
      /\ UNCHANGED <<req, infra>>
      /\ existing[o] # None => existing[o] \in RowIds /\ resources[existing[o]] \in Row
  BY TargetType DEF InFlight, Started, TrackApply, TrackFailure, TrackDestroy, cloud, TypeInv, TypeOK
<1>2. Working(o) /\ Key(o)' = Key(o)
  BY <1>1 DEF Agree, Key
<1>3. ASSUME NEW i \in RowIds, NEW row, WriteRow(i, row)
      PROVE  \A j \in RowIds : resources'[j] = IF j = i THEN row ELSE resources[j]
  BY <1>3 DEF WriteRow, Fault, Undisturbed, TypeInv, TypeOK
<1>4. CASE TrackApply(o)
  <2>1. infra[k] # None /\ Asks(o, "apply")
    BY <1>2, <1>4 DEF TrackApply, Agree, Told, ApplyTold
  <2>2. PICK i \in RowIds, row \in Row :
          WriteRow(i, row) /\ row.key = Key(o) /\ row.status = "active"
    <3>1. CASE existing[o] # None
      <4> DEFINE row == [resources[existing[o]] EXCEPT !.status = "active", !.by = o]
      <4>1. existing[o] \in Matches(k)
        BY <1>1, <2>1, <3>1 DEF OneRow
      <4>2. resources[existing[o]].key = Key(o)
        BY <4>1 DEF Matches
      <4>3. row \in Row /\ row.status = "active" /\ row.key = resources[existing[o]].key
        BY <1>1, <3>1 DEF Row
      <4>4. WriteRow(existing[o], row)
        BY <1>4, <3>1 DEF TrackApply
      <4> HIDE DEF row
      <4>5. QED BY <1>1, <3>1, <4>2, <4>3, <4>4
    <3>2. CASE existing[o] = None
      BY <1>1, <1>4, <3>2, TargetType DEF TrackApply, NewRow
    <3>3. QED BY <3>1, <3>2
  <2>3. resources'[i] = row /\ row # None
    BY <1>3, <2>2, NoneAssumption
  <2>4. i \in Matches(k)'
    BY <1>2, <2>2, <2>3 DEF Matches, Live
  <2>5. QED BY <1>1, <1>2, <2>1, <2>4 DEF Agreed, Tracked, Deployed, Asks
<1>5. CASE TrackFailure(o)
  <2>1. Deployed(k) /\ Asks(o, "apply")
    BY <1>2, <1>5 DEF TrackFailure, Agree, Told, ApplyTold
  <2>2. CASE existing[o] = None
    <3>1. Matches(k) = {}
      BY <1>1, <2>1, <2>2 DEF OneRow
    <3>2. WriteRow(<<o, 0>>, NewRow(o, "failed"))
      BY <1>5, <2>2 DEF TrackFailure
    <3>3. \A j \in RowIds : resources'[j] = IF j = <<o, 0>> THEN NewRow(o, "failed") ELSE resources[j]
      BY <1>1, <1>3, <3>2
    <3>4. NewRow(o, "failed").status = "failed" /\ NewRow(o, "failed").key = Key(o)
            /\ NewRow(o, "failed") # None
      BY <1>1, TargetType, NoneAssumption DEF NewRow
    <3>5. <<o, 0>> \in Matches(k)'
      BY <1>1, <1>2, <3>3, <3>4 DEF Matches, Live
    <3>6. \A j \in Matches(k)' : j = <<o, 0>>
      BY <1>2, <3>1, <3>3 DEF Matches, Live
    <3>7. \A j \in Matches(k)' : resources'[j].status = "failed"
      BY <1>1, <3>3, <3>4, <3>6
    <3>8. QED BY <2>1, <3>5, <3>7 DEF Agreed, Tracked, Deployed, Asks
  <2>3. CASE existing[o] # None
    <3>1. existing[o] \in Matches(k)
      BY <1>1, <2>1, <2>3 DEF OneRow
    <3>2. UNCHANGED resources
      BY <1>5, <2>3 DEF TrackFailure
    <3>3. Matches(k)' = Matches(k)
      BY <1>2, <3>2 DEF Matches, Live
    <3>4. QED BY <1>1, <1>2, <2>1, <3>1, <3>2, <3>3 DEF Agreed, Tracked, Deployed, Asks
  <2>4. QED BY <2>2, <2>3
<1>6. CASE TrackDestroy(o)
  <2>1. infra[k] = None /\ Asks(o, "destroy")
    BY <1>1, <1>2, <1>6 DEF TrackDestroy, Agree, Told, DestroyTold
  <2>2. Matches(k)' = {}
    <3>1. CASE existing[o] = None
      <4>1. Matches(k) = {}
        BY <1>1, <1>2, <2>1, <3>1 DEF Agree, Told, DestroyTold
      <4>2. UNCHANGED resources
        BY <1>6, <3>1 DEF TrackDestroy
      <4>3. QED BY <1>2, <4>1, <4>2 DEF Matches, Live
    <3>2. CASE existing[o] # None
      <4> DEFINE row == [resources[existing[o]] EXCEPT !.status = "destroyed"]
      <4>1. existing[o] \in Matches(k)
        BY <1>1, <1>2, <2>1, <3>2 DEF Agree, Told, DestroyTold
      <4>2. \A j \in Matches(k) : j = existing[o]
        BY <4>1 DEF OneRow, Unique, Matches
      <4>3. WriteRow(existing[o], row)
        BY <1>6, <3>2 DEF TrackDestroy
      <4>4. row.status = "destroyed"
        BY <1>1, <3>2 DEF Row
      <4> HIDE DEF row
      <4>5. \A j \in RowIds : resources'[j] = IF j = existing[o] THEN row ELSE resources[j]
        BY <1>1, <1>3, <3>2, <4>3
      <4>6. QED BY <1>2, <4>2, <4>4, <4>5 DEF Matches, Live
    <3>3. QED BY <3>1, <3>2
  <2>3. QED BY <1>1, <1>2, <2>1, <2>2 DEF Agreed, Tracked, Deployed
<1>7. QED BY <1>4, <1>5, <1>6

\* After each step of a request its key agrees, or its container has told what
\* became of the key.
LEMMA KeyTold ==
  ASSUME TypeInv, Alone, OneRow, Agree, Undisturbed, NEW o \in InFlight, Step(o),
         NEW k \in Keys, k = Key(o)
  PROVE  /\ Agreed(k)' \/ Working(o)'
         /\ Working(o)' => Told(o, k)'
<1>1. /\ o \in Requests /\ req' = req /\ Key(o)' = k
      /\ \A a \in Actions : Asks(o, a)' <=> Asks(o, a)
  BY StepLeaves DEF InFlight, Key, Asks
<1>2. pc[o] # "track" =>
        Matches(k)' = Matches(k) /\ \A j \in Matches(k) : resources'[j].status = resources[j].status
  BY WriteTold
<1>3. pc[o] # "track" /\ infra'[k] = infra[k] =>
        (Deployed(k)' <=> Deployed(k)) /\ (Agreed(k)' <=> Agreed(k))
  BY <1>2, SameAgreement
<1>4. ~Working(o) => Agreed(k)
  BY DEF Agree, Alone
<1>5. CASE ClearRunDir(o) \/ FillRunDir(o) \/ Remember(o) \/ InsertRecord(o) \/ Launch(o)
  <2>1. ~Working(o) /\ ~Working(o)' /\ pc[o] # "track" /\ infra' = infra
    BY <1>1, <1>5, Way, StepLeaves DEF Working
  <2>2. QED BY <1>3, <1>4, <2>1
<1>6. CASE FetchOutputs(o) \/ SaveOutputs(o)
  <2>1. ~Working(o) /\ ~Working(o)' /\ pc[o] # "track" /\ infra' = infra
    BY <1>1, <1>6, Way, StepLeaves DEF Working
  <2>2. QED BY <1>3, <1>4, <2>1
<1>7. CASE LaunchFails(o)
  <2>1. pc[o] = "launch" /\ pc'[o] = "settle" /\ infra' = infra /\ outcome'[o] \in {"nostart", "error"}
    BY <1>1, <1>7, Way DEF LaunchFails, cloud, TypeInv, TypeOK
  <2>2. Agreed(k)'
    BY <1>3, <1>4, <2>1 DEF Working
  <2>3. QED BY <2>1, <2>2 DEF Agreed, Working, Told, ApplyTold, DestroyTold
<1>8. CASE ContainerEnds(o)
  <2>1. pc[o] = "running" /\ pc'[o] = "settle" /\ Agreed(k)
    BY <1>1, <1>4, <1>8, Way DEF Working
  <2>2. infra'[k] = infra[k] => Agreed(k)'
    BY <1>3, <2>1
  <2>3. infra'[k] # None => Deployed(k)'
    BY DEF Deployed
  <2>4. CASE Asks(o, "apply")
    <3>1. outcome'[o] \in {"success", "error"} /\ (infra'[k] # None \/ (outcome'[o] = "error" /\ UNCHANGED infra))
      BY <1>8, <2>4, ContainerTold
    <3>2. QED BY <1>1, <2>1, <2>2, <2>3, <2>4, <3>1 DEF Agreed, Working, Told, ApplyTold, DestroyTold, Asks
  <2>5. CASE Asks(o, "destroy")
    <3>1. outcome'[o] \in {"success", "error"}
            /\ (IF outcome'[o] = "success" THEN infra'[k] = None ELSE UNCHANGED infra)
      BY <1>8, <2>5, ContainerTold
    <3>2. QED BY <1>1, <2>1, <2>2, <2>5, <3>1 DEF Agreed, Working, Told, ApplyTold, DestroyTold, Asks
  <2>6. CASE req[o].action \notin {"apply", "destroy"}
    <3>1. UNCHANGED infra
      BY <1>8, <2>6, ContainerTold
    <3>2. QED BY <1>1, <2>2, <2>6, <3>1 DEF Working
  <2>7. QED BY <2>4, <2>5, <2>6 DEF Asks
<1>9. CASE Settle(o) \/ Persist(o) \/ LookupRow(o)
  <2>1. /\ infra' = infra /\ outcome' = outcome
        /\ pc[o] \in {"settle", "persist", "lookup"} /\ pc'[o] \in {"persist", "lookup", "track", "done"}
    BY <1>1, <1>9, Way, StepLeaves
  <2>2. (Deployed(k)' <=> Deployed(k)) /\ (Agreed(k)' <=> Agreed(k))
    BY <1>3, <2>1
  <2>3. CASE ~Working(o)
    BY <1>1, <1>4, <2>1, <2>2, <2>3 DEF Working
  <2>4. CASE Working(o) /\ Asks(o, "apply")
    <3>1. ApplyTold(o, k)
      BY <2>4 DEF Agree, Told
    <3>2. ApplyTold(o, k)'
      BY <2>1, <2>2, <3>1 DEF ApplyTold
    <3>3. pc'[o] # "done"
      BY <1>1, <1>9, <2>4, <3>1, Way DEF Tracks, ApplyTold
    <3>4. QED BY <1>1, <2>1, <2>4, <3>2, <3>3 DEF Working, Told, Asks
  <2>5. CASE Working(o) /\ Asks(o, "destroy")
    <3>1. DestroyTold(o, k)
      BY <2>5 DEF Agree, Told
    <3>2. CASE pc'[o] = "done"
      <4>1. outcome[o] # "success"
        BY <1>1, <1>9, <2>5, <3>2, Way DEF Tracks
      <4>2. QED BY <2>2, <3>1, <3>2, <4>1 DEF DestroyTold, Working
    <3>3. CASE LookupRow(o)
      <4>1. outcome[o] = "success" /\ pc'[o] = "track"
        BY <1>1, <3>1, <3>3, Way DEF DestroyTold
      <4>2. PICK i \in IF req[o].row # None THEN {req[o].row} ELSE Lookup(k) :
              existing' = [existing EXCEPT ![o] = i]
        BY <2>5, <3>3 DEF LookupRow, Fault, Undisturbed
      <4>3. existing'[o] = i
        BY <1>1, <4>2 DEF TypeInv, TypeOK
      <4>4. IF i = None THEN Matches(k) = {} ELSE i \in Matches(k)
        <5>1. CASE req[o].row # None
          BY <1>1, <2>5, <3>3, <4>2, <5>1, Way DEF Agree
        <5>2. CASE req[o].row = None
          BY <4>2, <5>2, NoneAssumption DEF Lookup, Matches
        <5>3. QED BY <5>1, <5>2
      <4>5. DestroyTold(o, k)'
        BY <1>2, <2>1, <2>2, <3>1, <4>1, <4>3, <4>4 DEF DestroyTold
      <4>6. QED BY <1>1, <2>1, <2>5, <4>1, <4>5 DEF Working, Told, Asks
    <3>4. CASE pc'[o] # "done" /\ ~LookupRow(o)
      <4>1. pc'[o] \in {"persist", "lookup"} /\ (pc'[o] = "lookup" => outcome[o] = "success")
        BY <1>1, <1>9, <2>5, <3>4, Way DEF Tracks, Asks
      <4>2. DestroyTold(o, k)'
        BY <2>1, <2>2, <3>1, <4>1 DEF DestroyTold
      <4>3. QED BY <1>1, <2>1, <2>5, <4>1, <4>2 DEF Working, Told, Asks
    <3>5. QED BY <3>2, <3>3, <3>4
  <2>6. QED BY <2>3, <2>4, <2>5 DEF Working, Asks
<1>10. CASE TrackApply(o) \/ TrackFailure(o) \/ TrackDestroy(o)
  <2>1. Agreed(k)' /\ (existing[o] = None /\ Asks(o, "destroy") => Matches(k)' = {})
    BY <1>10, TrackTold
  <2>2. CASE pc'[o] = "sweep"
    <3>1. Asks(o, "destroy") /\ existing[o] = None /\ pc[o] = "track"
      BY <1>1, <1>10, <2>2, Way
    <3>2. outcome[o] = "success" /\ infra[k] = None
      BY <3>1 DEF Agree, Told, DestroyTold
    <3>3. outcome' = outcome /\ infra' = infra
      BY <1>1, <1>10, Way, StepLeaves
    <3>4. QED BY <1>1, <2>1, <2>2, <3>1, <3>2, <3>3 DEF Told, DestroyTold, Asks
  <2>3. CASE pc'[o] # "sweep"
    BY <1>1, <1>10, <2>1, <2>3, Way DEF Working
  <2>4. QED BY <2>2, <2>3
<1>11. CASE SweepDestroy(o)
  <2>1. /\ pc[o] = "sweep" /\ pc'[o] = "done" /\ infra' = infra
        /\ Asks(o, "destroy")
    BY <1>1, <1>11, Way, StepLeaves DEF Agree
  <2>2. infra[k] = None /\ Matches(k) = {}
    BY <2>1 DEF Agree, Told, DestroyTold
  <2>3. Agreed(k)
    BY <2>2 DEF Agreed, Tracked, Deployed
  <2>4. QED BY <1>3, <2>1, <2>3 DEF Working
<1>12. QED
  BY <1>5, <1>6, <1>7, <1>8, <1>9, <1>10, <1>11 DEF Step

LEMMA AgreeByStep ==
  ASSUME TypeInv, Alone, OneRow, Agree, Undisturbed, NEW o \in Requests, Step(o)
  PROVE  Agree'
<1>1. /\ o \in InFlight /\ \A p \in InFlight' : p = o
      /\ UNCHANGED <<req, server>>
      /\ \A p \in Requests \ {o} : pc'[p] = pc[p]
      /\ pc'[o] \notin {"idle", "detached"} /\ Key(o) \in Keys
  <2>1. o \in InFlight /\ Started(o)
    BY StepIsInFlight DEF InFlight, Started
  <2>2. pc'[o] \notin {"idle", "detached"}
    BY Way DEF Step
  <2>3. Key(o) \in Keys
    BY <2>1, TargetType
  <2>4. UNCHANGED <<req, server>> /\ \A p \in Requests \ {o} : pc'[p] = pc[p]
    BY StepLeaves
  <2>5. \A p \in InFlight' : p = o
    BY <2>1, <2>4 DEF Alone, InFlight
  <2>6. QED BY <2>1, <2>2, <2>3, <2>4, <2>5
<1>2. \A p \in Requests : (Started(p)' <=> Started(p)) /\ \A k \in Keys : (Key(p) = k)' <=> Key(p) = k
  BY <1>1 DEF Started, InFlight, Key
<1>3. server' = "up" /\ \A p \in Requests : pc'[p] # "detached"
  BY <1>1 DEF Agree
<1>4. (\A p \in Requests : Started(p) /\ req[p].action \in {"apply", "destroy"} => req[p].remote)'
  BY <1>1, <1>2 DEF Agree
<1>5. \A p \in Requests : resources'[<<p, 0>>] # None => pc'[p] \in {"fetch", "save", "done"}
  <2>1. \A p \in Requests : resources'[<<p, 0>>] # None =>
          resources[<<p, 0>>] # None \/ (p = o /\ pc[o] = "track" /\ Asks(o, "apply"))
    BY <1>1, WriteTold
  <2>2. pc[o] \in {"fetch", "save"} \/ (pc[o] = "track" /\ Asks(o, "apply")) =>
          pc'[o] \in {"fetch", "save", "done"}
    BY <1>1, Way DEF Step, Asks
  <2>3. resources[<<o, 0>>] # None => pc[o] \in {"fetch", "save"}
    BY <1>1 DEF Agree, InFlight
  <2>4. QED BY <1>1, <2>1, <2>2, <2>3 DEF Agree
<1>6. \A k \in Keys : infra'[k] # None => tfstate'[k]
  <2>1. CASE ContainerEnds(o)
    BY <1>1, <2>1, ContainerTold DEF Agree
  <2>2. CASE ~ContainerEnds(o)
    BY <1>1, <2>2, StepLeaves DEF Agree
  <2>3. QED BY <2>1, <2>2
<1>7. ASSUME NEW k \in Keys, k # Key(o) PROVE Agreed(k)'
  <2>1. Agreed(k)
    BY <1>1, <1>7 DEF Agree, Alone
  <2>2. infra'[k] = infra[k]
    BY <1>1, <1>7, StepLeaves, ContainerTold
  <2>3. Matches(k)' = Matches(k) /\ \A j \in Matches(k) : resources'[j].status = resources[j].status
    BY <1>1, <1>7, WriteTold
  <2>4. QED BY <2>1, <2>2, <2>3, SameAgreement
<1>8. ASSUME NEW k \in Keys, k = Key(o)
      PROVE  (Agreed(k)' \/ Working(o)') /\ (Working(o)' => Told(o, k)')
  BY <1>1, <1>8, KeyTold
<1>9. Working(o)' => o \in InFlight'
  BY DEF Working, InFlight
<1>10. (\A k \in Keys : Agreed(k) \/ \E p \in InFlight : Working(p) /\ Key(p) = k)'
  BY <1>1, <1>2, <1>7, <1>8, <1>9
<1>11. (\A p \in InFlight, k \in Keys : Working(p) /\ Key(p) = k => Told(p, k))'
  BY <1>1, <1>2, <1>8
<1>12. (\A p \in InFlight, k \in Keys :
          Asks(p, "destroy") /\ req[p].row # None /\ pc[p] # "sweep" /\ Key(p) = k =>
            req[p].row \in Matches(k))'
  <2>1. ASSUME NEW k \in Keys, k = Key(o), o \in InFlight', pc'[o] # "sweep",
               Asks(o, "destroy"), req[o].row # None
        PROVE  req[o].row \in Matches(k)'
    <3>1. pc[o] \notin {"track", "sweep"}
      BY <1>1, <2>1, Way DEF Step, InFlight, Asks
    <3>2. req[o].row \in Matches(k)
      BY <1>1, <2>1, <3>1 DEF Agree
    <3>3. QED BY <1>1, <3>1, <3>2, WriteTold
  <2>2. QED BY <1>1, <1>2, <2>1 DEF Asks
<1>13. (\A p \in InFlight : pc[p] \in {"lookup", "track", "sweep"} => Working(p))'
  <2>1. CASE pc'[o] = "lookup"
    <3>1. Persist(o) /\ Tracks(o) /\ outcome' = outcome
      BY <1>1, <2>1, Way, StepLeaves DEF Step
    <3>2. QED BY <1>1, <2>1, <3>1 DEF Tracks, Working, Asks
  <2>2. CASE pc'[o] \in {"track", "sweep"}
    <3>1. (LookupRow(o) \/ TrackDestroy(o)) /\ outcome' = outcome
      BY <1>1, <2>2, Way, StepLeaves DEF Step
    <3>2. Working(o)
      BY <1>1, <3>1, Way DEF Agree
    <3>3. QED BY <1>1, <2>2, <3>1, <3>2 DEF Working
  <2>3. QED BY <1>1, <2>1, <2>2
<1>14. (\A p \in InFlight : pc[p] = "sweep" => Asks(p, "destroy"))'
  <2>1. pc'[o] = "sweep" => Asks(o, "destroy")
    BY <1>1, Way DEF Step
  <2>2. QED BY <1>1, <2>1 DEF Asks
<1>15. QED
  BY <1>3, <1>4, <1>5, <1>6, <1>10, <1>11, <1>12, <1>13, <1>14 DEF Agree

LEMMA AgreeStep ==
  ASSUME TypeInv, Alone, OneRow, Agree, Undisturbed, [Next]_vars
  PROVE  Agree'
<1>1. ASSUME NEW o \in Requests, Submit(o) PROVE Agree'
  <2>1. InFlight = {}
    BY <1>1, NobodyInFlight DEF Submit, Undisturbed
  <2>2. /\ pc[o] = "idle" /\ pc' = [pc EXCEPT ![o] = "clear"]
        /\ UNCHANGED <<server, outcome, resources, infra, tfstate>>
    BY <1>1 DEF Submit, Goto, cloud
  <2>3. PICK q \in Request : MayAsk(q) /\ req' = [req EXCEPT ![o] = q]
    BY <1>1 DEF Submit
  <2>4. pc'[o] = "clear" /\ req'[o] = q /\ \A p \in Requests \ {o} : pc'[p] = pc[p] /\ req'[p] = req[p]
    BY <2>2, <2>3 DEF TypeInv, TypeOK
  <2>5. InFlight' \subseteq {o}
    BY <2>1, <2>4 DEF InFlight
  <2>6. \A k \in Keys : Matches(k)' = Matches(k) /\ (Agreed(k)' <=> Agreed(k)) /\ Agreed(k)
    BY <2>1, <2>2 DEF Agree, Agreed, Tracked, Deployed, Matches, Live
  <2>7. q.action \in {"apply", "destroy"} => q.remote
    BY <2>3 DEF MayAsk, Undisturbed
  <2>8. q.row # None => q.row \in Matches(q.key)
    BY <2>3 DEF MayAsk, Undisturbed, Matches, Live, Request
  <2>9. \A k \in Keys : (Asks(o, "destroy") /\ req[o].row # None /\ Key(o) = k)' =>
          req'[o].row \in Matches(k)'
    BY <2>4, <2>6, <2>8 DEF Asks, Key
  <2>10. ~Working(o)'
    BY <2>4 DEF Working
  <2>11. \A p \in Requests : resources'[<<p, 0>>] # None => pc'[p] \in {"fetch", "save", "done"}
    BY <2>2, <2>4 DEF Agree
  <2>12. (\A p \in Requests : Started(p) /\ req[p].action \in {"apply", "destroy"} => req[p].remote)'
    BY <2>4, <2>7 DEF Agree, Started
  <2>13. QED BY <2>2, <2>4, <2>5, <2>6, <2>9, <2>10, <2>11, <2>12 DEF Agree
<1>2. ASSUME NEW o \in Requests, DetachedEnds(o) PROVE Agree'
  BY <1>2 DEF DetachedEnds, Agree
<1>3. CASE Crash \/ StartUp
  BY <1>3 DEF Crash, Fault, Undisturbed, StartUp, MarkInterrupted, MarkFails, Serve, Recover, Agree
<1>4. CASE UNCHANGED vars
  BY <1>4 DEF vars, volatile, cloud, Agree, Agreed, Tracked, Deployed, Matches, Live, Working, Told,
              ApplyTold, DestroyTold, Asks, Key, InFlight, Started
<1>5. QED BY <1>1, <1>2, <1>3, <1>4, AgreeByStep DEF Next

\* Requests that do not overlap and that nothing disturbs leave rows and cloud
\* in agreement: what is deployed has a row, one row, and an active row is
\* deployed.
THEOREM RowsAndCloudAgree ==
  ASSUME Undisturbed
  PROVE  Spec => []RowsAgreeWithCloud
<1>1. MaxInFlight <= 1 /\ "lostread" \notin Faults
  BY DEF Undisturbed
<1>2. Init => Agree
  <2> SUFFICES ASSUME Init PROVE Agree
    OBVIOUS
  <2>1. 0 \in 0 .. MaxFaults
    BY ConstantsAssumption
  <2>2. \A o \in Requests : <<o, 0>> \in RowIds
    BY <2>1 DEF RowIds
  <2>3. (\A i \in RowIds : resources[i] = None) /\ (\A k \in Keys : infra[k] = None)
    BY DEF Init
  <2>4. InFlight = {} /\ server = "up" /\ \A o \in Requests : pc[o] = "idle"
    BY DEF Init, InFlight
  <2>5. \A k \in Keys : Agreed(k)
    BY <2>3 DEF Agreed, Tracked, Deployed, Matches, Live
  <2>6. QED BY <2>2, <2>3, <2>4, <2>5 DEF Agree, Started
<1>3. TypeInv /\ Alone /\ OneRow /\ Agree /\ [Next]_vars => Agree'
  BY AgreeStep
<1>4. TypeInv /\ Agree => DeployedIsTracked /\ ActiveIsDeployed
  <2> SUFFICES ASSUME TypeInv, Agree PROVE DeployedIsTracked /\ ActiveIsDeployed
    OBVIOUS
  <2>1. \A k \in Keys : Agreed(k) \/ \E o \in InFlight : Key(o) = k
    BY DEF Agree
  <2>2. DeployedIsTracked
    BY <2>1 DEF DeployedIsTracked, Agreed, Tracked
  <2>3. ActiveIsDeployed
    <3>1. \A i \in RowIds : Live(i) => resources[i].key \in Keys /\ i \in Matches(resources[i].key)
      BY DEF Live, Matches, TypeInv, TypeOK, Row
    <3>2. QED BY <2>1, <3>1 DEF ActiveIsDeployed, Agreed, Deployed
  <2>4. QED BY <2>2, <2>3
<1>5. Spec => []OneRowPerKey
  BY <1>1, KeysHaveOneRow
<1>6. QED
  BY <1>1, <1>2, <1>3, <1>4, <1>5, TypeInvariant, InTurnInvariant, OneRowInvariant, PTL
     DEF Spec, RowsAgreeWithCloud
=============================================================================
