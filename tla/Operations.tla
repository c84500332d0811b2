----------------------------- MODULE Operations -----------------------------
(***************************************************************************)
(* The plan / apply / destroy pipeline of the backend: runTerragrunt       *)
(* (handler_plan.go), its WebSocket twin wsRunHandler (handler_ws.go), the *)
(* outputs refresh of handler_resources.go, the executions and resources   *)
(* tables they write (database.go) and the clean-up at start-up.           *)
(*                                                                         *)
(* Every request is a goroutine.  A step below is what a goroutine does    *)
(* between two points at which another one can interfere: a statement on   *)
(* the database, a change of the run directory, a change of the shared     *)
(* in-memory history, or the wait for a container.  Inputs are told apart  *)
(* only by the request that carries them: a configuration, a set of        *)
(* outputs or a text of logs is named by the request it comes from.        *)
(***************************************************************************)
EXTENDS Naturals, FiniteSets

CONSTANTS
  Requests,      \* the requests the clients send in a behaviour
  Keys,          \* state keys, GenerateStateKey(schema, name, env)
  UnnamedKeys,   \* the keys whose name is getResourceName's clock fallback
  Actions,       \* the actions the clients ask for
  Routes,        \* "http": runTerragrunt, "ws": wsRunHandler
  Kubernetes,    \* getExecutionMode() = "kubernetes", else docker
  RemoteState,   \* GetStateBackendInfo() # nil
  EditRenames,   \* a client may send a row's id with another row's name
  StaleRows,     \* a client may send the id of a row that has been destroyed
  MaxInFlight,   \* bound: requests the clients keep open at a time
  Faults,        \* the kinds of fault that may happen
  MaxFaults,     \* bound: faults in a behaviour
  None

\* The backend dies; a statement fails, a query fails (SQLite is opened without
\* a busy timeout); two requests get the same record id; a job's verdict is lost.
FaultKinds == {"crash", "lostwrite", "lostread", "collision", "verdict"}

ASSUME ConstantsAssumption ==
  /\ UnnamedKeys \subseteq Keys
  /\ Actions \subseteq {"plan", "apply", "destroy", "refresh"}
  /\ Routes \subseteq {"http", "ws"}
  /\ Kubernetes \in BOOLEAN /\ RemoteState \in BOOLEAN /\ EditRenames \in BOOLEAN
  /\ StaleRows \in BOOLEAN
  /\ Faults \subseteq FaultKinds
  /\ MaxInFlight \in Nat /\ MaxFaults \in Nat

VARIABLES
  server,      \* "up", or the stage of the start-up clean-up
  pc,          \* the step each request's goroutine is at
  req,         \* what each request asks for
  runDir,      \* the configuration in /tmp/wolkvorm-run
  ran,         \* the configuration a request's container read
  outcome,     \* the local `status`
  recordID,    \* the local `recordID`, named by the request whose row it is
  existing,    \* the local `existing`
  fetched,     \* the local `outputs`
  lastLogs,    \* the global lastLogs
  planHistory, \* the in-memory history, by record id
  executions,  \* table executions, by id
  resources,   \* table resources, by id
  toRecover,   \* the rows cleanupStaleRecords has still to visit
  infra,       \* what exists in the cloud under each key
  tfstate,     \* whether the S3 state of a key records it
  crashes, faults

volatile == <<pc, outcome, recordID, existing, fetched, lastLogs, planHistory>>
cloud    == <<infra, tfstate>>
vars     == <<server, volatile, req, runDir, ran, executions, resources,
              toRecover, cloud, crashes, faults>>

-----------------------------------------------------------------------------
(* Types                                                                   *)

Stages == {"idle", "clear", "fill", "remember", "insert", "launch", "running",
           "settle", "persist", "lookup", "track", "sweep", "fetch", "save",
           "done", "detached", "lost"}

RowIds    == Requests \X (0 .. MaxFaults)
Request   == [action: Actions, key: Keys, route: Routes,
              row: RowIds \cup {None}, remote: BOOLEAN]
Record    == [status: {"running", "success", "error", "interrupted"},
              logs: Requests \cup {None}]
Row       == [status: {"active", "failed", "unknown", "destroyed"}, key: Keys,
              by: Requests, outputs: Requests \cup {None}]

ASSUME NoneAssumption ==
  None \notin Requests /\ None \notin RowIds /\ None \notin Request
    /\ None \notin Record /\ None \notin Row

Init ==
  /\ server = "up"
  /\ pc = [o \in Requests |-> "idle"]
  /\ req = [o \in Requests |-> None]
  /\ runDir = None
  /\ ran = [o \in Requests |-> None]
  /\ outcome = [o \in Requests |-> "none"]
  /\ recordID = [o \in Requests |-> o]
  /\ existing = [o \in Requests |-> None]
  /\ fetched = [o \in Requests |-> None]
  /\ lastLogs = None
  /\ planHistory = [o \in Requests |-> None]
  /\ executions = [o \in Requests |-> None]
  /\ resources = [i \in RowIds |-> None]
  /\ toRecover = {}
  /\ infra = [k \in Keys |-> None]
  /\ tfstate = [k \in Keys |-> FALSE]
  /\ crashes = 0
  /\ faults = 0

-----------------------------------------------------------------------------
(* State functions                                                         *)

Key(o)    == req[o].key
Asks(o,a) == req[o].action = a

InFlight  == {o \in Requests : pc[o] \notin {"idle", "done", "detached", "lost"}}
Live(i)   == resources[i] # None /\ resources[i].status # "destroyed"

\* What dbGetResourceByStateKey(k) may return.
Matches(k) == {i \in RowIds : Live(i) /\ resources[i].key = k}

\* Seeded: the look-up finds active rows only.
LookupActive(k) ==
  LET active == {i \in Matches(k) : resources[i].status = "active"}
  IN  IF active = {} THEN {None} ELSE active

Lookup(k)  == IF Matches(k) = {} THEN {None} ELSE Matches(k)

\* The rows the last attempt of a destroy may take: same schema and
\* environment, and the names are equal.  Two clock-made names are.
SweepMatches(o) ==
  {i \in RowIds : /\ resources[i] # None
                  /\ resources[i].status \in {"active", "unknown", "failed"}
                  /\ \/ resources[i].key = Key(o)
                     \/ {resources[i].key, Key(o)} \subseteq UnnamedKeys}

Goto(o, stage) == pc' = [pc EXCEPT ![o] = stage]

\* A fault of a kind the instance allows, while some are left.
Fault(kind) == kind \in Faults /\ faults < MaxFaults /\ faults' = faults + 1
NoFault     == UNCHANGED faults

\* A statement on a table either takes effect or fails; its error is only
\* printed, and the caller goes on.
WriteExecution(id, record) ==
  \/ NoFault /\ executions' = [executions EXCEPT ![id] = record]
  \/ Fault("lostwrite") /\ UNCHANGED executions
WriteRow(id, row) ==
  \/ NoFault /\ resources' = [resources EXCEPT ![id] = row]
  \/ Fault("lostwrite") /\ UNCHANGED resources

-----------------------------------------------------------------------------
(* A request, up to the start of its container                             *)

\* What a client may ask for, and whether the configuration generated for it
\* carries the S3 backend: always for apply, destroy and refresh, for a plan
\* only when the resource is known.  The WebSocket request has no row id.
MayAsk(q) ==
  /\ q.row # None => /\ resources[q.row] # None
                     /\ Live(q.row) \/ StaleRows
                     /\ q.route = "http"
                     /\ q.action \in {"destroy", "refresh"}
                     /\ \/ q.key = resources[q.row].key
                        \/ q.action = "destroy" /\ EditRenames
  /\ q.action = "refresh" => q.row # None
  /\ q.remote = (RemoteState /\ (q.action = "plan" => Matches(q.key) # {}))

Submit(o) ==
  /\ server = "up"
  /\ pc[o] = "idle"
  /\ Cardinality(InFlight) < MaxInFlight
  /\ \E q \in Request : MayAsk(q) /\ req' = [req EXCEPT ![o] = q]
  /\ Goto(o, "clear")
  /\ UNCHANGED <<server, runDir, ran, outcome, recordID, existing, fetched, lastLogs,
                 planHistory, executions, resources, toRecover, cloud, crashes, faults>>

\* Seeded: a destroy takes the directory as it finds it.
ClearUnlessDestroy(o) ==
  /\ pc[o] = "clear"
  /\ runDir' = IF Asks(o, "destroy") THEN runDir ELSE None
  /\ Goto(o, IF Asks(o, "destroy") THEN "remember" ELSE "fill")
  /\ UNCHANGED <<server, req, ran, outcome, recordID, existing, fetched, lastLogs,
                 planHistory, executions, resources, toRecover, cloud, crashes, faults>>

\* os.RemoveAll and os.MkdirAll.
ClearRunDir(o) ==
  /\ pc[o] = "clear"
  /\ runDir' = None
  /\ Goto(o, "fill")
  /\ UNCHANGED <<server, req, ran, outcome, recordID, existing, fetched, lastLogs,
                 planHistory, executions, resources, toRecover, cloud, crashes, faults>>

\* os.WriteFile of main.tf.
FillRunDir(o) ==
  /\ pc[o] = "fill"
  /\ runDir' = o
  /\ Goto(o, IF Asks(o, "refresh") THEN "fetch" ELSE "remember")
  /\ UNCHANGED <<server, req, ran, outcome, recordID, existing, fetched, lastLogs,
                 planHistory, executions, resources, toRecover, cloud, crashes, faults>>

\* The record's id is the action and a millisecond: it may be the id of a
\* request of the same action that has only just inserted its record.
Remember(o) ==
  /\ pc[o] = "remember"
  /\ \/ NoFault /\ UNCHANGED recordID
     \/ /\ Fault("collision")
        /\ \E p \in Requests \ {o} :
             /\ pc[p] = "launch"
             /\ recordID[p] = p
             /\ Asks(o, req[p].action)
             /\ recordID' = [recordID EXCEPT ![o] = p]
  /\ planHistory' = [planHistory EXCEPT ![recordID'[o]] = [status |-> "running", logs |-> None]]
  /\ Goto(o, "insert")
  /\ UNCHANGED <<server, req, runDir, ran, outcome, existing, fetched, lastLogs,
                 executions, resources, toRecover, cloud, crashes>>

\* Seeded: an apply is put on record only when it ends.
InsertUnlessApply(o) ==
  /\ pc[o] = "insert"
  /\ IF Asks(o, "apply") THEN NoFault /\ UNCHANGED executions
                         ELSE WriteExecution(recordID[o], [status |-> "running", logs |-> None])
  /\ Goto(o, "launch")
  /\ UNCHANGED <<server, req, runDir, ran, outcome, recordID, existing, fetched, lastLogs,
                 planHistory, resources, toRecover, cloud, crashes>>

\* INSERT fails when the primary key is there.
InsertRecord(o) ==
  /\ pc[o] = "insert"
  /\ \/ /\ executions[recordID[o]] = None
        /\ WriteExecution(recordID[o], [status |-> "running", logs |-> None])
     \/ /\ executions[recordID[o]] # None
        /\ NoFault /\ UNCHANGED executions
  /\ Goto(o, "launch")
  /\ UNCHANGED <<server, req, runDir, ran, outcome, recordID, existing, fetched, lastLogs,
                 planHistory, resources, toRecover, cloud, crashes>>

\* A job carries its configuration; a docker container mounts the directory.
Launch(o) ==
  /\ pc[o] = "launch"
  /\ ran' = [ran EXCEPT ![o] = IF Kubernetes THEN o ELSE runDir]
  /\ Goto(o, "running")
  /\ UNCHANGED <<server, req, runDir, outcome, recordID, existing, fetched, lastLogs,
                 planHistory, executions, resources, toRecover, cloud, crashes, faults>>

\* The container or the job cannot be started.  wsRunHandler then closes the
\* record in docker mode and returns; otherwise it is an error like another.
LaunchFails(o) ==
  /\ pc[o] = "launch"
  /\ outcome' = [outcome EXCEPT ![o] =
                   IF req[o].route = "ws" /\ ~Kubernetes THEN "nostart" ELSE "error"]
  /\ lastLogs' = IF outcome'[o] = "nostart" THEN lastLogs ELSE o
  /\ Goto(o, "settle")
  /\ UNCHANGED <<server, req, runDir, ran, recordID, existing, fetched, planHistory,
                 executions, resources, toRecover, cloud, crashes, faults>>

-----------------------------------------------------------------------------
(* Terraform (not under the repository): what `init && apply`, `destroy`   *)
(* or `plan` of a configuration c does to the cloud and to its S3 state.   *)

Deploys(c) ==
  /\ infra' = [infra EXCEPT ![Key(c)] = c]
  /\ tfstate' = [tfstate EXCEPT ![Key(c)] = @ \/ req[c].remote]

\* Destroy removes what the state it finds records; the state kept in the
\* run directory is gone with the directory of the apply.
Removes(c) ==
  LET known == req[c].remote /\ tfstate[Key(c)]
  IN  /\ infra' = [infra EXCEPT ![Key(c)] = IF known THEN None ELSE @]
      /\ tfstate' = [tfstate EXCEPT ![Key(c)] = @ /\ ~known]

\* An apply may fail after it has created something; a destroy that fails
\* leaves something.  An empty directory can be destroyed, not applied.
Terraform(o, verdict) ==
  LET c == ran[o] IN
  \/ Asks(o, "apply") /\ c # None /\ Deploys(c)
  \/ Asks(o, "destroy") /\ c # None /\ verdict = "success" /\ Removes(c)
  \/ Asks(o, "destroy") /\ c = None /\ verdict = "success" /\ UNCHANGED cloud
  \/ Asks(o, "plan") /\ c # None /\ verdict = "success" /\ UNCHANGED cloud
  \/ verdict = "error" /\ UNCHANGED cloud

\* The container ends and the goroutine takes its exit code.  Under
\* Kubernetes the verdict may be lost and taken for success (k8s_runner.go).
ContainerEnds(o) ==
  /\ pc[o] = "running"
  /\ \E verdict \in {"success", "error"} :
       /\ Terraform(o, verdict)
       /\ \/ NoFault /\ outcome' = [outcome EXCEPT ![o] = verdict]
          \/ /\ Kubernetes /\ Fault("verdict")
             /\ outcome' = [outcome EXCEPT ![o] = "success"]
  /\ lastLogs' = o
  /\ Goto(o, "settle")
  /\ UNCHANGED <<server, req, runDir, ran, recordID, existing, fetched, planHistory,
                 executions, resources, toRecover, crashes>>

\* A container whose backend has died runs to its end all the same.
DetachedEnds(o) ==
  /\ pc[o] = "detached"
  /\ \E verdict \in {"success", "error"} : Terraform(o, verdict)
  /\ Goto(o, "lost")
  /\ UNCHANGED <<server, req, runDir, ran, outcome, recordID, existing, fetched, lastLogs,
                 planHistory, executions, resources, toRecover, crashes, faults>>

-----------------------------------------------------------------------------
(* A request, after its container                                          *)

\* runTerragrunt reads its logs back from the global, wsRunHandler has a
\* local; both tables of the history take what is read at that moment.
Logs(o)   == IF req[o].route = "http" THEN lastLogs ELSE o

\* Seeded: the arguments of dbUpdateRecord are swapped.
ClosedSwapped(o) == [status |-> Logs(o), logs |-> outcome[o]]

Closed(o) == [status |-> IF outcome[o] = "success" THEN "success" ELSE "error",
              logs   |-> Logs(o)]

\* Seeded: the WebSocket handler leaves the in-memory history as it is.
SettleHttpOnly(o) ==
  /\ pc[o] = "settle"
  /\ planHistory' = IF req[o].route = "ws" THEN planHistory
                    ELSE [planHistory EXCEPT ![recordID[o]] = Closed(o)]
  /\ Goto(o, "persist")
  /\ UNCHANGED <<server, req, runDir, ran, outcome, recordID, existing, fetched, lastLogs,
                 executions, resources, toRecover, cloud, crashes, faults>>

Settle(o) ==
  /\ pc[o] = "settle"
  /\ planHistory' = [planHistory EXCEPT ![recordID[o]] = Closed(o)]
  /\ Goto(o, "persist")
  /\ UNCHANGED <<server, req, runDir, ran, outcome, recordID, existing, fetched, lastLogs,
                 executions, resources, toRecover, cloud, crashes, faults>>

\* What the resources table has to learn of: every apply that was started,
\* and a destroy that succeeded.
Tracks(o) ==
  \/ Asks(o, "apply") /\ outcome[o] # "nostart"
  \/ Asks(o, "destroy") /\ outcome[o] = "success"

\* UPDATE of a row that was not inserted changes nothing.
Persist(o) ==
  /\ pc[o] = "persist"
  /\ IF executions[recordID[o]] = None
       THEN NoFault /\ UNCHANGED executions
       ELSE WriteExecution(recordID[o], Closed(o))
  /\ Goto(o, IF Tracks(o) THEN "lookup" ELSE "done")
  /\ UNCHANGED <<server, req, runDir, ran, outcome, recordID, existing, fetched, lastLogs,
                 planHistory, resources, toRecover, cloud, crashes>>

\* existing := dbGetResourceByStateKey(stateKey); a destroy that names its
\* row does not look it up.
LookupRow(o) ==
  /\ pc[o] = "lookup"
  /\ \/ /\ NoFault
        /\ \E i \in IF Asks(o, "destroy") /\ req[o].row # None
                     THEN {req[o].row} ELSE Lookup(Key(o)) :
             existing' = [existing EXCEPT ![o] = i]
     \/ /\ Fault("lostread")
        /\ Asks(o, "apply") \/ req[o].row = None
        /\ existing' = [existing EXCEPT ![o] = None]
  /\ Goto(o, "track")
  /\ UNCHANGED <<server, req, runDir, ran, outcome, recordID, fetched, lastLogs,
                 planHistory, executions, resources, toRecover, cloud, crashes>>

NewRow(o, status) == [status |-> status, key |-> Key(o), by |-> o, outputs |-> None]

\* A successful apply updates the row it found, or inserts one.
TrackApply(o) ==
  /\ pc[o] = "track" /\ Asks(o, "apply") /\ outcome[o] = "success"
  /\ LET i == existing[o] IN
       IF i # None
         THEN WriteRow(i, [resources[i] EXCEPT !.status = "active", !.by = o])
         ELSE WriteRow(<<o, 0>>, NewRow(o, "active"))
  /\ Goto(o, "fetch")
  /\ UNCHANGED <<server, req, runDir, ran, outcome, recordID, existing, fetched, lastLogs,
                 planHistory, executions, toRecover, cloud, crashes>>

\* A failed apply inserts a row only if it found none.
TrackFailure(o) ==
  /\ pc[o] = "track" /\ Asks(o, "apply") /\ outcome[o] = "error"
  /\ IF existing[o] = None
       THEN WriteRow(<<o, 0>>, NewRow(o, "failed"))
       ELSE NoFault /\ UNCHANGED resources
  /\ Goto(o, "done")
  /\ UNCHANGED <<server, req, runDir, ran, outcome, recordID, existing, fetched, lastLogs,
                 planHistory, executions, toRecover, cloud, crashes>>

TrackDestroy(o) ==
  /\ pc[o] = "track" /\ Asks(o, "destroy")
  /\ LET i == existing[o] IN
       IF i # None
         THEN WriteRow(i, [resources[i] EXCEPT !.status = "destroyed"])
         ELSE NoFault /\ UNCHANGED resources
  /\ Goto(o, IF existing[o] = None /\ req[o].route = "http" THEN "sweep" ELSE "done")
  /\ UNCHANGED <<server, req, runDir, ran, outcome, recordID, existing, fetched, lastLogs,
                 planHistory, executions, toRecover, cloud, crashes>>

\* The fallback of runTerragrunt: the first row of the same name, if any.
SweepDestroy(o) ==
  /\ pc[o] = "sweep"
  /\ IF SweepMatches(o) = {}
       THEN NoFault /\ UNCHANGED resources
       ELSE \E i \in SweepMatches(o) :
              WriteRow(i, [resources[i] EXCEPT !.status = "destroyed"])
  /\ Goto(o, "done")
  /\ UNCHANGED <<server, req, runDir, ran, outcome, recordID, existing, fetched, lastLogs,
                 planHistory, executions, toRecover, cloud, crashes>>

\* What `terraform output` prints for the configuration c: the outputs of what
\* its state records.  A local state file lies beside the configuration.
StateOutputs(c) ==
  IF c = None THEN None
  ELSE IF IF req[c].remote THEN tfstate[Key(c)] ELSE infra[Key(c)] = c
    THEN infra[Key(c)] ELSE None

\* After an apply `output` runs without `init`: it answers in the directory of
\* the apply, may answer in one that somebody else has since filled, and finds
\* nothing in the new job of Kubernetes.  A refresh runs `init` before.
OutputsSeen(o) ==
  IF Asks(o, "refresh") THEN {StateOutputs(IF Kubernetes THEN o ELSE runDir)}
  ELSE IF Kubernetes THEN {None}
  ELSE IF runDir = o THEN {StateOutputs(o)} ELSE {StateOutputs(runDir), None}

\* An apply takes an answer it cannot read for no outputs, a refresh returns.
FetchOutputs(o) ==
  /\ pc[o] = "fetch"
  /\ \/ /\ \E c \in OutputsSeen(o) : fetched' = [fetched EXCEPT ![o] = c]
        /\ Goto(o, "save")
     \/ /\ Asks(o, "apply")
        /\ fetched' = [fetched EXCEPT ![o] = None]
        /\ Goto(o, "save")
     \/ /\ Asks(o, "refresh")
        /\ Goto(o, "done")
        /\ UNCHANGED fetched
  /\ UNCHANGED <<server, req, runDir, ran, outcome, recordID, existing, lastLogs,
                 planHistory, executions, resources, toRecover, cloud, crashes, faults>>

\* The row the outputs go to: the one the request named or found, else (and
\* always for wsRunHandler) the one that has the key now.
OutputRows(o) ==
  IF Asks(o, "refresh") THEN {req[o].row}
  ELSE IF req[o].route = "http" /\ existing[o] # None THEN {existing[o]}
  ELSE Lookup(Key(o))

SaveOutputs(o) ==
  /\ pc[o] = "save"
  /\ \E i \in OutputRows(o) :
       IF i # None
         THEN WriteRow(i, [resources[i] EXCEPT !.outputs = fetched[o]])
         ELSE NoFault /\ UNCHANGED resources
  /\ Goto(o, "done")
  /\ UNCHANGED <<server, req, runDir, ran, outcome, recordID, existing, fetched, lastLogs,
                 planHistory, executions, toRecover, cloud, crashes>>

-----------------------------------------------------------------------------
(* Crash and start-up                                                      *)

\* The process dies: goroutines and memory go, the tables, the run directory
\* and the containers stay.
Crash ==
  /\ Fault("crash")
  /\ server' = "marking"
  /\ crashes' = crashes + 1
  /\ pc' = [o \in Requests |-> CASE pc[o] = "running" -> "detached"
                                  [] o \in InFlight /\ pc[o] # "running" -> "lost"
                                  [] OTHER -> pc[o]]
  /\ planHistory' = [o \in Requests |-> None]
  /\ lastLogs' = None
  /\ toRecover' = {}
  /\ UNCHANGED <<req, runDir, ran, outcome, recordID, existing, fetched, executions,
                 resources, cloud>>

Interrupted(r) == r # None /\ r.status = "interrupted"
Running(r)     == r # None /\ r.status = "running"

\* Seeded: the UPDATE looks at applies alone, or at failed runs too; the SELECT
\* does not look at the action.
StaleApply(r)           == Running(executions[r]) /\ Asks(r, "apply")
StaleOrFailed(r)        == executions[r] # None /\ executions[r].status \in {"running", "error"}
RecoverableAny(r, rec)  == Interrupted(rec)

\* The rows of the UPDATE and of the SELECT of cleanupStaleRecords.
Stale(r)            == Running(executions[r])
Recoverable(r, rec) == Interrupted(rec) /\ Asks(r, "apply")

\* The SELECT follows only when the UPDATE has changed something, and finds
\* every interrupted apply there is, not the ones just marked.
MarkInterrupted ==
  /\ server = "marking"
  /\ executions' = [r \in Requests |->
                      IF Stale(r) THEN [executions[r] EXCEPT !.status = "interrupted"]
                                  ELSE executions[r]]
  /\ \/ /\ NoFault
        /\ \E r \in Requests : Stale(r)
        /\ toRecover' = {r \in Requests : Recoverable(r, executions'[r])}
        /\ server' = "recovering"
     \/ /\ IF \E r \in Requests : Stale(r) THEN Fault("lostread") ELSE NoFault
        /\ toRecover' = {}
        /\ server' = "up"
  /\ UNCHANGED <<volatile, req, runDir, ran, resources, cloud, crashes>>

\* The UPDATE fails: cleanupStaleRecords gives up.
MarkFails ==
  /\ server = "marking"
  /\ Fault("lostwrite")
  /\ server' = "up"
  /\ UNCHANGED <<volatile, req, runDir, ran, executions, resources, toRecover, cloud,
                 crashes>>

\* One turn of its loop.  The name, hence the key, is computed again.
RecoveredKeys(r) == IF Key(r) \in UnnamedKeys THEN UnnamedKeys ELSE {Key(r)}

RecoveredRow(r, k) == [status |-> "unknown", key |-> k, by |-> r, outputs |-> None]

Recover(r) ==
  /\ server = "recovering" /\ r \in toRecover
  /\ \E k \in RecoveredKeys(r) :
       IF Matches(k) = {}
         THEN WriteRow(<<r, crashes>>, RecoveredRow(r, k))
         ELSE \/ NoFault /\ UNCHANGED resources
              \/ /\ Fault("lostread")
                 /\ resources' = [resources EXCEPT ![<<r, crashes>>] = RecoveredRow(r, k)]
  /\ toRecover' = toRecover \ {r}
  /\ UNCHANGED <<server, volatile, req, runDir, ran, executions, cloud, crashes>>

Serve ==
  /\ server = "recovering" /\ toRecover = {}
  /\ server' = "up"
  /\ UNCHANGED <<volatile, req, runDir, ran, executions, resources, toRecover, cloud,
                 crashes, faults>>

-----------------------------------------------------------------------------

\* The steps the goroutine of a request takes by itself.
Step(o) ==
  \/ ClearRunDir(o) \/ FillRunDir(o) \/ Remember(o) \/ InsertRecord(o)
  \/ Launch(o) \/ LaunchFails(o) \/ ContainerEnds(o) \/ Settle(o) \/ Persist(o)
  \/ LookupRow(o) \/ TrackApply(o) \/ TrackFailure(o) \/ TrackDestroy(o)
  \/ SweepDestroy(o) \/ FetchOutputs(o) \/ SaveOutputs(o)

StartUp == MarkInterrupted \/ MarkFails \/ Serve \/ \E r \in Requests : Recover(r)

Next ==
  \/ \E o \in Requests : Submit(o) \/ Step(o) \/ DetachedEnds(o)
  \/ Crash
  \/ StartUp

Spec == Init /\ [][Next]_vars

\* The Go scheduler runs every goroutine and every container ends.
Fairness == WF_vars(StartUp) /\ \A o \in Requests : WF_vars(Step(o))

FairSpec == Spec /\ Fairness

-----------------------------------------------------------------------------
(* Properties                                                              *)

TypeOK ==
  /\ server \in {"up", "marking", "recovering"}
  /\ pc \in [Requests -> Stages]
  /\ req \in [Requests -> Request \cup {None}]
  /\ runDir \in Requests \cup {None}
  /\ ran \in [Requests -> Requests \cup {None}]
  /\ outcome \in [Requests -> {"none", "success", "error", "nostart"}]
  /\ recordID \in [Requests -> Requests]
  /\ existing \in [Requests -> RowIds \cup {None}]
  /\ fetched \in [Requests -> Requests \cup {None}]
  /\ lastLogs \in Requests \cup {None}
  /\ planHistory \in [Requests -> Record \cup {None}]
  /\ executions \in [Requests -> Record \cup {None}]
  /\ resources \in [RowIds -> Row \cup {None}]
  /\ toRecover \subseteq Requests
  /\ infra \in [Keys -> Requests \cup {None}]
  /\ tfstate \in [Keys -> BOOLEAN]
  /\ crashes \in 0 .. MaxFaults
  /\ faults \in 0 .. MaxFaults

\* No record says "running" once nobody is left to close it: while the
\* server serves, every running record belongs to a goroutine of this
\* process that has still to write its verdict.
RunningIsAttended ==
  server # "marking" =>
    \A r \in Requests : Running(executions[r]) =>
      \E o \in Requests : /\ recordID[o] = r
                         /\ pc[o] \in {"launch", "running", "settle", "persist"}

\* The status of a row and the record it points to by last_apply_id agree:
\* an active row comes from an apply that succeeded, a failed one from one
\* that failed, an unknown one from one that was cut short.
Provenance ==
  \A i \in RowIds : Live(i) =>
    LET row == resources[i]
        rec == executions[recordID[row.by]]
    IN  /\ Asks(row.by, "apply")
        /\ rec # None
        /\ <<row.status, rec.status>> \in {<<"active", "success">>, <<"failed", "error">>,
                                           <<"unknown", "interrupted">>}

\* No other request has drawn the id of r.
OwnId(r) == \A o \in Requests : recordID[o] = r => o = r

\* A verdict is final: no later step of any goroutine, of the same or of a
\* later process, rewrites a closed record whose id was drawn once
\* (handler_plan.go:196-208, database.go:234, 295-305).
VerdictIsFinal ==
  [][\A r \in Requests :
       executions[r] # None /\ ~Running(executions[r]) /\ OwnId(r)
         => executions'[r] = executions[r]]_executions

\* Nothing is deployed that the executions table does not know of: the
\* record of a configuration is written before any container reads it.
DeployedIsRecorded ==
  \A k \in Keys : infra[k] # None => executions[recordID[infra[k]]] # None

\* The in-memory history is never behind the table: what it shows as running
\* is not yet closed there.
HistoryNotBehind ==
  \A r \in Requests : Running(planHistory[r]) /\ executions[r] # None /\ OwnId(r) =>
    Running(executions[r])

\* A container runs the configuration of its own request.
RunsItsOwnConfig == \A o \in Requests : pc[o] = "running" => ran[o] = o

\* Once no request works on a key, what is deployed there has a row that is
\* not destroyed, so that a user can find and destroy it.
DeployedIsTracked ==
  server = "up" =>
    \A k \in Keys : infra[k] # None =>
      \/ Matches(k) # {}
      \/ \E o \in InFlight : Key(o) = k

\* One row at most stands for a state key.
OneRowPerKey == \A k \in Keys : Cardinality(Matches(k)) <= 1

\* A row that is shown as active is deployed, unless a request is on it.
ActiveIsDeployed ==
  server = "up" =>
    \A i \in RowIds : Live(i) /\ resources[i].status = "active" =>
      \/ infra[resources[i].key] # None
      \/ \E o \in InFlight : Key(o) = resources[i].key

\* Outputs shown on a row are outputs of that row's own configuration key.
OutputsAreOfTheRow ==
  \A i \in RowIds : Live(i) /\ resources[i].outputs # None =>
    Key(resources[i].outputs) = resources[i].key

\* The logs kept with a record are those of its own run.
LogsAreOwn ==
  \A r \in Requests : executions[r] # None => executions[r].logs \in {r, None}

\* Requests that do not overlap are kept apart: each runs its configuration,
\* and its logs and outputs are kept with its record and its row
\* (handler_plan.go:98-208, 236-305).
KeptApart == RunsItsOwnConfig /\ OutputsAreOfTheRow /\ LogsAreOwn

\* Requests that do not overlap leave rows and cloud in agreement: what is
\* deployed has one row, and an active row is deployed
\* (handler_plan.go:208-355).
RowsAgreeWithCloud == DeployedIsTracked /\ OneRowPerKey /\ ActiveIsDeployed

\* Every record that says "running" is eventually closed, by its request or by
\* the next start-up, unless a statement has failed (handler_plan.go:142-208,
\* database.go:229-249).
EveryRunIsClosed ==
  \A r \in Requests : Running(executions[r]) ~> ~Running(executions[r]) \/ faults > crashes
=============================================================================
